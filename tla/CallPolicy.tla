------------------------------ MODULE CallPolicy ------------------------------
(***************************************************************************)
(* What the service promises of a phone call, told without webhooks,       *)
(* coordinators, flows or agents: while its session is open, somebody may  *)
(* come to be trusted to a tier, an offer may stand, and what stands may   *)
(* be filed once, if the customer it is for is trusted enough, up to a     *)
(* limit. Nothing else happens to a call. Telephony implements it.         *)
(***************************************************************************)
EXTENDS Sequences, IntentCatalog

CONSTANTS
    Offers,               \* the requests that can be filed: whose, of which kind, what
    NoOffer,
    MAX_FILED             \* requests per session

VARIABLES
    open,                 \* the call has a session
    trust,                \* the <<customer, tier>> pairs established
    offer,                \* what was put to the caller and not yet answered, or NoOffer
    filed                 \* the requests filed, in order

policyVars == <<open, trust, offer, filed>>

PolicyInit ==
    /\ open = [c \in Calls |-> FALSE]
    /\ trust = [c \in Calls |-> {}]
    /\ offer = [c \in Calls |-> NoOffer]
    /\ filed = [c \in Calls |-> <<>>]

\* A session begins with nothing, even if there is one for the call already.
Begin(c) ==
    /\ open' = [open EXCEPT ![c] = TRUE]
    /\ trust' = [trust EXCEPT ![c] = {}]
    /\ offer' = [offer EXCEPT ![c] = NoOffer]
    /\ filed' = [filed EXCEPT ![c] = <<>>]

Close(c) ==
    /\ open' = [open EXCEPT ![c] = FALSE]
    /\ UNCHANGED <<trust, offer, filed>>

\* Trust is established one customer and tier at a time, and lost all at once.
Trust(c) ==
    /\ open[c] /\ offer[c] = NoOffer
    /\ \/ \E k \in Customers \cup {NoCif}, t \in Tiers : trust' = [trust EXCEPT ![c] = @ \cup {<<k, t>>}]
       \/ trust' = [trust EXCEPT ![c] = {}]
    /\ UNCHANGED <<open, offer, filed>>

Trusted(c, r) == \E t \in Tiers : t >= TierOf[r.kind] /\ <<r.cif, t>> \in trust[c]

\* An offer is made only to one who is trusted enough for it.
Offer(c) ==
    /\ open[c] /\ offer[c] = NoOffer
    /\ \E r \in Offers : Trusted(c, r) /\ offer' = [offer EXCEPT ![c] = r]
    /\ UNCHANGED <<open, trust, filed>>

Withdraw(c) ==
    /\ open[c]
    /\ offer' = [offer EXCEPT ![c] = NoOffer]
    /\ UNCHANGED <<open, trust, filed>>

\* What is filed is the offer that stands, which thereby stands no longer.
File(c) ==
    /\ open[c] /\ offer[c] # NoOffer
    /\ Trusted(c, offer[c])
    /\ Len(filed[c]) < MAX_FILED
    /\ filed' = [filed EXCEPT ![c] = Append(@, offer[c])]
    /\ offer' = [offer EXCEPT ![c] = NoOffer]
    /\ UNCHANGED <<open, trust>>

PolicyNext ==
    \E c \in Calls :
        Begin(c) \/ Close(c) \/ Trust(c) \/ Offer(c) \/ Withdraw(c) \/ File(c)

PolicySpec == PolicyInit /\ [][PolicyNext]_policyVars
=============================================================================
