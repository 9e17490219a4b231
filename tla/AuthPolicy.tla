------------------------------ MODULE AuthPolicy ------------------------------
(***************************************************************************)
(* What the authentication flow promises its owner, and nothing of how:    *)
(* an open flow gathers confirmed factors for one subject, never loses one *)
(* and never changes its subject, and closes either by refusing or by      *)
(* granting exactly the required tier on sufficient evidence for a subject *)
(* that may be served. No counters, no prompts, no codes, no bank.         *)
(***************************************************************************)
EXTENDS Integers

CONSTANTS Calls, Customers, NoCif, Flagged

VARIABLES
    open,                 \* call -> is a flow under way?
    required,             \* call -> the tier the flow was started for
    subject,              \* call -> the customer it is about, or NoCif
    evidence,             \* call -> the factors confirmed for the subject
    granted               \* call -> tier granted by the last flow, or NoTier

policyVars == <<open, required, subject, evidence, granted>>

NoTier == -1
Factors == {"cli", "identity", "mpin", "otp"}

Sufficient(t, factors) ==
    \/ t = 1 /\ "cli" \in factors /\ ({"mpin", "otp"} \cap factors # {})
    \/ t = 1 /\ {"identity", "otp"} \subseteq factors
    \/ t = 2 /\ {"mpin", "otp"} \subseteq factors /\ ({"cli", "identity"} \cap factors # {})

Init ==
    /\ open = [c \in Calls |-> FALSE]
    /\ required = [c \in Calls |-> 0]
    /\ subject = [c \in Calls |-> NoCif]
    /\ evidence = [c \in Calls |-> {}]
    /\ granted = [c \in Calls |-> NoTier]

\* A flow begins with nothing but, perhaps, a match of the calling number. One
\* for tier 0 is granted on the spot; a flagged match is refused on the spot.
Begin(c) ==
    /\ ~open[c]
    /\ \E t \in 0..2, k \in Customers \cup {NoCif} :
          /\ t = 0 => k = NoCif
          /\ required' = [required EXCEPT ![c] = t]
          /\ subject' = [subject EXCEPT ![c] = k]
          /\ evidence' = [evidence EXCEPT ![c] = IF k = NoCif THEN {} ELSE {"cli"}]
          /\ open' = [open EXCEPT ![c] = t # 0 /\ k \notin Flagged]
          /\ granted' = [granted EXCEPT ![c] = IF t = 0 THEN 0 ELSE NoTier]

\* At most one more factor is confirmed, and the subject is settled only once.
Learn(c, k, gained) ==
    /\ open[c]
    /\ \E f \in Factors : gained \subseteq {f}
    /\ subject[c] \in {NoCif, k}
    /\ subject' = [subject EXCEPT ![c] = k]
    /\ evidence' = [evidence EXCEPT ![c] = @ \cup gained]
    /\ UNCHANGED required

Proceed(c, k, gained) ==
    /\ k \notin Flagged
    /\ Learn(c, k, gained)
    /\ UNCHANGED <<open, granted>>

Grant(c, k, gained) ==
    /\ k \in Customers \ Flagged
    /\ Sufficient(required[c], evidence[c] \cup gained)
    /\ Learn(c, k, gained)
    /\ open' = [open EXCEPT ![c] = FALSE]
    /\ granted' = [granted EXCEPT ![c] = required[c]]

Refuse(c, k, gained) ==
    /\ Learn(c, k, gained)
    /\ open' = [open EXCEPT ![c] = FALSE]
    /\ UNCHANGED granted

Next ==
    \E c \in Calls :
        \/ Begin(c)
        \/ \E k \in Customers \cup {NoCif}, gained \in SUBSET Factors :
              Proceed(c, k, gained) \/ Grant(c, k, gained) \/ Refuse(c, k, gained)

Spec == Init /\ [][Next]_policyVars
=============================================================================
