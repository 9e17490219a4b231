------------------------- MODULE TelephonyPolicyProofs -------------------------
(***************************************************************************)
(* Telephony implements CallPolicy: every step of the service is one the   *)
(* policy allows of one call, or means nothing to it.                      *)
(***************************************************************************)
EXTENDS TelephonyProofs

-----------------------------------------------------------------------------
(***************************************************************************)
(* The refinement mapping, one call at a time.                             *)
(***************************************************************************)
\* Somebody is trusted enough for request r.
Trusting(c, r) == \E t \in Tiers : t >= TierOf[r.kind] /\ <<r.cif, t>> \in grants[c]

OpenStill(c) == live[c] /\ live'[c] = live[c]
OfferStill(c) == Standing(c)' = Standing(c)
TrustStill(c) == grants'[c] = grants[c]
FiledStill(c) == requests'[c] = requests[c]

\* The actions of the policy, as a step of call c shows them.
Idles(c) == live'[c] = live[c] /\ TrustStill(c) /\ OfferStill(c) /\ FiledStill(c)

Begins(c) == live'[c] /\ grants'[c] = {} /\ Standing(c)' = NoRequest /\ requests'[c] = <<>>

Closes(c) == ~live'[c] /\ TrustStill(c) /\ OfferStill(c) /\ FiledStill(c)

Trusts(c) ==
    /\ OpenStill(c) /\ Standing(c) = NoRequest /\ OfferStill(c) /\ FiledStill(c)
    /\ \/ \E k \in Customers \cup {NoCif}, t \in Tiers : grants'[c] = grants[c] \cup {<<k, t>>}
       \/ grants'[c] = {}

Offers(c) ==
    /\ OpenStill(c) /\ Standing(c) = NoRequest /\ TrustStill(c) /\ FiledStill(c)
    /\ \E r \in Requests : r.kind \in Intents /\ Trusting(c, r) /\ Standing(c)' = r

Withdraws(c) == OpenStill(c) /\ Standing(c)' = NoRequest /\ TrustStill(c) /\ FiledStill(c)

Files(c) ==
    /\ OpenStill(c) /\ TrustStill(c) /\ Standing(c)' = NoRequest
    /\ Standing(c) # NoRequest /\ Trusting(c, Standing(c))
    /\ Len(requests[c]) < MAX_SERVICE_REQUESTS_PER_CALL
    /\ requests'[c] = Append(requests[c], Standing(c))

Allowed(c) ==
    Idles(c) \/ Begins(c) \/ Closes(c) \/ Trusts(c) \/ Offers(c) \/ Withdraws(c) \/ Files(c)

\* What the policy sees of a step that changes nothing but call c.
Becomes(c) ==
    /\ live' = [live EXCEPT ![c] = live'[c]]
    /\ grants' = [grants EXCEPT ![c] = grants'[c]]
    /\ requests' = [requests EXCEPT ![c] = requests'[c]]
    /\ [d \in Calls |-> Standing(d)]' = [[d \in Calls |-> Standing(d)] EXCEPT ![c] = Standing(c)']
    /\ \A d \in Calls : d # c => Standing(d)' = Standing(d)

\* A step of one call is seen by the policy as a change of that call alone.
LEMMA SeenAsOneCall ==
    ASSUME TelephonyIInv, TelephonyIInv', NEW c \in Calls,
           \A d \in Calls : d # c => SameSession(d) /\ Kept(d) /\ SameAgent(d)
    PROVE  Becomes(c)
<1>1. \A d \in Calls : d # c =>
         /\ live'[d] = live[d] /\ grants'[d] = grants[d] /\ requests'[d] = requests[d]
         /\ Standing(d)' = Standing(d)
  BY DEF SameSession, Kept, SameAgent, Standing
<1>2. live' = [live EXCEPT ![c] = live'[c]]
  <2>1. live \in [Calls -> BOOLEAN] /\ live' \in [Calls -> BOOLEAN]
    BY DEF TelephonyIInv, SessionTypeOK
  <2> QED BY <1>1, <2>1, Zenon
<1>3. grants' = [grants EXCEPT ![c] = grants'[c]]
  BY <1>1 DEF TelephonyIInv, CallIInv, CoordinatorTypeOK
<1>4. requests' = [requests EXCEPT ![c] = requests'[c]]
  BY <1>1, Zenon DEF TelephonyIInv, AgentsIInv, AgentsTypeOK
<1>5. [d \in Calls |-> Standing(d)]' = [[d \in Calls |-> Standing(d)] EXCEPT ![c] = Standing(c)']
  BY <1>1, Zenon
<1> QED BY <1>1, <1>2, <1>3, <1>4, <1>5 DEF Becomes

\* What is allowed of one call is a step of the policy.
LEMMA AllowedIsPolicy ==
    ASSUME TelephonyIInv, TelephonyIInv', NEW c \in Calls, Becomes(c), Allowed(c)
    PROVE  Promise!PolicyNext \/ UNCHANGED Promise!policyVars
<1> DEFINE standing == [d \in Calls |-> Standing(d)]
<1>1. /\ live \in [Calls -> BOOLEAN] /\ live' \in [Calls -> BOOLEAN]
      /\ grants \in [Calls -> SUBSET ((Customers \cup {NoCif}) \X Tiers)]
      /\ requests \in [Calls -> Seq(Requests)]
  BY DEF TelephonyIInv, SessionTypeOK, CallIInv, CoordinatorTypeOK, AgentsIInv, AgentsTypeOK
<1>2. standing[c] = Standing(c) /\ standing' = [standing EXCEPT ![c] = Standing(c)']
  BY Zenon DEF Becomes
<1>3. ASSUME live'[c] = live[c] PROVE UNCHANGED live
  BY <1>1, <1>3, Zenon DEF Becomes
<1>4. ASSUME TrustStill(c) PROVE UNCHANGED grants
  BY <1>1, <1>4 DEF Becomes, TrustStill
<1>5. ASSUME FiledStill(c) PROVE UNCHANGED requests
  BY <1>1, <1>5 DEF Becomes, FiledStill
<1>6. ASSUME OfferStill(c) PROVE UNCHANGED standing
  BY <1>6, Zenon DEF OfferStill, Becomes
<1>7. CASE Idles(c)
  <2>1. UNCHANGED <<live, grants, requests, standing>>
    BY <1>3, <1>4, <1>5, <1>6, <1>7 DEF Idles
  <2> QED BY <2>1 DEF Promise!policyVars
<1>8. CASE Begins(c)
  <2>1. live'[c] = TRUE
    BY <1>1, <1>8, Zenon DEF Begins
  <2>2. Promise!Begin(c)
    BY <1>2, <1>8, <2>1, Zenon DEF Promise!Begin, Begins, Becomes
  <2> QED BY <2>2 DEF Promise!PolicyNext
<1>9. CASE Closes(c)
  <2>1. live'[c] = FALSE
    BY <1>1, <1>9, Zenon DEF Closes
  <2>2. UNCHANGED <<grants, requests, standing>>
    BY <1>4, <1>5, <1>6, <1>9 DEF Closes
  <2>3. live' = [live EXCEPT ![c] = FALSE]
    BY <2>1 DEF Becomes
  <2>4. Promise!Close(c)
    BY <2>2, <2>3 DEF Promise!Close
  <2> QED BY <2>4 DEF Promise!PolicyNext
<1>10. CASE Trusts(c)
  <2>1. /\ live[c] /\ standing[c] = NoRequest
        /\ UNCHANGED <<live, requests, standing>>
    BY <1>2, <1>3, <1>5, <1>6, <1>10 DEF Trusts, OpenStill
  <2>2. \/ \E k \in Customers \cup {NoCif}, t \in Tiers :
              grants' = [grants EXCEPT ![c] = grants[c] \cup {<<k, t>>}]
        \/ grants' = [grants EXCEPT ![c] = {}]
    <3>1. CASE \E k \in Customers \cup {NoCif}, t \in Tiers : grants'[c] = grants[c] \cup {<<k, t>>}
      <4>1. PICK k \in Customers \cup {NoCif}, t \in Tiers : grants'[c] = grants[c] \cup {<<k, t>>}
        BY <3>1
      <4>2. grants' = [grants EXCEPT ![c] = grants[c] \cup {<<k, t>>}]
        BY <4>1, Zenon DEF Becomes
      <4> QED BY <4>2
    <3>2. CASE grants'[c] = {}
      BY <3>2, Zenon DEF Becomes
    <3> QED BY <1>10, <3>1, <3>2, Zenon DEF Trusts
  <2>3. Promise!Trust(c)
    BY <2>1, <2>2, Zenon DEF Promise!Trust, Promise!Tiers, Tiers
  <2> QED BY <2>3 DEF Promise!PolicyNext
<1>11. CASE Offers(c)
  <2>1. /\ live[c] /\ standing[c] = NoRequest
        /\ UNCHANGED <<live, grants, requests>>
    BY <1>2, <1>3, <1>4, <1>5, <1>11 DEF Offers, OpenStill
  <2>2. PICK r \in Requests : r.kind \in Intents /\ Trusting(c, r) /\ Standing(c)' = r
    BY <1>11 DEF Offers
  <2>3. Promise!Trusted(c, r)
    BY <2>2, Zenon DEF Promise!Trusted, Promise!Tiers, Tiers, Trusting
  <2>4. standing' = [standing EXCEPT ![c] = r]
    BY <1>2, <2>2
  <2>5. Promise!Offer(c)
    BY <2>1, <2>2, <2>3, <2>4, Zenon DEF Promise!Offer
  <2> QED BY <2>5 DEF Promise!PolicyNext
<1>12. CASE Withdraws(c)
  <2>1. live[c] /\ UNCHANGED <<live, grants, requests>>
    BY <1>3, <1>4, <1>5, <1>12 DEF Withdraws, OpenStill
  <2>2. standing' = [standing EXCEPT ![c] = NoRequest]
    BY <1>2, <1>12 DEF Withdraws
  <2>3. Promise!Withdraw(c)
    BY <2>1, <2>2 DEF Promise!Withdraw
  <2> QED BY <2>3 DEF Promise!PolicyNext
<1>13. CASE Files(c)
  <2>1. /\ live[c] /\ standing[c] # NoRequest /\ UNCHANGED <<live, grants>>
        /\ Len(requests[c]) < MAX_SERVICE_REQUESTS_PER_CALL
    BY <1>2, <1>3, <1>4, <1>13 DEF Files, OpenStill
  <2>2. Promise!Trusted(c, Standing(c))
    BY <1>13, Zenon DEF Files, Promise!Trusted, Promise!Tiers, Tiers, Trusting
  <2>3. standing' = [standing EXCEPT ![c] = NoRequest]
    BY <1>2, <1>13 DEF Files
  <2>4. requests' = [requests EXCEPT ![c] = Append(requests[c], standing[c])]
    BY <1>2, <1>13 DEF Files, Becomes
  <2>5. Promise!File(c)
    BY <1>2, <2>1, <2>2, <2>3, <2>4 DEF Promise!File
  <2> QED BY <2>5 DEF Promise!PolicyNext
<1> QED BY <1>7, <1>8, <1>9, <1>10, <1>11, <1>12, <1>13 DEF Allowed

-----------------------------------------------------------------------------
(***************************************************************************)
(* What the steps of an agent mean to the policy.                          *)
(***************************************************************************)
\* An agent left alone offers and files nothing new.
LEMMA AgentsQuiet ==
    ASSUME NEW c \in Calls, UNCHANGED agentVars
    PROVE  OfferStill(c) /\ FiledStill(c)
BY DEF agentVars, OfferStill, FiledStill, Standing

\* Unless an agent waits for a yes, nothing stands; and if it does, what stands is
\* what it would submit.
LEMMA WhatStands ==
    ASSUME AgentsIInv, NEW c \in Calls
    PROVE  IF agent[c].stage \in ConfirmationStages
           THEN /\ Standing(c) = Drafted(c) /\ Drafted(c) \in Requests
                /\ Drafted(c) # NoRequest
           ELSE Standing(c) = NoRequest
<1>1. AgentsTypeOK /\ SlotsInv(c)
  BY DEF AgentsIInv, AgentInv
<1>2. CASE agent[c].stage \in ConfirmationStages
  <2>1. Standing(c) = Drafted(c)
    BY <1>1, <1>2 DEF Standing, SlotsInv, ConfirmationStages
  <2>2. agent[c].stage # "DONE"
    BY <1>2 DEF ConfirmationStages
  <2>3. Drafted(c) \in Requests
    BY <1>1, <2>2, DraftedIsRequest
  <2>4. Drafted(c).cif # NoRequest.cif
    BY <1>1, <2>2, PartiesAssumption DEF SlotsInv, Drafted, NoRequest
  <2>5. Drafted(c) # NoRequest
    BY <2>4
  <2> QED BY <1>2, <2>1, <2>3, <2>5
<1>3. CASE agent[c].stage \notin ConfirmationStages
  BY <1>3 DEF Standing, ConfirmationStages
<1> QED BY <1>2, <1>3

\* The same of the next state.
LEMMA WhatWillStand ==
    ASSUME AgentsIInv', NEW c \in Calls
    PROVE  IF agent'[c].stage \in ConfirmationStages
           THEN Standing(c)' = Drafted(c)' /\ Drafted(c)' \in Requests
           ELSE Standing(c)' = NoRequest
<1>1. AgentsTypeOK' /\ SlotsInv(c)'
  BY DEF AgentsIInv, AgentInv
<1>2. CASE agent'[c].stage \in ConfirmationStages
  <2>1. Standing(c)' = Drafted(c)'
    BY <1>1, <1>2 DEF Standing, SlotsInv, ConfirmationStages
  <2>2. agent'[c].stage # "DONE"
    BY <1>2 DEF ConfirmationStages
  <2>3. Drafted(c)' \in Requests
    BY <1>1, <2>2 DEF AgentsTypeOK, SlotsInv, Drafted, Requests
  <2> QED BY <1>2, <2>1, <2>3
<1>3. CASE agent'[c].stage \notin ConfirmationStages
  BY <1>3 DEF Standing, ConfirmationStages
<1> QED BY <1>2, <1>3

\* The ways an answer to an agent can end.
Keeps(c) == FiledStill(c) /\ (OfferStill(c) \/ Standing(c)' = NoRequest)

Drafts(c) == FiledStill(c) /\ Standing(c) = NoRequest /\ agent'[c].stage \in ConfirmationStages

Submits(c) ==
    /\ agent[c].stage \in ConfirmationStages /\ Standing(c)' = NoRequest
    /\ Len(requests[c]) < MAX_SERVICE_REQUESTS_PER_CALL
    /\ requests'[c] = Append(requests[c], Drafted(c))

\* Whatever is found in an answer, it ends in one of them.
LEMMA AnswerSeen ==
    ASSUME AgentsIInv, AgentsIInv', NEW c \in Calls, Answered(c)
    PROVE  Keeps(c) \/ Drafts(c) \/ Submits(c)
<1> DEFINE Says == Keeps(c) \/ Drafts(c) \/ Submits(c)
<1>1. /\ AgentsTypeOK /\ agent \in [Calls -> AgentRecords]
      /\ submissions[c] = Len(requests[c])
  BY DEF AgentsIInv, AgentsTypeOK, AgentRecords, AgentInv, FiledInv
<1>2. PICK s \in AgentInputs : SubmitInput(c, s)
  BY DEF Answered
<1>3. ASSUME agent'[c].stage \in {agent[c].stage, "DONE", "AWAITING_ADDRESS"},
             UNCHANGED <<requests, proposal>>
      PROVE  Says
  <2>1. CASE agent'[c].stage = agent[c].stage
    BY <1>3, <2>1 DEF Keeps, FiledStill, OfferStill, Standing
  <2>2. CASE agent'[c].stage \in {"DONE", "AWAITING_ADDRESS"}
    BY <1>3, <2>2 DEF Keeps, FiledStill, Standing
  <2> QED BY <1>3, <2>1, <2>2
<1>4. ASSUME NEW n, \/ agent' = [agent EXCEPT ![c].stage = "DONE"]
                    \/ agent' = [agent EXCEPT ![c].soft = n]
                    \/ agent' = [agent EXCEPT ![c].soft = n, ![c].stage = "DONE"]
                    \/ agent' = [agent EXCEPT ![c].confirm = n]
                    \/ agent' = [agent EXCEPT ![c].confirm = n, ![c].stage = "DONE"]
                    \/ agent' = [agent EXCEPT ![c].stage = "AWAITING_ADDRESS", ![c].address = n, ![c].confirm = 0]
      PROVE  agent'[c].stage \in {agent[c].stage, "DONE", "AWAITING_ADDRESS"}
  BY <1>1, <1>4 DEF AgentRecords
<1> HIDE DEF Says
<1>5. ASSUME NotCaught(c) PROVE Says
  BY <1>3, <1>4, <1>5 DEF NotCaught
<1>6. ASSUME RepromptConfirmation(c), UNCHANGED <<requests, proposal>> PROVE Says
  BY <1>3, <1>4, <1>6 DEF RepromptConfirmation
<1>7. ASSUME agent[c].stage \in ConfirmationStages, Submit(c, Drafted(c)), UNCHANGED proposal PROVE Says
  <2>1. agent' = [agent EXCEPT ![c].stage = "DONE"]
    BY <1>7 DEF Submit, AgentEscalates
  <2>2. CASE CanSubmit(c)
    <3>1. agent'[c].stage = "DONE"
      BY <1>1, <2>1 DEF AgentRecords
    <3>2. Standing(c)' = NoRequest
      BY <3>1 DEF Standing
    <3>3. requests' = [requests EXCEPT ![c] = Append(requests[c], Drafted(c))]
      BY <1>7, <2>2 DEF Submit, FileRequest
    <3>4. requests'[c] = Append(requests[c], Drafted(c))
      BY <1>1, <3>3, Zenon DEF AgentsTypeOK
    <3> QED BY <1>1, <1>7, <2>2, <3>2, <3>4 DEF Says, Submits, CanSubmit
  <2>3. CASE ~CanSubmit(c)
    <3>1. UNCHANGED <<requests, proposal>>
      BY <1>7, <2>3 DEF Submit
    <3> QED BY <1>3, <1>4, <2>1, <3>1
  <2> QED BY <2>2, <2>3
<1>8. ASSUME GiveAddress(c, s.intent, s.address) PROVE Says
  <2>1. Standing(c) = NoRequest /\ FiledStill(c)
    BY <1>8 DEF GiveAddress, Standing, FiledStill
  <2>2. CASE agent'[c].stage \in ConfirmationStages
    BY <2>1, <2>2 DEF Says, Drafts
  <2>3. CASE agent'[c].stage \notin ConfirmationStages
    <3>1. Standing(c)' = NoRequest
      BY <2>3, WhatWillStand
    <3> QED BY <2>1, <3>1 DEF Says, Keeps
  <2> QED BY <2>2, <2>3
<1>9. ASSUME ConfirmAddress(c, s.answer) PROVE Says
  <2>1. agent[c].stage \in ConfirmationStages /\ UNCHANGED proposal
    BY <1>9 DEF ConfirmAddress, ConfirmationStages
  <2>2. ASSUME /\ agent' = [agent EXCEPT ![c].stage = "AWAITING_ADDRESS", ![c].address = NoAddress, ![c].confirm = 0]
               /\ UNCHANGED requests
        PROVE  Says
    BY <1>3, <1>4, <2>1, <2>2
  <2> QED BY <1>6, <1>7, <1>9, <2>1, <2>2 DEF ConfirmAddress
<1>10. ASSUME ConfirmTool(c, s.answer) PROVE Says
  <2>1. agent[c].stage \in ConfirmationStages /\ UNCHANGED proposal
    BY <1>10 DEF ConfirmTool, ConfirmationStages
  <2>2. ASSUME /\ agent' = [agent EXCEPT ![c].stage = "DONE"]
               /\ UNCHANGED requests
        PROVE  Says
    BY <1>3, <1>4, <2>1, <2>2
  <2> QED BY <1>6, <1>7, <1>10, <2>1, <2>2 DEF ConfirmTool
<1> QED BY <1>2, <1>5, <1>8, <1>9, <1>10 DEF SubmitInput, Says

-----------------------------------------------------------------------------
(***************************************************************************)
(* What the steps of the coordinator and of the webhooks mean to it.       *)
(***************************************************************************)
\* The gate trusts one customer at one tier, or leaves the trust as it is.
LEMMA GateTrusts ==
    ASSUME CoordinatorTypeOK, NEW c \in Calls, NEW i, FromAuthState(c, i), Named(c)'
    PROVE  \/ TrustStill(c)
           \/ \E k \in Customers \cup {NoCif}, t \in Tiers : grants'[c] = grants[c] \cup {<<k, t>>}
<1>1. CASE UNCHANGED session
  BY <1>1 DEF session, TrustStill
<1>2. CASE Granted(c, i)
  <2>1. grants'[c] = grants[c] \cup {<<cif'[c], tier'[c]>>}
    BY <1>2 DEF Granted, CoordinatorTypeOK
  <2>2. <<cif'[c], tier'[c]>> \in Customers \X Tiers
    BY <2>1 DEF Named
  <2>3. cif'[c] \in Customers /\ tier'[c] \in Tiers
    BY <2>2
  <2> QED BY <2>1, <2>3
<1> QED BY <1>1, <1>2 DEF FromAuthState

\* Whoever was handed to an agent is trusted enough for what he was handed over for.
LEMMA ServedIsTrusted ==
    ASSUME TelephonyIInv, NEW c \in Calls, reply[c].status = "READY_FOR_HANDOFF",
           NEW r \in Requests, r.cif = reply[c].cif, r.kind = reply[c].intent
    PROVE  r.kind \in Intents /\ Trusting(c, r)
<1>1. /\ reply[c].intent \in Intents
      /\ reply[c].tier >= TierOf[reply[c].intent]
      /\ <<reply[c].cif, reply[c].tier>> \in grants[c]
      /\ grants[c] \subseteq Customers \X Tiers
  BY DEF TelephonyIInv, TelephonyInv, Named, CallIInv, SessionInv, GrantInv
<1>2. reply[c].tier \in Tiers
  BY <1>1
<1> QED BY <1>1, <1>2 DEF Trusting

\* Twilio, or a code that runs out: the session does not notice.
LEMMA UnnoticedIdles ==
    ASSUME NEW c \in Calls, UNCHANGED live, UNCHANGED grants, UNCHANGED agentVars
    PROVE  Allowed(c)
BY AgentsQuiet DEF Allowed, Idles, TrustStill

\* A new session begins with nothing.
LEMMA IncomingBegins ==
    ASSUME TelephonyIInv, NEW c \in Calls, Incoming(c)
    PROVE  Allowed(c)
<1>1. SessionTypeOK /\ CoordinatorTypeOK /\ AgentsTypeOK
  BY DEF TelephonyIInv, CallIInv, AgentsIInv
<1>2. live'[c]
  BY <1>1, Zenon DEF SessionTypeOK, Incoming
<1>3. grants'[c] = {}
  <2> DEFINE a == caller[c]
  <2>1. StartCall(c, a)
    BY DEF Incoming
  <2> HIDE DEF a
  <2> QED BY <1>1, <2>1, StartCallSays
<1>4. agent'[c].stage = "DONE" /\ requests'[c] = <<>>
  BY <1>1, RegistrySays DEF Incoming
<1>5. Standing(c)' = NoRequest
  BY <1>4 DEF Standing
<1> QED BY <1>2, <1>3, <1>4, <1>5 DEF Allowed, Begins

\* The session ends; what was done stays done.
LEMMA EndCloses ==
    ASSUME TelephonyIInv, NEW c \in Calls, live' = [live EXCEPT ![c] = FALSE],
           UNCHANGED callVars, UNCHANGED agentVars
    PROVE  Allowed(c)
<1>1. ~live'[c]
  BY Zenon DEF TelephonyIInv, SessionTypeOK
<1>2. TrustStill(c)
  BY DEF callVars, coordinatorVars, session, TrustStill
<1> QED BY <1>1, <1>2, AgentsQuiet DEF Allowed, Closes

\* The agent that asked gets an answer: it offers, withdraws or files.
LEMMA AnswerAllowed ==
    ASSUME TelephonyIInv, TelephonyIInv', NEW c \in Calls, GatherForAgent(c), Quiet
    PROVE  Allowed(c)
<1>1. AgentsIInv /\ AgentsIInv' /\ AgentsTypeOK
  BY DEF TelephonyIInv, AgentsIInv
<1>2. /\ live[c] /\ Answered(c) /\ UNCHANGED live /\ UNCHANGED grants
  BY DEF GatherForAgent, DispatchTo, callVars, coordinatorVars, session
<1>3. OpenStill(c) /\ TrustStill(c)
  BY <1>2 DEF OpenStill, TrustStill
<1>4. /\ reply[c].status = "READY_FOR_HANDOFF"
      /\ agent[c].intent = reply[c].intent /\ agent[c].cif = reply[c].cif
  BY DEF TelephonyIInv, TelephonyInv, ServingInv, GatherForAgent, Quiet
<1>5. agent'[c].intent = reply[c].intent /\ agent'[c].cif = reply[c].cif
  BY <1>1, <1>2, <1>4, AnswerSays
<1>6. CASE Keeps(c)
  BY <1>3, <1>6 DEF Keeps, Allowed, Idles, OpenStill, Withdraws
<1>7. CASE Drafts(c)
  <2> DEFINE r == Drafted(c)'
  <2>1. Standing(c)' = r /\ r \in Requests
    BY <1>1, <1>7, WhatWillStand DEF Drafts
  <2>2. r.cif = reply[c].cif /\ r.kind = reply[c].intent
    BY <1>5 DEF Drafted
  <2> HIDE DEF r
  <2>3. r.kind \in Intents /\ Trusting(c, r)
    BY <1>4, <2>1, <2>2, ServedIsTrusted
  <2> QED BY <1>3, <1>7, <2>1, <2>3 DEF Drafts, Allowed, Offers
<1>8. CASE Submits(c)
  <2> DEFINE r == Drafted(c)
  <2>1. Standing(c) = r /\ r \in Requests /\ r # NoRequest
    BY <1>1, <1>8, WhatStands DEF Submits
  <2>2. r.cif = reply[c].cif /\ r.kind = reply[c].intent
    BY <1>4 DEF Drafted
  <2>3. requests'[c] = Append(requests[c], r)
    BY <1>8 DEF Submits
  <2> HIDE DEF r
  <2>4. Trusting(c, r)
    BY <1>4, <2>1, <2>2, ServedIsTrusted
  <2>5. Files(c)
    BY <1>3, <1>8, <2>1, <2>3, <2>4 DEF Submits, Files
  <2> QED BY <2>5 DEF Allowed
<1> QED BY <1>1, <1>2, <1>6, <1>7, <1>8, AnswerSeen

\* The coordinator gets an answer, while no agent is at work: only the trust changes.
LEMMA CoordinatorAllowed ==
    ASSUME TelephonyIInv, TelephonyIInv', NEW c \in Calls, live[c], ~activeAgent[c], Quiet,
           UNCHANGED agentVars, UNCHANGED live,
           \/ TrustStill(c) \/ grants'[c] = {}
           \/ \E k \in Customers \cup {NoCif}, t \in Tiers : grants'[c] = grants[c] \cup {<<k, t>>}
    PROVE  Allowed(c)
<1>1. agent[c].stage = "DONE"
  BY DEF TelephonyIInv, TelephonyInv, WaitInv, Quiet
<1>2. Standing(c) = NoRequest
  BY <1>1 DEF Standing
<1>3. OfferStill(c) /\ FiledStill(c) /\ OpenStill(c)
  BY AgentsQuiet DEF OpenStill
<1>4. CASE TrustStill(c)
  BY <1>3, <1>4 DEF Allowed, Idles, OpenStill
<1>5. CASE ~TrustStill(c)
  BY <1>2, <1>3, <1>5 DEF Allowed, Trusts
<1> QED BY <1>4, <1>5

\* Whatever is posted.
LEMMA GatherAllowed ==
    ASSUME TelephonyIInv, TelephonyIInv', NEW c \in Calls, Gather(c)
    PROVE  Allowed(c)
<1>1. /\ CoordinatorTypeOK /\ CallIInv /\ CallIInv' /\ Quiet
      /\ Follows(c) /\ Named(c) /\ Named(c)' /\ WaitInv(c) /\ handling[c] = "nothing"
  BY DEF TelephonyIInv, TelephonyInv, CallIInv, Gather, Quiet
<1>2. CASE GatherTooLate(c)
  <2>1. UNCHANGED <<live, grants, agentVars>>
    BY <1>2 DEF GatherTooLate, callVars, coordinatorVars, session
  <2> QED BY <2>1, UnnoticedIdles
<1>3. CASE GatherForAgent(c)
  BY <1>1, <1>3, AnswerAllowed
<1>4. CASE live[c] /\ ~activeAgent[c] /\ GatherIntent(c)
  <2>1. UNCHANGED <<live, agentVars>> /\ pendingStatus[c] = "NEEDS_INTENT"
    BY <1>4 DEF GatherIntent, ToCoordinator, DispatchTo
  <2>2. Speak(c)
    BY <1>1, <1>4, <2>1 DEF WaitInv, Fits, FactorStatuses, Speak, GatherIntent
  <2>3. grants'[c] \in {grants[c], {}}
    BY <1>1, <2>2, SpeechReplies, ServedAssumption
  <2> QED BY <1>1, <1>4, <2>1, <2>3, CoordinatorAllowed DEF TrustStill
<1>5. CASE live[c] /\ ~activeAgent[c] /\ (GatherMpin(c) \/ GatherOtp(c) \/ GatherCard(c))
  <2>1. UNCHANGED <<live, agentVars>> /\ FromAuthState(c, pendingIntent[c])
    BY <1>5 DEF GatherMpin, GatherOtp, GatherCard, ToCoordinator, DispatchTo, Passthrough
  <2> DEFINE i == pendingIntent[c]
  <2>2. FromAuthState(c, i)
    BY <2>1
  <2> HIDE DEF i
  <2> QED BY <1>1, <1>5, <2>1, <2>2, GateTrusts, CoordinatorAllowed
<1>6. CASE live[c] /\ ~activeAgent[c] /\ GatherAccount(c)
  <2>1. UNCHANGED <<live, grants, agentVars>>
    BY <1>6 DEF GatherAccount, callVars, coordinatorVars, session
  <2> QED BY <2>1, UnnoticedIdles
<1> QED BY <1>2, <1>3, <1>4, <1>5, <1>6 DEF Gather

\* A reply of the coordinator: a fresh agent offers at once, or nothing, or the
\* session ends.
LEMMA RenderAllowed ==
    ASSUME TelephonyIInv, TelephonyIInv', NEW c \in Calls, Render(c)
    PROVE  Allowed(c)
<1>1. /\ AgentsIInv' /\ AgentsTypeOK /\ live[c] /\ agent[c].stage = "DONE"
  BY DEF TelephonyIInv, AgentsIInv, TelephonyInv, HandlerInv, CoordinatorInv, Render
<1>2. CASE EndSession(c) /\ UNCHANGED <<callVars, agentVars, sessionVars>>
  BY <1>2, EndCloses DEF EndSession
<1>3. CASE RenderFinal(c)
  BY <1>3, EndCloses DEF RenderFinal, EndSession
<1>4. CASE RenderQuestion(c)
  <2>1. UNCHANGED <<live, grants, agentVars>>
    BY <1>4 DEF RenderQuestion, callVars, coordinatorVars, session
  <2> QED BY <2>1, UnnoticedIdles
<1>5. CASE RenderHandoff(c)
  <2>1. reply[c].status = "READY_FOR_HANDOFF" /\ StartAgent(c, reply[c].intent, reply[c].cif)
        /\ UNCHANGED <<live, grants>>
    BY <1>5 DEF RenderHandoff, callVars, coordinatorVars, session
  <2>2. agent'[c].intent = reply[c].intent /\ agent'[c].cif = reply[c].cif
    <3> DEFINE i == reply[c].intent
               k == reply[c].cif
    <3>1. StartAgent(c, i, k)
      BY <2>1
    <3> HIDE DEF i, k
    <3>2. agent'[c].intent = i /\ agent'[c].cif = k
      BY <1>1, <3>1, StartSays
    <3> QED BY <3>2 DEF i, k
  <2>3. OpenStill(c) /\ TrustStill(c) /\ FiledStill(c)
    BY <1>1, <2>1 DEF OpenStill, TrustStill, FiledStill, StartAgent
  <2>4. Standing(c) = NoRequest
    BY <1>1 DEF Standing
  <2>5. CASE agent'[c].stage \in ConfirmationStages
    <3> DEFINE r == Drafted(c)'
    <3>1. Standing(c)' = r /\ r \in Requests
      BY <1>1, <2>5, WhatWillStand
    <3>2. r.cif = reply[c].cif /\ r.kind = reply[c].intent
      BY <2>2 DEF Drafted
    <3> HIDE DEF r
    <3>3. r.kind \in Intents /\ Trusting(c, r)
      BY <2>1, <3>1, <3>2, ServedIsTrusted
    <3> QED BY <2>3, <2>4, <3>1, <3>3 DEF Allowed, Offers
  <2>6. CASE agent'[c].stage \notin ConfirmationStages
    <3>1. Standing(c)' = NoRequest
      BY <1>1, <2>6, WhatWillStand
    <3> QED BY <2>3, <2>4, <3>1 DEF Allowed, Idles, OpenStill, OfferStill
  <2> QED BY <2>5, <2>6
<1> QED BY <1>2, <1>3, <1>4, <1>5 DEF Render

\* A result of an agent: nothing the policy knows of changes, whatever it was.
LEMMA RenderAgentAllowed ==
    ASSUME TelephonyIInv, TelephonyIInv', NEW c \in Calls, RenderAgent(c)
    PROVE  Allowed(c)
<1>1. /\ CallIInv /\ CallIInv' /\ Follows(c) /\ Named(c)
      /\ agentReply[c].status = "NEED_HANDOFF" => agentReply[c].intent \in Intents
  BY DEF TelephonyIInv, TelephonyInv, RenderAgent, ServingInv
<1>2. UNCHANGED <<live, agentVars>>
  BY DEF RenderAgent, RenderDeeper
<1>3. TrustStill(c)
  <2>1. CASE UNCHANGED grants
    BY <2>1 DEF TrustStill
  <2>2. CASE agentReply[c].status = "NEED_HANDOFF" /\ RouteIntent(c, agentReply[c].intent)
    <3> DEFINE i == agentReply[c].intent
    <3>1. i \in Intents /\ Route(c, i)
      BY <1>1, <2>2 DEF RouteIntent
    <3> HIDE DEF i
    <3> QED BY <1>1, <3>1, RouteReplies, ServedAssumption DEF TrustStill
  <2> QED BY <2>1, <2>2 DEF RenderAgent, MarkTaskCompleted, EscalateFromAgent, callVars, coordinatorVars, session
<1> QED BY <1>2, <1>3, AgentsQuiet DEF Allowed, Idles

-----------------------------------------------------------------------------
(***************************************************************************)
(* The theorem.                                                            *)
(***************************************************************************)
\* Every step of the service is one of one call that the policy allows, or means
\* nothing to it.
LEMMA ServiceSteps ==
    ASSUME TelephonyIInv, TelephonyIInv', TelephonyNext
    PROVE  Promise!PolicyNext \/ UNCHANGED Promise!policyVars
<1>1. PICK c \in Calls :
         \/ Dial(c) \/ PostAgain(c) \/ Post(c) \/ CallEnds(c)
         \/ Incoming(c) \/ StatusCallback(c) \/ Gather(c) \/ Render(c) \/ RenderAgent(c)
         \/ Expire(c) /\ UNCHANGED <<bankVars, flowVars, coordinatorVars, agentVars,
                                     sessionVars, live, lineVars, inflight, caller, handlerVars>>
  BY DEF TelephonyNext
<1>2. Stepped(c)
  BY <1>1, TwilioStepped, IncomingStepped, StatusStepped, GatherStepped, RenderStepped,
     RenderAgentStepped, ExpireStepped
<1>3. Becomes(c)
  <2>1. CallIInv /\ AgentsIInv /\ Driven(c) /\ SessionWritten(c)
    BY <1>2 DEF TelephonyIInv, Stepped
  <2> QED BY <2>1, DrivenInv, SeenAsOneCall DEF SessionWritten
<1>4. Allowed(c)
  <2>1. CASE Dial(c) \/ PostAgain(c) \/ Post(c) \/ CallEnds(c)
    BY <2>1, UnnoticedIdles DEF Dial, PostAgain, Post, CallEnds, serverVars, callVars, coordinatorVars, session
  <2>2. CASE StatusCallback(c)
    BY <2>2, EndCloses DEF StatusCallback
  <2>3. CASE UNCHANGED <<coordinatorVars, agentVars, live>>
    BY <2>3, UnnoticedIdles DEF coordinatorVars, session
  <2> QED BY <1>1, <2>1, <2>2, <2>3, IncomingBegins, GatherAllowed, RenderAllowed, RenderAgentAllowed
<1> QED BY <1>3, <1>4, AllowedIsPolicy

\* Before any call there is no session, no trust, no offer and nothing filed.
LEMMA ServiceStarts == TelephonyInit => Promise!PolicyInit
<1> SUFFICES ASSUME TelephonyInit PROVE Promise!PolicyInit
  OBVIOUS
<1>1. live = [c \in Calls |-> FALSE]
  BY DEF TelephonyInit
<1>2. grants = [c \in Calls |-> {}]
  BY DEF TelephonyInit, CallInit, CoordinatorInit
<1>3. requests = [c \in Calls |-> <<>>]
  BY DEF TelephonyInit, AgentsInit
<1>4. \A c \in Calls : Standing(c) = NoRequest
  BY DEF TelephonyInit, AgentsInit, FreshAgent, Standing
<1>5. [c \in Calls |-> Standing(c)] = [c \in Calls |-> NoRequest]
  BY <1>4, Zenon
<1> QED BY <1>1, <1>2, <1>3, <1>5, Zenon DEF Promise!PolicyInit

\* The service implements CallPolicy: whatever the webhooks, the gate and the
\* agents do, and in whatever order requests are handled, nothing is filed for a
\* call but an offer that stands, once, within the limit, for a customer trusted
\* enough from before it was made until then.
THEOREM ServiceKeepsPromise == TelephonySpec => ImplementsCallPolicy
<1>1. TelephonyIInv /\ TelephonyIInv' /\ [TelephonyNext]_telephonyVars =>
         [Promise!PolicyNext]_Promise!policyVars
  <2>1. UNCHANGED telephonyVars => UNCHANGED Promise!policyVars
    BY DEF telephonyVars, callVars, coordinatorVars, session, agentVars, Promise!policyVars, Standing
  <2> QED BY <2>1, ServiceSteps
<1> QED BY <1>1, ServiceStarts, TelephonyInvariance, PTL
        DEF TelephonySpec, ImplementsCallPolicy, Promise!PolicySpec
=============================================================================
