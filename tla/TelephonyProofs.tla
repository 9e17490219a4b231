---------------------------- MODULE TelephonyProofs ----------------------------
(***************************************************************************)
(* Theorems about Telephony: the webhooks drive coordinator and agents as  *)
(* their own specifications allow, so that what is proved of those holds   *)
(* of the composition, and every answer meets the object and the question  *)
(* it is for.                                                              *)
(***************************************************************************)
EXTENDS Telephony, CoordinatorProofs, DomainAgentsProofs

-----------------------------------------------------------------------------
(***************************************************************************)
(* The inductive invariant, one call at a time.                            *)
(***************************************************************************)
Questions == {"NEEDS_INTENT", "NEEDS_MPIN", "NEEDS_OTP", "account", "card"} \cup AgentStages
Pending == FactorStatuses \cup Final \cup {"NEEDS_INTENT"}

\* The types of Twilio's side of the calls, and of the sessions.
LineTypeOK ==
    /\ line \in [Calls -> Lines]
    /\ inflight \in [Calls -> SUBSET Webhooks]
    /\ caller \in [Calls -> Customers \cup {NoCif}]
    /\ asked \in [Calls -> Questions]
    /\ handling \in [Calls -> {"nothing", "coordinator", "agent"}]
    /\ depth \in [Calls -> 0..MAX_RENDER_DEPTH + 1]

SessionTypeOK ==
    /\ live \in [Calls -> BOOLEAN]
    /\ pendingStatus \in [Calls -> Pending]
    /\ activeAgent \in [Calls -> BOOLEAN]
    /\ idStep \in [Calls -> {"account", "card"}]
    /\ pendingAccount \in [Calls -> Customers \cup {NoCif}]
    /\ heardAt \in [Calls -> Nat]

\* The pending factor is one that the flow, in the stage it is in, waits for.
Fits(c) ==
    /\ pendingStatus[c] \in FactorStatuses
    /\ pendingStatus[c] = "NEEDS_MPIN" => stage[c] \in MpinStages
    /\ pendingStatus[c] = "NEEDS_OTP" => stage[c] \in OtpStages
    /\ pendingStatus[c] = "NEEDS_IDENTIFICATION" => stage[c] = "AWAITING_IDENTIFICATION"

\* A handler is at work only on a posted answer, in a session that is there. Twilio
\* posts one answer at a time, and listens for none while one is out.
HandlerInv(c) ==
    /\ handling[c] # "nothing" => live[c] /\ "gather" \in inflight[c]
    /\ "gather" \in inflight[c] => line[c] \in {"gather", "over"}
    /\ caller[c] \in Reachable \cup {NoCif}

\* Between requests: who waits for the next answer.
WaitInv(c) ==
    live[c] /\ handling[c] = "nothing" =>
        IF activeAgent[c]
        THEN agent[c].stage # "DONE"
        ELSE /\ agent[c].stage = "DONE" /\ agentReply[c].status # "ESCALATE"
             /\ \/ pendingStatus[c] = "NEEDS_INTENT" /\ reply[c].status = "NEEDS_INTENT"
                \/ activeAuth[c] /\ Fits(c)

\* While a reply of the coordinator is rendered, no agent is at work, and one that
\* escalated is on its way to the CSR.
CoordinatorInv(c) ==
    handling[c] = "coordinator" =>
        /\ ~activeAgent[c] /\ agent[c].stage = "DONE"
        /\ agentReply[c].status = "ESCALATE" => reply[c].status = "ESCALATED"
        /\ reply[c].status = "NEEDS_REPEAT" => Fits(c)

\* While an agent has the call, it serves the customer and intent of the handoff.
ServingInv(c) ==
    handling[c] = "agent" \/ (live[c] /\ handling[c] = "nothing" /\ activeAgent[c]) =>
        /\ reply[c].status = "READY_FOR_HANDOFF"
        /\ agent[c].intent = reply[c].intent /\ agent[c].cif = reply[c].cif
        /\ agentReply[c].status = "NEED_HANDOFF" => agentReply[c].intent \in Intents \ {agent[c].intent}

\* Account digits are kept only within the attempt they were heard in.
PairInv(c) ==
    live[c] /\ idStep[c] = "card" =>
        /\ pendingStatus[c] = "NEEDS_IDENTIFICATION" /\ heardAt[c] = idAttempts[c]
        /\ ~activeAgent[c] /\ handling[c] # "agent"
        /\ handling[c] = "coordinator" => reply[c].status = "NEEDS_REPEAT"

\* An answer that is out, or about to be asked for again, is the one expected.
AskedInv(c) ==
    live[c] /\ (line[c] = "listening" \/ "gather" \in inflight[c])
            /\ (handling[c] = "nothing" \/ (handling[c] = "coordinator" /\ reply[c].status = "NEEDS_REPEAT"))
        => \/ Expected(c) = asked[c]
           \/ Expected(c) = "NEEDS_INTENT" /\ capture[c] = Greeting

\* An agent reached by way of another is a fresh one, and has not given up yet.
DepthInv(c) ==
    /\ depth[c] <= 1
    /\ handling[c] = "agent" /\ depth[c] = 1 => agentReply[c].status \in {"COMPLETED", "NEEDS_INPUT"}

\* A session that came after the end of its call knows nobody; all it can still be
\* given is one utterance.
OrphanInv(c) ==
    live[c] /\ line[c] = "over" /\ "status" \notin inflight[c] =>
        /\ grants[c] = {} /\ requests[c] = <<>>
        /\ handling[c] = "nothing" /\ "gather" \in inflight[c] => pendingStatus[c] = "NEEDS_INTENT"

TelephonyInv(c) ==
    /\ Follows(c) /\ Named(c)
    /\ HandlerInv(c) /\ WaitInv(c) /\ CoordinatorInv(c) /\ ServingInv(c)
    /\ PairInv(c) /\ AskedInv(c) /\ DepthInv(c) /\ OrphanInv(c)

TelephonyIInv ==
    /\ CallIInv /\ AgentsIInv
    /\ LineTypeOK /\ SessionTypeOK
    /\ \A c \in Calls : TelephonyInv(c)

\* The line, and the session, of another call are left alone.
SameLine(d) ==
    /\ line'[d] = line[d] /\ inflight'[d] = inflight[d] /\ caller'[d] = caller[d]
    /\ asked'[d] = asked[d] /\ handling'[d] = handling[d] /\ depth'[d] = depth[d]

SameSession(d) ==
    /\ live'[d] = live[d] /\ pendingStatus'[d] = pendingStatus[d] /\ activeAgent'[d] = activeAgent[d]
    /\ idStep'[d] = idStep[d] /\ pendingAccount'[d] = pendingAccount[d] /\ heardAt'[d] = heardAt[d]

\* What the steps below write of the lines, and of the sessions, is call c's.
LineWritten(c) == LineTypeOK' /\ \A d \in Calls : d # c => SameLine(d)
SessionWritten(c) == SessionTypeOK' /\ \A d \in Calls : d # c => SameSession(d)

\* A call of which nothing changes keeps its invariant.
LEMMA SameCallInv ==
    ASSUME NEW d \in Calls, TelephonyInv(d), SameLine(d), SameSession(d),
           Kept(d), SameAgent(d), Untouched(d), idAttempts'[d] = idAttempts[d]
    PROVE  TelephonyInv(d)'
<1>1. Follows(d)' /\ Named(d)'
  BY DEF TelephonyInv, Follows, Named, Kept, Untouched
<1>2. HandlerInv(d)'
  BY DEF TelephonyInv, HandlerInv, SameLine, SameSession
<1>3. WaitInv(d)'
  BY DEF TelephonyInv, WaitInv, Fits, SameLine, SameSession, Kept, SameAgent, Untouched
<1>4. CoordinatorInv(d)'
  BY DEF TelephonyInv, CoordinatorInv, Fits, SameLine, SameSession, Kept, SameAgent, Untouched
<1>5. ServingInv(d)'
  BY DEF TelephonyInv, ServingInv, SameLine, SameSession, Kept, SameAgent
<1>6. PairInv(d)'
  BY DEF TelephonyInv, PairInv, SameLine, SameSession, Kept
<1>7. AskedInv(d)'
  BY DEF TelephonyInv, AskedInv, Expected, SameLine, SameSession, Kept, SameAgent
<1>8. DepthInv(d)'
  BY DEF TelephonyInv, DepthInv, SameLine, SameAgent
<1>9. OrphanInv(d)'
  BY DEF TelephonyInv, OrphanInv, SameLine, SameSession, Kept, SameAgent
<1> QED BY <1>1, <1>2, <1>3, <1>4, <1>5, <1>6, <1>7, <1>8, <1>9 DEF TelephonyInv

-----------------------------------------------------------------------------
(***************************************************************************)
(* The shared steps of the handlers: what they write of the line.          *)
(***************************************************************************)
\* The line of nobody changes.
LEMMA LinesStay ==
    ASSUME LineTypeOK, UNCHANGED <<lineVars, inflight, caller, handlerVars>>
    PROVE  LineTypeOK' /\ \A d \in Calls : SameLine(d)
<1>1. UNCHANGED <<line, asked, inflight, caller, handling, depth>>
  BY DEF lineVars, handlerVars
<1> QED BY <1>1 DEF LineTypeOK, SameLine

\* The session of nobody changes.
LEMMA SessionsStay ==
    ASSUME SessionTypeOK, UNCHANGED <<sessionVars, live>>
    PROVE  SessionTypeOK' /\ \A d \in Calls : SameSession(d)
<1>1. UNCHANGED <<pendingStatus, activeAgent, idStep, pendingAccount, heardAt, live>>
  BY DEF sessionVars
<1> QED BY <1>1 DEF SessionTypeOK, SameSession

\* The handler has answered; what is left of the request is the status callback
\* that follows, if Twilio still waited.
LEMMA HungUp ==
    ASSUME LineTypeOK, NEW c \in Calls, HangUp(c)
    PROVE  /\ LineWritten(c)
           /\ handling'[c] = "nothing" /\ depth'[c] = depth[c] /\ caller'[c] = caller[c]
           /\ "gather" \notin inflight'[c]
<1>1. /\ handling' = [handling EXCEPT ![c] = "nothing"]
      /\ UNCHANGED <<asked, caller, depth>>
  BY DEF HangUp
<1>2. \E w \in SUBSET Webhooks : inflight' = [inflight EXCEPT ![c] = w] /\ "gather" \notin w
  <2>1. inflight[c] \subseteq Webhooks
    BY DEF LineTypeOK
  <2>2. \/ inflight' = [inflight EXCEPT ![c] = (inflight[c] \ {"gather"}) \cup {"status"}]
        \/ inflight' = [inflight EXCEPT ![c] = inflight[c] \ {"gather"}]
    BY DEF HangUp
  <2>3. /\ (inflight[c] \ {"gather"}) \cup {"status"} \in SUBSET Webhooks
        /\ inflight[c] \ {"gather"} \in SUBSET Webhooks
    BY <2>1 DEF Webhooks
  <2> QED BY <2>2, <2>3
<1>3. line' = [line EXCEPT ![c] = "over"] \/ UNCHANGED line
  BY DEF HangUp
<1>4. /\ inflight' \in [Calls -> SUBSET Webhooks] /\ "gather" \notin inflight'[c]
      /\ \A d \in Calls : d # c => inflight'[d] = inflight[d]
  BY <1>2 DEF LineTypeOK
<1>5. /\ line' \in [Calls -> Lines]
      /\ \A d \in Calls : d # c => line'[d] = line[d]
  BY <1>3 DEF LineTypeOK, Lines
<1>6. /\ handling' \in [Calls -> {"nothing", "coordinator", "agent"}] /\ handling'[c] = "nothing"
      /\ \A d \in Calls : d # c => handling'[d] = handling[d]
  BY <1>1 DEF LineTypeOK
<1>7. LineTypeOK'
  BY <1>1, <1>4, <1>5, <1>6 DEF LineTypeOK
<1>8. \A d \in Calls : d # c => SameLine(d)
  BY <1>1, <1>4, <1>5, <1>6 DEF SameLine
<1> QED BY <1>1, <1>4, <1>6, <1>7, <1>8 DEF LineWritten

\* The handler has asked q. Twilio hears it and listens, unless the call is over.
LEMMA CallerAsked ==
    ASSUME LineTypeOK, NEW c \in Calls, HandlerInv(c), "gather" \in inflight[c],
           NEW q \in Questions, AskCaller(c, q)
    PROVE  /\ LineWritten(c)
           /\ handling'[c] = "nothing" /\ depth'[c] = depth[c] /\ caller'[c] = caller[c]
           /\ "gather" \notin inflight'[c]
           /\ "status" \in inflight'[c] <=> "status" \in inflight[c]
           /\ \/ line'[c] = "listening" /\ asked'[c] = q
              \/ line[c] = "over" /\ line'[c] = "over"
<1>1. /\ handling' = [handling EXCEPT ![c] = "nothing"]
      /\ inflight' = [inflight EXCEPT ![c] = inflight[c] \ {"gather"}]
      /\ UNCHANGED <<caller, depth>>
  BY DEF AskCaller
<1>2. \/ line' = [line EXCEPT ![c] = "listening"] /\ asked' = [asked EXCEPT ![c] = q]
      \/ line[c] = "over" /\ UNCHANGED <<line, asked>>
  BY DEF AskCaller, GatherResponse, HandlerInv, lineVars
<1>3. inflight[c] \ {"gather"} \in SUBSET Webhooks
  BY DEF LineTypeOK
<1>4. /\ inflight' \in [Calls -> SUBSET Webhooks] /\ inflight'[c] = inflight[c] \ {"gather"}
      /\ \A d \in Calls : d # c => inflight'[d] = inflight[d]
  BY <1>1, <1>3 DEF LineTypeOK
<1>5. /\ line' \in [Calls -> Lines] /\ asked' \in [Calls -> Questions]
      /\ \A d \in Calls : d # c => line'[d] = line[d] /\ asked'[d] = asked[d]
      /\ \/ line'[c] = "listening" /\ asked'[c] = q
         \/ line[c] = "over" /\ line'[c] = "over"
  BY <1>2 DEF LineTypeOK, Lines
<1>6. /\ handling' \in [Calls -> {"nothing", "coordinator", "agent"}] /\ handling'[c] = "nothing"
      /\ \A d \in Calls : d # c => handling'[d] = handling[d]
  BY <1>1 DEF LineTypeOK
<1>7. LineTypeOK'
  BY <1>1, <1>4, <1>5, <1>6 DEF LineTypeOK
<1>8. \A d \in Calls : d # c => SameLine(d)
  BY <1>1, <1>4, <1>5, <1>6 DEF SameLine
<1> QED BY <1>1, <1>4, <1>5, <1>6, <1>7, <1>8 DEF LineWritten

\* The answer is passed on, and its reply rendered next.
LEMMA Dispatched ==
    ASSUME LineTypeOK, SessionTypeOK, NEW c \in Calls,
           NEW r \in {"coordinator", "agent"}, DispatchTo(c, r)
    PROVE  /\ LineWritten(c)
           /\ handling'[c] = r /\ depth'[c] = 0
           /\ UNCHANGED <<live, line, asked, inflight, caller>>
<1>1. /\ handling' = [handling EXCEPT ![c] = r] /\ depth' = [depth EXCEPT ![c] = 0]
      /\ UNCHANGED <<live, line, asked, inflight, caller>>
  BY DEF DispatchTo, lineVars
<1>2. 0 \in 0..MAX_RENDER_DEPTH + 1
  BY RenderAssumption
<1>3. /\ handling' \in [Calls -> {"nothing", "coordinator", "agent"}] /\ handling'[c] = r
      /\ depth' \in [Calls -> 0..MAX_RENDER_DEPTH + 1] /\ depth'[c] = 0
      /\ \A d \in Calls : d # c => handling'[d] = handling[d] /\ depth'[d] = depth[d]
  BY <1>1, <1>2 DEF LineTypeOK
<1>4. LineTypeOK' /\ \A d \in Calls : d # c => SameLine(d)
  BY <1>1, <1>3 DEF LineTypeOK, SameLine
<1> QED BY <1>1, <1>3, <1>4 DEF LineWritten

\* What a step writes of the session, variable by variable.
LEMMA SessionSet ==
    ASSUME SessionTypeOK, NEW c \in Calls,
           UNCHANGED live \/ \E b \in BOOLEAN : live' = [live EXCEPT ![c] = b],
           UNCHANGED activeAgent \/ \E b \in BOOLEAN : activeAgent' = [activeAgent EXCEPT ![c] = b],
           UNCHANGED pendingStatus \/ \E p \in Pending : pendingStatus' = [pendingStatus EXCEPT ![c] = p],
           UNCHANGED idStep \/ \E i \in {"account", "card"} : idStep' = [idStep EXCEPT ![c] = i],
           \/ UNCHANGED pendingAccount
           \/ \E k \in Customers \cup {NoCif} : pendingAccount' = [pendingAccount EXCEPT ![c] = k],
           UNCHANGED heardAt \/ \E n \in Nat : heardAt' = [heardAt EXCEPT ![c] = n]
    PROVE  SessionWritten(c)
<1>1. live' \in [Calls -> BOOLEAN] /\ \A d \in Calls : d # c => live'[d] = live[d]
  BY Zenon DEF SessionTypeOK
<1>2. activeAgent' \in [Calls -> BOOLEAN] /\ \A d \in Calls : d # c => activeAgent'[d] = activeAgent[d]
  BY Zenon DEF SessionTypeOK
<1>3. /\ pendingStatus' \in [Calls -> Pending] 
      /\ \A d \in Calls : d # c => pendingStatus'[d] = pendingStatus[d]
  BY Zenon DEF SessionTypeOK
<1>4. idStep' \in [Calls -> {"account", "card"}] /\ \A d \in Calls : d # c => idStep'[d] = idStep[d]
  BY Zenon DEF SessionTypeOK
<1>5. /\ pendingAccount' \in [Calls -> Customers \cup {NoCif}]
      /\ \A d \in Calls : d # c => pendingAccount'[d] = pendingAccount[d]
  BY Zenon DEF SessionTypeOK
<1>6. heardAt' \in [Calls -> Nat] /\ \A d \in Calls : d # c => heardAt'[d] = heardAt[d]
  BY Zenon DEF SessionTypeOK
<1> QED BY <1>1, <1>2, <1>3, <1>4, <1>5, <1>6 DEF SessionWritten, SessionTypeOK, SameSession

-----------------------------------------------------------------------------
(***************************************************************************)
(* What is to be shown of each step, and what follows for all calls.       *)
(***************************************************************************)
\* Coordinator and agents are driven as they allow, for one call at a time.
Driven(c) ==
    /\ CallStep(c) \/ UNCHANGED callVars
    /\ AgentStep(c) \/ UNCHANGED agentVars

Stepped(c) == Driven(c) /\ LineWritten(c) /\ SessionWritten(c) /\ TelephonyInv(c)'

\* Their invariants hold on, then, and their parts of the other calls are left alone.
LEMMA DrivenInv ==
    ASSUME CallIInv, AgentsIInv, NEW c \in Calls, Driven(c)
    PROVE  /\ CallIInv' /\ AgentsIInv'
           /\ \A d \in Calls : d # c => /\ Kept(d) /\ Untouched(d) /\ SameAgent(d)
                                        /\ idAttempts'[d] = idAttempts[d]
BY CallFrame, AgentFrame DEF Driven

\* A step of one call keeps the invariant of all.
LEMMA SteppedInv ==
    ASSUME TelephonyIInv, NEW c \in Calls, Stepped(c)
    PROVE  TelephonyIInv'
<1>1. /\ CallIInv /\ AgentsIInv /\ Driven(c) /\ LineWritten(c) /\ SessionWritten(c) /\ TelephonyInv(c)'
      /\ \A d \in Calls : TelephonyInv(d)
  BY DEF TelephonyIInv, Stepped
<1>2. /\ CallIInv' /\ AgentsIInv'
      /\ \A d \in Calls : d # c => /\ Kept(d) /\ Untouched(d) /\ SameAgent(d)
                                   /\ idAttempts'[d] = idAttempts[d]
  BY <1>1, DrivenInv
<1>3. ASSUME NEW d \in Calls, d # c PROVE TelephonyInv(d)'
  <2>1. SameLine(d) /\ SameSession(d)
    BY <1>1, <1>3 DEF LineWritten, SessionWritten
  <2> QED BY <1>1, <1>2, <1>3, <2>1, SameCallInv
<1> QED BY <1>1, <1>2, <1>3 DEF TelephonyIInv, LineWritten, SessionWritten

-----------------------------------------------------------------------------
(***************************************************************************)
(* The three ways a handler leaves a session: ended, with a question for   *)
(* the caller, or with a reply of the coordinator to render.               *)
(***************************************************************************)
\* A handler that ends the session leaves a call about which little has to hold.
LEMMA EndedInv ==
    ASSUME NEW c \in Calls, TelephonyInv(c), Follows(c)', Named(c)', HandlerInv(c)',
           ~live'[c], handling'[c] = "nothing", depth'[c] = depth[c]
    PROVE  TelephonyInv(c)'
<1>1. DepthInv(c)
  BY DEF TelephonyInv
<1>2. WaitInv(c)' /\ ServingInv(c)' /\ PairInv(c)' /\ AskedInv(c)' /\ OrphanInv(c)'
  BY DEF WaitInv, ServingInv, PairInv, AskedInv, OrphanInv
<1>3. CoordinatorInv(c)' /\ DepthInv(c)'
  BY <1>1 DEF CoordinatorInv, DepthInv
<1> QED BY <1>2, <1>3 DEF TelephonyInv

\* Nothing has been granted or filed, and the caller is listened to for what the
\* session expects, or has gone.
LEMMA QuestionInv ==
    ASSUME NEW c \in Calls, TelephonyInv(c), Follows(c)', Named(c)', live[c], live'[c],
           handling'[c] = "nothing", depth'[c] = depth[c], caller'[c] = caller[c],
           "gather" \notin inflight'[c],
           "status" \in inflight'[c] <=> "status" \in inflight[c],
           \/ line'[c] = "listening" /\ asked'[c] = Expected(c)'
           \/ line[c] = "over" /\ line'[c] = "over",
           grants'[c] = grants[c], requests'[c] = requests[c],
           WaitInv(c)', ServingInv(c)', PairInv(c)'
    PROVE  TelephonyInv(c)'
<1>1. HandlerInv(c) /\ DepthInv(c) /\ OrphanInv(c)
  BY DEF TelephonyInv
<1>2. HandlerInv(c)' /\ CoordinatorInv(c)' /\ DepthInv(c)'
  BY <1>1 DEF HandlerInv, CoordinatorInv, DepthInv
<1>3. AskedInv(c)'
  BY DEF AskedInv
<1>4. OrphanInv(c)'
  BY <1>1 DEF OrphanInv
<1> QED BY <1>2, <1>3, <1>4 DEF TelephonyInv

\* The session is as it was, but for the account digits that were used up; if the
\* reply asks to repeat, the flow too is where it was.
LEMMA ToCoordinatorInv ==
    ASSUME NEW c \in Calls, TelephonyInv(c), Follows(c)', Named(c)',
           live[c], ~activeAgent[c], idStep[c] \in {"account", "card"},
           handling[c] = "nothing", "gather" \in inflight[c],
           handling'[c] = "coordinator", depth'[c] = 0,
           UNCHANGED <<live, line, asked, inflight, caller, pendingStatus, activeAgent, heardAt, agentVars>>,
           reply'[c].status = "NEEDS_REPEAT" =>
               /\ pendingStatus[c] \in FactorStatuses
               /\ stage'[c] = stage[c] /\ idAttempts'[c] = idAttempts[c] /\ idStep'[c] = idStep[c],
           idStep'[c] = "card" => idStep[c] = "card" /\ reply'[c].status = "NEEDS_REPEAT",
           pendingStatus[c] = "NEEDS_INTENT" => grants'[c] \in {grants[c], {}}
    PROVE  TelephonyInv(c)'
<1>1. /\ HandlerInv(c) /\ WaitInv(c) /\ PairInv(c) /\ AskedInv(c) /\ OrphanInv(c)
      /\ UNCHANGED <<agent, agentReply, requests>>
  BY DEF TelephonyInv, agentVars
<1>2. HandlerInv(c)' /\ DepthInv(c)'
  BY <1>1 DEF HandlerInv, DepthInv
<1>3. WaitInv(c)' /\ ServingInv(c)'
  BY DEF WaitInv, ServingInv
<1>4. CoordinatorInv(c)'
  <2>1. agent[c].stage = "DONE" /\ agentReply[c].status # "ESCALATE"
    BY <1>1 DEF WaitInv
  <2>2. pendingStatus[c] \in FactorStatuses => Fits(c)
    BY <1>1 DEF WaitInv, FactorStatuses
  <2> QED BY <1>1, <2>1, <2>2 DEF CoordinatorInv, Fits
<1>5. PairInv(c)'
  BY <1>1 DEF PairInv
<1>6. AskedInv(c)'
  <2> SUFFICES ASSUME reply'[c].status = "NEEDS_REPEAT",
                      line[c] = "listening" \/ "gather" \in inflight[c]
               PROVE  Expected(c)' = asked'[c]
    BY DEF AskedInv
  <2>1. Expected(c) = asked[c] \/ Expected(c) = "NEEDS_INTENT"
    BY <1>1 DEF AskedInv
  <2>2. Expected(c) # "NEEDS_INTENT"
    BY DEF Expected, FactorStatuses
  <2>3. Expected(c)' = Expected(c)
    BY DEF Expected
  <2> QED BY <2>1, <2>2, <2>3
<1>7. OrphanInv(c)'
  BY <1>1 DEF OrphanInv, FactorStatuses
<1> QED BY <1>2, <1>3, <1>4, <1>5, <1>6, <1>7 DEF TelephonyInv

-----------------------------------------------------------------------------
(***************************************************************************)
(* Each step of the composition. First Twilio's.                           *)
(***************************************************************************)
\* Everything on the server's side of call c is as it was.
ServerSame(c) ==
    UNCHANGED <<callVars, agentVars, sessionVars, live, handlerVars, asked>>

\* What the invariant says of the server does not depend on the line.
LEMMA ServerSameInv ==
    ASSUME NEW c \in Calls, TelephonyInv(c), ServerSame(c), HandlerInv(c)', AskedInv(c)', OrphanInv(c)'
    PROVE  TelephonyInv(c)'
<1>1. /\ UNCHANGED <<callVars, agent, agentReply, live, pendingStatus, activeAgent, idStep, heardAt, handling, depth>>
      /\ UNCHANGED <<activeAuth, reply, grants, stage, status, idAttempts>>
  BY DEF ServerSame, callVars, agentVars, sessionVars, handlerVars, vars, flowVars, answer, retries,
         coordinatorVars, session
<1>2. Follows(c)' /\ Named(c)'
  BY <1>1 DEF TelephonyInv, Follows, Named
<1>3. WaitInv(c)' /\ CoordinatorInv(c)'
  BY <1>1 DEF TelephonyInv, WaitInv, CoordinatorInv, Fits
<1>4. ServingInv(c)' /\ PairInv(c)' /\ DepthInv(c)'
  BY <1>1 DEF TelephonyInv, ServingInv, PairInv, DepthInv
<1> QED BY <1>2, <1>3, <1>4 DEF TelephonyInv

\* Twilio dials, posts again, posts an answer or ends the call, and the server
\* notices nothing yet.
LEMMA TwilioStepped ==
    ASSUME TelephonyIInv, NEW c \in Calls, Dial(c) \/ PostAgain(c) \/ Post(c) \/ CallEnds(c)
    PROVE  Stepped(c)
<1>1. /\ LineTypeOK /\ SessionTypeOK /\ TelephonyInv(c)
      /\ HandlerInv(c) /\ AskedInv(c) /\ OrphanInv(c)
  BY DEF TelephonyIInv, TelephonyInv
<1>2. ServerSame(c)
  BY DEF Dial, PostAgain, Post, CallEnds, ServerSame, serverVars
<1>3. Driven(c)
  BY <1>2 DEF ServerSame, Driven
<1>4. SessionWritten(c)
  BY <1>1, <1>2, SessionsStay DEF ServerSame, SessionWritten
<1>5. \E l \in Lines, w \in Webhooks :
         /\ line' = [line EXCEPT ![c] = l] /\ inflight' = [inflight EXCEPT ![c] = inflight[c] \cup {w}]
  BY DEF Dial, PostAgain, Post, CallEnds, Posts, Lines, Webhooks, Incomings
<1>6. UNCHANGED caller \/ \E a \in Reachable \cup {NoCif} : caller' = [caller EXCEPT ![c] = a]
  BY DEF Dial, PostAgain, Post, CallEnds
<1>7. /\ line' \in [Calls -> Lines] /\ inflight' \in [Calls -> SUBSET Webhooks]
      /\ \A d \in Calls : d # c => line'[d] = line[d] /\ inflight'[d] = inflight[d]
  <2>1. \A w \in Webhooks : inflight[c] \cup {w} \in SUBSET Webhooks
    BY <1>1 DEF LineTypeOK
  <2> QED BY <1>1, <1>5, <2>1 DEF LineTypeOK
<1>8. /\ caller' \in [Calls -> Customers \cup {NoCif}]
      /\ \A d \in Calls : d # c => caller'[d] = caller[d]
      /\ caller'[c] \in Reachable \cup {NoCif}
  BY <1>1, <1>6 DEF LineTypeOK, HandlerInv, Reachable
<1>9. UNCHANGED <<asked, handling, depth>>
  BY <1>2 DEF ServerSame, handlerVars
<1>10. LineWritten(c)
  BY <1>1, <1>7, <1>8, <1>9 DEF LineWritten, LineTypeOK, SameLine
<1>11. HandlerInv(c)' /\ AskedInv(c)' /\ OrphanInv(c)'
  <2>1. UNCHANGED <<live, handling, reply, capture, activeAgent, agent, pendingStatus, idStep, asked, grants, requests>>
    BY <1>2 DEF ServerSame, callVars, coordinatorVars, session, agentVars, sessionVars, handlerVars
  <2>2. CASE Dial(c) \/ PostAgain(c)
    <3>1. \E l \in Incomings : line' = [line EXCEPT ![c] = l] /\ inflight' = [inflight EXCEPT ![c] = @ \cup {l}]
      BY <2>2 DEF Dial, PostAgain, Posts, Incomings
    <3>2. line'[c] \in Incomings /\ "gather" \notin inflight'[c]
      <4>1. "gather" \notin inflight[c]
        BY <1>1, <2>2 DEF Dial, PostAgain, HandlerInv
      <4> QED BY <1>1, <3>1, <4>1 DEF Incomings, LineTypeOK
    <3>3. "gather" \notin inflight[c]
      BY <1>1, <2>2 DEF Dial, PostAgain, HandlerInv
    <3> QED BY <1>1, <1>8, <2>1, <3>2, <3>3 DEF HandlerInv, AskedInv, OrphanInv, Incomings
  <2>3. CASE Post(c)
    <3>1. /\ line[c] = "listening" /\ line'[c] = "gather"
          /\ inflight'[c] = inflight[c] \cup {"gather"}
      BY <1>1, <2>3 DEF Post, Posts, LineTypeOK
    <3> QED BY <1>1, <1>8, <2>1, <3>1 DEF HandlerInv, AskedInv, OrphanInv, Expected
  <2>4. CASE CallEnds(c)
    <3>1. line'[c] = "over" /\ inflight'[c] = inflight[c] \cup {"status"}
      BY <1>1, <2>4 DEF CallEnds, Posts, LineTypeOK
    <3> QED BY <1>1, <1>8, <2>1, <3>1 DEF HandlerInv, AskedInv, OrphanInv, Expected
  <2> QED BY <2>2, <2>3, <2>4
<1>12. TelephonyInv(c)'
  BY <1>1, <1>2, <1>11, ServerSameInv
<1> QED BY <1>3, <1>4, <1>10, <1>12 DEF Stepped

\* A code runs out on the quiet.
LEMMA ExpireStepped ==
    ASSUME TelephonyIInv, NEW c \in Calls, Expire(c),
           UNCHANGED <<bankVars, flowVars, coordinatorVars, agentVars,
                       sessionVars, live, lineVars, inflight, caller, handlerVars>>
    PROVE  Stepped(c)
<1>1. /\ LineTypeOK /\ SessionTypeOK /\ TelephonyInv(c)
  BY DEF TelephonyIInv
<1>2. Driven(c)
  BY DEF Driven, CallStep
<1>3. LineWritten(c) /\ SameLine(c)
  BY <1>1, LinesStay DEF LineWritten
<1>4. SessionWritten(c) /\ SameSession(c)
  BY <1>1, SessionsStay DEF SessionWritten
<1>5. Kept(c) /\ Untouched(c) /\ SameAgent(c) /\ idAttempts'[c] = idAttempts[c]
  BY DEF Expire, Kept, Untouched, SameAgent, coordinatorVars, session, flowVars, answer, retries, agentVars
<1>6. TelephonyInv(c)'
  BY <1>1, <1>3, <1>4, <1>5, SameCallInv
<1> QED BY <1>2, <1>3, <1>4, <1>6 DEF Stepped

-----------------------------------------------------------------------------
(***************************************************************************)
(* The incoming webhook and the status callback.                           *)
(***************************************************************************)
\* A new session, at the greeting, wherever the one before was.
LEMMA IncomingStepped ==
    ASSUME TelephonyIInv, NEW c \in Calls, Incoming(c)
    PROVE  Stepped(c)
<1>1. /\ CoordinatorTypeOK /\ AgentsTypeOK /\ LineTypeOK /\ SessionTypeOK
      /\ HandlerInv(c) /\ DepthInv(c)
  BY DEF TelephonyIInv, TelephonyInv, CallIInv, AgentsIInv
<1>2. StartCall(c, caller[c]) /\ NewRegistry(c) /\ handling[c] = "nothing"
  BY DEF Incoming, Quiet
<1>3. PICK w \in Incomings \cap inflight[c] :
         /\ inflight' = [inflight EXCEPT ![c] = inflight[c] \ {w}]
         /\ GatherResponse(c, w, "NEEDS_INTENT")
  BY DEF Incoming
<1>4. Driven(c)
  BY <1>1, <1>2 DEF HandlerInv, Driven, CallStep, AgentStep
<1>5. UNCHANGED <<handling, depth, caller>>
  BY DEF Incoming, handlerVars
<1>6. /\ inflight' \in [Calls -> SUBSET Webhooks] /\ inflight'[c] = inflight[c] \ {w}
      /\ \A d \in Calls : d # c => inflight'[d] = inflight[d]
  <2>1. inflight[c] \ {w} \in SUBSET Webhooks
    BY <1>1 DEF LineTypeOK
  <2> QED BY <1>1, <1>3, <2>1 DEF LineTypeOK
<1>7. /\ line' \in [Calls -> Lines] /\ asked' \in [Calls -> Questions]
      /\ \A d \in Calls : d # c => line'[d] = line[d] /\ asked'[d] = asked[d]
      /\ \/ line[c] = w /\ line'[c] = "listening" /\ asked'[c] = "NEEDS_INTENT"
         \/ line'[c] = line[c]
  <2>1. "listening" \in Lines /\ "NEEDS_INTENT" \in Questions
    BY DEF Lines, Questions
  <2>2. CASE line[c] = w
    BY <1>1, <1>3, <2>1, <2>2 DEF GatherResponse, LineTypeOK
  <2>3. CASE line[c] # w
    BY <1>1, <1>3, <2>3 DEF GatherResponse, LineTypeOK, lineVars
  <2> QED BY <2>2, <2>3
<1>8. LineWritten(c)
  BY <1>1, <1>5, <1>6, <1>7 DEF LineWritten, LineTypeOK, SameLine
<1>9. /\ live' = [live EXCEPT ![c] = TRUE]
      /\ pendingStatus' = [pendingStatus EXCEPT ![c] = "NEEDS_INTENT"]
      /\ activeAgent' = [activeAgent EXCEPT ![c] = FALSE]
      /\ idStep' = [idStep EXCEPT ![c] = "account"]
      /\ pendingAccount' = [pendingAccount EXCEPT ![c] = NoCif]
      /\ heardAt' = [heardAt EXCEPT ![c] = 0]
  BY DEF Incoming
<1>10. SessionWritten(c)
  <2>1. "NEEDS_INTENT" \in Pending /\ 0 \in Nat
    BY DEF Pending
  <2> QED BY <1>1, <1>9, <2>1, SessionSet
<1>11. live'[c] /\ ~activeAgent'[c]
  BY <1>1, <1>9, Zenon DEF SessionTypeOK
<1>12. pendingStatus'[c] = "NEEDS_INTENT" /\ idStep'[c] = "account"
  BY <1>1, <1>9 DEF SessionTypeOK
<1>13. /\ reply'[c].status = "NEEDS_INTENT" /\ capture'[c] = Greeting
       /\ ~activeAuth'[c] /\ grants'[c] = {}
  <2> DEFINE a == caller[c]
  <2>1. StartCall(c, a)
    BY <1>2
  <2> HIDE DEF a
  <2> QED BY <1>1, <2>1, StartCallSays
<1>14. /\ agent'[c].stage = "DONE" /\ agentReply'[c].status = "NONE"
       /\ requests'[c] = <<>>
  BY <1>1, <1>2, RegistrySays
<1>15. TelephonyInv(c)'
  <2>1. Follows(c)' /\ Named(c)'
    BY <1>13 DEF Follows, Named
  <2>2. HandlerInv(c)'
    BY <1>1, <1>2, <1>5, <1>6, <1>7 DEF HandlerInv, Incomings
  <2>3. WaitInv(c)' /\ CoordinatorInv(c)' /\ ServingInv(c)' /\ PairInv(c)'
    BY <1>2, <1>5, <1>11, <1>12, <1>13, <1>14 DEF WaitInv, CoordinatorInv, ServingInv, PairInv
  <2>4. AskedInv(c)'
    BY <1>11, <1>12, <1>13 DEF AskedInv, Expected
  <2>5. DepthInv(c)' /\ OrphanInv(c)'
    BY <1>1, <1>2, <1>5, <1>12, <1>13, <1>14 DEF DepthInv, OrphanInv
  <2> QED BY <2>1, <2>2, <2>3, <2>4, <2>5 DEF TelephonyInv
<1> QED BY <1>4, <1>8, <1>10, <1>15 DEF Stepped

\* The session is dropped, whatever is still on its way.
LEMMA StatusStepped ==
    ASSUME TelephonyIInv, NEW c \in Calls, StatusCallback(c)
    PROVE  Stepped(c)
<1>1. LineTypeOK /\ SessionTypeOK /\ TelephonyInv(c)
  BY DEF TelephonyIInv
<1>2. /\ handling[c] = "nothing" /\ live' = [live EXCEPT ![c] = FALSE]
      /\ inflight' = [inflight EXCEPT ![c] = inflight[c] \ {"status"}]
      /\ UNCHANGED <<callVars, agentVars, sessionVars, line, asked, caller, handling, depth>>
  BY DEF StatusCallback, Quiet, lineVars, handlerVars
<1>3. Driven(c)
  BY <1>2 DEF Driven
<1>4. /\ inflight' \in [Calls -> SUBSET Webhooks] /\ inflight'[c] = inflight[c] \ {"status"}
      /\ \A d \in Calls : d # c => inflight'[d] = inflight[d]
  <2>1. inflight[c] \ {"status"} \in SUBSET Webhooks
    BY <1>1 DEF LineTypeOK
  <2> QED BY <1>1, <1>2, <2>1 DEF LineTypeOK
<1>5. LineWritten(c)
  BY <1>1, <1>2, <1>4 DEF LineWritten, LineTypeOK, SameLine
<1>6. SessionWritten(c)
  BY <1>1, <1>2, SessionSet DEF sessionVars
<1>7. ~live'[c]
  BY <1>1, <1>2, Zenon DEF SessionTypeOK
<1>8. Follows(c)' /\ Named(c)'
  BY <1>1, <1>2 DEF TelephonyInv, Follows, Named, callVars, vars, flowVars, answer, coordinatorVars, session
<1>9. HandlerInv(c)'
  BY <1>1, <1>2, <1>4 DEF TelephonyInv, HandlerInv
<1>10. TelephonyInv(c)'
  BY <1>1, <1>2, <1>7, <1>8, <1>9, EndedInv
<1> QED BY <1>3, <1>5, <1>6, <1>10 DEF Stepped

-----------------------------------------------------------------------------
(***************************************************************************)
(* The gather webhook.                                                     *)
(***************************************************************************)
\* The session is gone.
LEMMA TooLateStepped ==
    ASSUME TelephonyIInv, NEW c \in Calls, GatherTooLate(c), Quiet
    PROVE  Stepped(c)
<1>1. LineTypeOK /\ SessionTypeOK /\ TelephonyInv(c)
  BY DEF TelephonyIInv
<1>2. /\ HangUp(c) /\ ~live[c]
      /\ UNCHANGED <<callVars, agentVars, sessionVars, live>>
  BY DEF GatherTooLate
<1>3. Driven(c)
  BY <1>2 DEF Driven
<1>4. /\ LineWritten(c)
      /\ handling'[c] = "nothing" /\ depth'[c] = depth[c] /\ caller'[c] = caller[c]
      /\ "gather" \notin inflight'[c]
  BY <1>1, <1>2, HungUp
<1>5. SessionWritten(c)
  BY <1>1, <1>2, SessionsStay DEF SessionWritten
<1>6. Follows(c)' /\ Named(c)'
  BY <1>1, <1>2 DEF TelephonyInv, Follows, Named, callVars, vars, flowVars, answer, coordinatorVars, session
<1>7. HandlerInv(c)'
  BY <1>1, <1>4 DEF TelephonyInv, HandlerInv
<1>8. TelephonyInv(c)'
  BY <1>1, <1>2, <1>4, <1>6, <1>7, EndedInv
<1> QED BY <1>3, <1>4, <1>5, <1>8 DEF Stepped

\* The agent that asked gets the answer.
LEMMA ForAgentStepped ==
    ASSUME TelephonyIInv, NEW c \in Calls, GatherForAgent(c), Quiet, "gather" \in inflight[c]
    PROVE  Stepped(c)
<1>1. /\ LineTypeOK /\ SessionTypeOK /\ TelephonyInv(c) /\ AgentsTypeOK
      /\ CallIInv /\ SessionInv(c) /\ handling[c] = "nothing"
  BY DEF TelephonyIInv, CallIInv, AgentsIInv, Quiet
<1>2. /\ live[c] /\ activeAgent[c] /\ Answered(c) /\ DispatchTo(c, "agent")
      /\ UNCHANGED <<callVars, sessionVars>>
  BY DEF GatherForAgent
<1>3. Driven(c)
  BY <1>2 DEF Driven, AgentStep
<1>4. /\ LineWritten(c)
      /\ handling'[c] = "agent" /\ depth'[c] = 0
      /\ UNCHANGED <<live, line, asked, inflight, caller>>
  BY <1>1, <1>2, Dispatched
<1>5. SessionWritten(c)
  BY <1>1, <1>2, <1>4, SessionsStay DEF SessionWritten
<1>6. /\ agent'[c].intent = agent[c].intent /\ agent'[c].cif = agent[c].cif
      /\ agentReply'[c].status = "NEED_HANDOFF" =>
            agentReply'[c].intent \in Intents \ {agent[c].intent}
  BY <1>1, <1>2, AnswerSays
<1>7. /\ UNCHANGED <<activeAuth, reply, grants, status, stage>>
      /\ UNCHANGED <<pendingStatus, activeAgent, idStep>>
  BY <1>2 DEF callVars, vars, flowVars, answer, coordinatorVars, session, sessionVars
<1>8. /\ reply[c].status = "READY_FOR_HANDOFF" /\ grants[c] # {}
      /\ agent[c].intent = reply[c].intent /\ agent[c].cif = reply[c].cif
  BY <1>1, <1>2 DEF TelephonyInv, ServingInv, SessionInv, GrantInv
<1>9. TelephonyInv(c)'
  <2>1. Follows(c)' /\ Named(c)'
    BY <1>1, <1>7 DEF TelephonyInv, Follows, Named
  <2>2. HandlerInv(c)'
    BY <1>1, <1>2, <1>4 DEF TelephonyInv, HandlerInv
  <2>3. WaitInv(c)' /\ CoordinatorInv(c)' /\ AskedInv(c)' /\ DepthInv(c)'
    BY <1>4 DEF WaitInv, CoordinatorInv, AskedInv, DepthInv
  <2>4. ServingInv(c)'
    BY <1>6, <1>7, <1>8 DEF ServingInv
  <2>5. PairInv(c)'
    BY <1>1, <1>2, <1>7 DEF TelephonyInv, PairInv
  <2>6. OrphanInv(c)'
    BY <1>1, <1>2, <1>4, <1>8 DEF TelephonyInv, OrphanInv
  <2> QED BY <2>1, <2>2, <2>3, <2>4, <2>5, <2>6 DEF TelephonyInv
<1> QED BY <1>3, <1>4, <1>5, <1>9 DEF Stepped

\* The coordinator that waits for an utterance gets one.
LEMMA IntentStepped ==
    ASSUME TelephonyIInv, NEW c \in Calls, live[c], ~activeAgent[c], GatherIntent(c),
           Quiet, "gather" \in inflight[c]
    PROVE  Stepped(c)
<1>1. /\ LineTypeOK /\ SessionTypeOK /\ TelephonyInv(c)
      /\ CallIInv /\ AgentsIInv /\ handling[c] = "nothing"
  BY DEF TelephonyIInv, Quiet
<1>2. /\ pendingStatus[c] = "NEEDS_INTENT" /\ \E u \in Utterances : SubmitUtterance(c, u)
      /\ DispatchTo(c, "coordinator")
      /\ UNCHANGED <<agentVars, pendingStatus, activeAgent, idStep, pendingAccount, heardAt>>
  BY DEF GatherIntent, ToCoordinator
<1>3. Speak(c)
  BY <1>1, <1>2 DEF TelephonyInv, WaitInv, Fits, FactorStatuses, Speak
<1>4. Driven(c)
  BY <1>2, <1>3 DEF Driven, CallStep
<1>5. CallIInv'
  BY <1>1, <1>4, DrivenInv
<1>6. /\ Follows(c)' /\ Named(c)'
      /\ reply'[c].status # "NEEDS_REPEAT" /\ grants'[c] \in {grants[c], {}}
  BY <1>1, <1>3, <1>5, SpeechReplies, ServedAssumption DEF TelephonyInv
<1>7. /\ LineWritten(c)
      /\ handling'[c] = "coordinator" /\ depth'[c] = 0
      /\ UNCHANGED <<live, line, asked, inflight, caller>>
  BY <1>1, <1>2, Dispatched
<1>8. SessionWritten(c)
  BY <1>1, <1>2, <1>7, SessionsStay DEF SessionWritten, sessionVars
<1>9. idStep[c] = "account" /\ idStep'[c] = "account"
  BY <1>1, <1>2 DEF TelephonyInv, PairInv, SessionTypeOK
<1>10. TelephonyInv(c)'
  BY <1>1, <1>2, <1>6, <1>7, <1>9, ToCoordinatorInv
<1> QED BY <1>4, <1>7, <1>8, <1>10 DEF Stepped

\* The flow that waits for a factor gets one, or what was not heard of one; the
\* account digits are kept until they are used.
LEMMA FactorStepped ==
    ASSUME TelephonyIInv, NEW c \in Calls, live[c], ~activeAgent[c],
           Quiet, "gather" \in inflight[c],
           pendingStatus[c] \in FactorStatuses,
           SubmitFactor(c), ToCoordinator(c), UNCHANGED heardAt, SessionWritten(c),
           reply'[c].status = "NEEDS_REPEAT" => idStep'[c] = idStep[c],
           idStep'[c] = "card" => idStep[c] = "card" /\ reply'[c].status = "NEEDS_REPEAT"
    PROVE  Stepped(c)
<1>1. /\ LineTypeOK /\ SessionTypeOK /\ TelephonyInv(c)
      /\ CallIInv /\ AgentsIInv /\ handling[c] = "nothing"
  BY DEF TelephonyIInv, Quiet
<1>2. /\ DispatchTo(c, "coordinator")
      /\ UNCHANGED <<agentVars, pendingStatus, activeAgent>>
  BY DEF ToCoordinator
<1>3. Driven(c)
  BY <1>2 DEF Driven, CallStep
<1>4. CallIInv'
  BY <1>1, <1>3, DrivenInv
<1>5. /\ Follows(c)' /\ Named(c)'
      /\ reply'[c].status = "NEEDS_REPEAT" =>
            stage'[c] = stage[c] /\ idAttempts'[c] = idAttempts[c]
  BY <1>1, <1>4, FactorReplies DEF TelephonyInv
<1>6. /\ LineWritten(c)
      /\ handling'[c] = "coordinator" /\ depth'[c] = 0
      /\ UNCHANGED <<live, line, asked, inflight, caller>>
  BY <1>1, <1>2, Dispatched
<1>7. idStep[c] \in {"account", "card"} /\ pendingStatus[c] # "NEEDS_INTENT"
  BY <1>1 DEF SessionTypeOK, FactorStatuses
<1>8. TelephonyInv(c)'
  BY <1>1, <1>2, <1>5, <1>6, <1>7, ToCoordinatorInv
<1> QED BY <1>3, <1>6, <1>8 DEF Stepped

\* An MPIN or a code.
LEMMA SecretStepped ==
    ASSUME TelephonyIInv, NEW c \in Calls, live[c], ~activeAgent[c], GatherMpin(c) \/ GatherOtp(c),
           Quiet, "gather" \in inflight[c]
    PROVE  Stepped(c)
<1>1. SessionTypeOK /\ PairInv(c)
  BY DEF TelephonyIInv, TelephonyInv
<1>2. /\ pendingStatus[c] \in {"NEEDS_MPIN", "NEEDS_OTP"}
      /\ SubmitFactor(c) /\ ToCoordinator(c) /\ UNCHANGED <<idStep, pendingAccount, heardAt>>
  BY DEF GatherMpin, GatherOtp, SubmitFactor, Turn
<1>3. pendingStatus[c] \in FactorStatuses
  BY <1>2 DEF FactorStatuses
<1>4. SessionWritten(c)
  BY <1>1, <1>2, SessionsStay DEF SessionWritten, ToCoordinator, DispatchTo, sessionVars
<1>5. idStep'[c] = idStep[c] /\ idStep[c] = "account"
  BY <1>1, <1>2 DEF PairInv, SessionTypeOK
<1> QED BY <1>2, <1>3, <1>4, <1>5, FactorStepped

\* The card digits that complete an identification.
LEMMA CardStepped ==
    ASSUME TelephonyIInv, NEW c \in Calls, live[c], ~activeAgent[c], GatherCard(c),
           Quiet, "gather" \in inflight[c]
    PROVE  Stepped(c)
<1>1. SessionTypeOK
  BY DEF TelephonyIInv
<1>2. /\ pendingStatus[c] \in FactorStatuses /\ idStep[c] = "card"
      /\ ToCoordinator(c) /\ UNCHANGED heardAt
  BY DEF GatherCard, FactorStatuses
<1>3. SubmitFactor(c)
  <2>1. \A k \in Customers \cup {NoCif} :
           (IF k = pendingAccount[c] THEN k ELSE NoCif) \in Customers \cup {NoCif}
    OBVIOUS
  <2> QED BY <2>1 DEF GatherCard, SubmitFactor, Turn
<1>4. \/ reply'[c].status # "NEEDS_REPEAT" /\ idStep' = [idStep EXCEPT ![c] = "account"]
      \/ reply'[c].status = "NEEDS_REPEAT" /\ UNCHANGED idStep
  BY DEF GatherCard
<1>5. pendingAccount' = [pendingAccount EXCEPT ![c] = NoCif] \/ UNCHANGED pendingAccount
  BY DEF GatherCard
<1>6. SessionWritten(c)
  <2>1. UNCHANGED <<live, activeAgent, pendingStatus, heardAt>>
    BY <1>2 DEF ToCoordinator, DispatchTo
  <2> QED BY <1>1, <1>4, <1>5, <2>1, SessionSet
<1>7. /\ reply'[c].status = "NEEDS_REPEAT" => idStep'[c] = idStep[c]
      /\ idStep'[c] = "card" => idStep[c] = "card" /\ reply'[c].status = "NEEDS_REPEAT"
  BY <1>1, <1>2, <1>4 DEF SessionTypeOK
<1> QED BY <1>2, <1>3, <1>6, <1>7, FactorStepped

\* The account digits, kept or asked for again.
LEMMA AccountStepped ==
    ASSUME TelephonyIInv, NEW c \in Calls, live[c], ~activeAgent[c], GatherAccount(c),
           Quiet, "gather" \in inflight[c]
    PROVE  Stepped(c)
<1>1. /\ LineTypeOK /\ SessionTypeOK /\ TelephonyInv(c) /\ HandlerInv(c) /\ WaitInv(c) /\ PairInv(c)
      /\ handling[c] = "nothing" /\ TypeOK
  BY DEF TelephonyIInv, TelephonyInv, Quiet, CallIInv, IInv
<1>2. /\ pendingStatus[c] = "NEEDS_IDENTIFICATION" /\ idStep[c] = "account"
      /\ UNCHANGED <<callVars, agentVars, live, pendingStatus, activeAgent>>
  BY DEF GatherAccount
<1>3. \/ /\ AskCaller(c, "account")
         /\ UNCHANGED <<idStep, pendingAccount, heardAt>>
      \/ /\ AskCaller(c, "card")
         /\ idStep' = [idStep EXCEPT ![c] = "card"]
         /\ \E k \in Customers \cup {NoCif} : pendingAccount' = [pendingAccount EXCEPT ![c] = k]
         /\ heardAt' = [heardAt EXCEPT ![c] = idAttempts[c]]
  BY DEF GatherAccount
<1>4. Driven(c)
  BY <1>2 DEF Driven
<1>5. idAttempts[c] \in Nat /\ UNCHANGED idAttempts
  BY <1>1, <1>2 DEF TypeOK, RetriesTypeOK, callVars, vars, flowVars, retries
<1>6. SessionWritten(c)
  BY <1>1, <1>2, <1>3, <1>5, SessionSet
<1>7. PICK q \in {"account", "card"} : AskCaller(c, q) /\ idStep'[c] = q /\ (q = "card" => heardAt'[c] = idAttempts[c])
  <2>1. CASE AskCaller(c, "account") /\ UNCHANGED idStep
    BY <1>2, <2>1
  <2>2. CASE /\ AskCaller(c, "card")
             /\ idStep' = [idStep EXCEPT ![c] = "card"]
             /\ heardAt' = [heardAt EXCEPT ![c] = idAttempts[c]]
    BY <1>1, <2>2 DEF SessionTypeOK
  <2> QED BY <1>3, <2>1, <2>2
<1>8. /\ LineWritten(c)
      /\ handling'[c] = "nothing" /\ depth'[c] = depth[c] /\ caller'[c] = caller[c]
      /\ "gather" \notin inflight'[c]
      /\ "status" \in inflight'[c] <=> "status" \in inflight[c]
      /\ \/ line'[c] = "listening" /\ asked'[c] = q
         \/ line[c] = "over" /\ line'[c] = "over"
  <2>1. q \in Questions
    BY DEF Questions
  <2> QED BY <1>1, <1>7, <2>1, CallerAsked
<1>9. UNCHANGED <<activeAuth, reply, grants, status, stage, agent, agentReply, requests>>
  BY <1>2 DEF callVars, vars, flowVars, answer, coordinatorVars, session, agentVars
<1>10. Follows(c)' /\ Named(c)'
  BY <1>1, <1>9 DEF TelephonyInv, Follows, Named
<1>11. WaitInv(c)' /\ ServingInv(c)' /\ PairInv(c)'
  BY <1>1, <1>2, <1>5, <1>7, <1>8, <1>9 DEF WaitInv, Fits, ServingInv, PairInv
<1>12. Expected(c)' = q
  BY <1>2, <1>7 DEF Expected
<1>13. TelephonyInv(c)'
  BY <1>1, <1>2, <1>8, <1>9, <1>10, <1>11, <1>12, QuestionInv
<1> QED BY <1>4, <1>6, <1>8, <1>13 DEF Stepped

\* So whatever is posted is answered within the invariant.
LEMMA GatherStepped ==
    ASSUME TelephonyIInv, NEW c \in Calls, Gather(c)
    PROVE  Stepped(c)
BY TooLateStepped, ForAgentStepped, IntentStepped, SecretStepped, AccountStepped, CardStepped DEF Gather

-----------------------------------------------------------------------------
(***************************************************************************)
(* Rendering.                                                              *)
(***************************************************************************)
\* The session and the request end together.
LEMMA EndStepped ==
    ASSUME TelephonyIInv, NEW c \in Calls, EndSession(c), UNCHANGED <<callVars, agentVars>>,
           SessionWritten(c)
    PROVE  Stepped(c)
<1>1. LineTypeOK /\ SessionTypeOK /\ TelephonyInv(c)
  BY DEF TelephonyIInv
<1>2. HangUp(c) /\ live' = [live EXCEPT ![c] = FALSE]
  BY DEF EndSession
<1>3. Driven(c)
  BY DEF Driven
<1>4. /\ LineWritten(c)
      /\ handling'[c] = "nothing" /\ depth'[c] = depth[c] /\ caller'[c] = caller[c]
      /\ "gather" \notin inflight'[c]
  BY <1>1, <1>2, HungUp
<1>5. ~live'[c]
  BY <1>1, <1>2, Zenon DEF SessionTypeOK
<1>6. Follows(c)' /\ Named(c)'
  BY <1>1 DEF TelephonyInv, Follows, Named, callVars, vars, flowVars, answer, coordinatorVars, session
<1>7. HandlerInv(c)'
  BY <1>1, <1>4 DEF TelephonyInv, HandlerInv
<1>8. TelephonyInv(c)'
  BY <1>1, <1>4, <1>5, <1>6, <1>7, EndedInv
<1> QED BY <1>3, <1>4, <1>8 DEF Stepped

\* A handoff: to a fresh agent, for the customer and the intent of a grant.
LEMMA HandoffStepped ==
    ASSUME TelephonyIInv, NEW c \in Calls, handling[c] = "coordinator", RenderHandoff(c)
    PROVE  Stepped(c)
<1>1. /\ LineTypeOK /\ SessionTypeOK /\ TelephonyInv(c) /\ AgentsTypeOK
      /\ CallIInv /\ SessionInv(c)
  BY DEF TelephonyIInv, CallIInv, AgentsIInv
<1>2. /\ reply[c].status = "READY_FOR_HANDOFF"
      /\ StartAgent(c, reply[c].intent, reply[c].cif)
      /\ handling' = [handling EXCEPT ![c] = "agent"]
      /\ UNCHANGED <<callVars, sessionVars, live, line, asked, inflight, caller, depth>>
  BY DEF RenderHandoff, lineVars
<1>3. /\ live[c] /\ "gather" \in inflight[c] /\ ~activeAgent[c] /\ agent[c].stage = "DONE"
      /\ agentReply[c].status # "ESCALATE" /\ (idStep[c] # "card") /\ depth[c] <= 1
  BY <1>1, <1>2 DEF TelephonyInv, HandlerInv, CoordinatorInv, PairInv, DepthInv
<1>4. /\ reply[c].intent \in Intents /\ reply[c].cif \in Customers /\ grants[c] # {}
  BY <1>1, <1>2 DEF SessionInv, GrantInv, TelephonyInv, Named
<1>5. CreateAgent(c)
  BY <1>2, <1>3, <1>4 DEF CreateAgent
<1>6. Driven(c)
  BY <1>2, <1>5 DEF Driven, AgentStep
<1>7. /\ agent'[c].intent = reply[c].intent /\ agent'[c].cif = reply[c].cif
      /\ agentReply'[c].status \in {"COMPLETED", "NEEDS_INPUT"}
  <2> DEFINE i == reply[c].intent
             k == reply[c].cif
  <2>1. StartAgent(c, i, k)
    BY <1>2
  <2> HIDE DEF i, k
  <2>2. /\ agent'[c].intent = i /\ agent'[c].cif = k
        /\ agentReply'[c].status \in {"COMPLETED", "NEEDS_INPUT"}
    BY <1>1, <2>1, StartSays
  <2> QED BY <2>2 DEF i, k
<1>8. /\ handling' \in [Calls -> {"nothing", "coordinator", "agent"}] /\ handling'[c] = "agent"
      /\ \A d \in Calls : d # c => handling'[d] = handling[d]
  BY <1>1, <1>2 DEF LineTypeOK
<1>9. LineWritten(c)
  BY <1>1, <1>2, <1>8 DEF LineWritten, LineTypeOK, SameLine
<1>10. SessionWritten(c)
  BY <1>1, <1>2, SessionsStay DEF SessionWritten
<1>11. UNCHANGED <<activeAuth, reply, grants, status, idStep>>
  BY <1>2 DEF callVars, vars, flowVars, answer, coordinatorVars, session, sessionVars
<1>12. TelephonyInv(c)'
  <2>1. Follows(c)' /\ Named(c)'
    BY <1>1, <1>11 DEF TelephonyInv, Follows, Named
  <2>2. HandlerInv(c)'
    BY <1>1, <1>2, <1>3 DEF TelephonyInv, HandlerInv
  <2>3. WaitInv(c)' /\ CoordinatorInv(c)' /\ AskedInv(c)'
    BY <1>8 DEF WaitInv, CoordinatorInv, AskedInv
  <2>4. ServingInv(c)' /\ PairInv(c)' /\ DepthInv(c)'
    BY <1>2, <1>3, <1>7, <1>11 DEF ServingInv, PairInv, DepthInv
  <2>5. OrphanInv(c)'
    BY <1>1, <1>2, <1>3, <1>4 DEF TelephonyInv, OrphanInv
  <2> QED BY <2>1, <2>2, <2>3, <2>4, <2>5 DEF TelephonyInv
<1> QED BY <1>6, <1>9, <1>10, <1>12 DEF Stepped

\* A question of the coordinator, whose flow, if it is the flow's, is in a stage that
\* takes the answer.
LEMMA QuestionStepped ==
    ASSUME TelephonyIInv, NEW c \in Calls, handling[c] = "coordinator", RenderQuestion(c)
    PROVE  Stepped(c)
<1>1. /\ LineTypeOK /\ SessionTypeOK /\ TelephonyInv(c)
      /\ HandlerInv(c) /\ CoordinatorInv(c) /\ PairInv(c) /\ AskedInv(c) /\ Follows(c)
      /\ GateInv(c) /\ PromptMatches(c)
  BY DEF TelephonyIInv, TelephonyInv, CallIInv, SessionInv, IInv, CallInv
<1>2. /\ reply[c].status \in Question
      /\ pendingStatus' = [pendingStatus EXCEPT ![c] =
             IF reply[c].status = "NEEDS_REPEAT" THEN pendingStatus[c] ELSE reply[c].status]
      /\ AskCaller(c, Asks(c))
      /\ UNCHANGED <<callVars, agentVars, live, activeAgent, idStep, pendingAccount, heardAt>>
  BY DEF RenderQuestion
<1>3. live[c] /\ "gather" \in inflight[c] /\ ~activeAgent[c]
  BY <1>1 DEF HandlerInv, CoordinatorInv
<1>4. Driven(c)
  BY <1>2 DEF Driven
<1>5. UNCHANGED <<activeAuth, reply, grants, status, stage, idAttempts, agent, agentReply, requests>>
  BY <1>2 DEF callVars, vars, flowVars, answer, retries, coordinatorVars, session, agentVars
<1>6. \E p \in Pending : pendingStatus' = [pendingStatus EXCEPT ![c] = p]
  <2>1. pendingStatus[c] \in Pending
    BY <1>1 DEF SessionTypeOK
  <2>2. (IF reply[c].status = "NEEDS_REPEAT" THEN pendingStatus[c] ELSE reply[c].status) \in Pending
    BY <1>2, <2>1 DEF Pending, FactorStatuses, Question, Asking
  <2> QED BY <1>2, <2>2
<1>7. SessionWritten(c)
  BY <1>1, <1>2, <1>6, SessionSet
<1>8. pendingStatus'[c] = IF reply[c].status = "NEEDS_REPEAT" THEN pendingStatus[c] ELSE reply[c].status
  BY <1>1, <1>2 DEF SessionTypeOK
<1>9. Asks(c) \in Questions
  BY <1>1, <1>2 DEF Asks, Questions, Question, Asking, LineTypeOK
<1>10. /\ LineWritten(c)
       /\ handling'[c] = "nothing" /\ depth'[c] = depth[c] /\ caller'[c] = caller[c]
       /\ "gather" \notin inflight'[c]
       /\ "status" \in inflight'[c] <=> "status" \in inflight[c]
       /\ \/ line'[c] = "listening" /\ asked'[c] = Asks(c)
          \/ line[c] = "over" /\ line'[c] = "over"
  <2> DEFINE q == Asks(c)
  <2>1. q \in Questions /\ AskCaller(c, q)
    BY <1>2, <1>9
  <2> HIDE DEF q
  <2>2. /\ LineWritten(c)
        /\ handling'[c] = "nothing" /\ depth'[c] = depth[c] /\ caller'[c] = caller[c]
        /\ "gather" \notin inflight'[c]
        /\ "status" \in inflight'[c] <=> "status" \in inflight[c]
        /\ \/ line'[c] = "listening" /\ asked'[c] = q
           \/ line[c] = "over" /\ line'[c] = "over"
    BY <1>1, <1>3, <2>1, CallerAsked
  <2> QED BY <2>2 DEF q
<1>11. Follows(c)' /\ Named(c)'
  BY <1>1, <1>5 DEF TelephonyInv, Follows, Named
<1>12. reply[c].status # "NEEDS_INTENT" => activeAuth[c] /\ Fits(c)'
  <2>1. CASE reply[c].status = "NEEDS_REPEAT"
    BY <1>1, <1>5, <1>8, <2>1 DEF GateInv, Asking, CoordinatorInv, Fits
  <2>2. CASE reply[c].status \in FactorStatuses
    <3>1. activeAuth[c]
      BY <1>1, <2>2 DEF GateInv, Asking, FactorStatuses
    <3>2. reply[c].status = status[c]
      BY <1>1, <3>1 DEF Follows
    <3>3. pendingStatus'[c] = status[c]
      BY <1>8, <2>2, <3>2 DEF FactorStatuses
    <3> QED BY <1>1, <1>5, <2>2, <3>1, <3>2, <3>3 DEF PromptMatches, Fits
  <2> QED BY <1>2, <2>1, <2>2 DEF Question, Asking, FactorStatuses
<1>13. WaitInv(c)'
  <2>1. agent[c].stage = "DONE" /\ agentReply[c].status # "ESCALATE"
    BY <1>1, <1>2 DEF CoordinatorInv, Question, Asking
  <2> QED BY <1>2, <1>3, <1>5, <1>8, <1>12, <2>1 DEF WaitInv
<1>14. ServingInv(c)' /\ PairInv(c)'
  BY <1>1, <1>2, <1>3, <1>5, <1>8, <1>10 DEF ServingInv, PairInv
<1>15. Expected(c)' = Asks(c)
  <2>1. CASE reply[c].status = "NEEDS_REPEAT"
    <3>1. Expected(c) = asked[c] \/ Expected(c) = "NEEDS_INTENT"
      BY <1>1, <1>3, <2>1 DEF AskedInv
    <3>2. Expected(c) # "NEEDS_INTENT"
      BY <1>1, <1>3, <2>1 DEF Expected, CoordinatorInv, Fits, FactorStatuses, SessionTypeOK
    <3>3. Expected(c)' = Expected(c)
      BY <1>2, <1>3, <1>8, <2>1 DEF Expected
    <3> QED BY <2>1, <3>1, <3>2, <3>3 DEF Asks
  <2>2. CASE reply[c].status = "NEEDS_IDENTIFICATION"
    <3>1. idStep[c] = "account"
      BY <1>1, <1>3, <2>2 DEF PairInv, SessionTypeOK
    <3> QED BY <1>2, <1>3, <1>8, <2>2, <3>1 DEF Expected, Asks
  <2>3. CASE reply[c].status \notin {"NEEDS_REPEAT", "NEEDS_IDENTIFICATION"}
    BY <1>2, <1>3, <1>8, <2>3 DEF Expected, Asks
  <2> QED BY <2>1, <2>2, <2>3
<1>16. TelephonyInv(c)'
  BY <1>1, <1>2, <1>3, <1>5, <1>10, <1>11, <1>13, <1>14, <1>15, QuestionInv
<1> QED BY <1>4, <1>7, <1>10, <1>16 DEF Stepped

\* Whatever the coordinator replied.
LEMMA RenderStepped ==
    ASSUME TelephonyIInv, NEW c \in Calls, Render(c)
    PROVE  Stepped(c)
<1>1. SessionTypeOK
  BY DEF TelephonyIInv
<1>2. handling[c] = "coordinator"
  BY DEF Render
<1>3. CASE EndSession(c) /\ UNCHANGED <<callVars, agentVars, sessionVars>>
  <2>1. SessionWritten(c)
    BY <1>1, <1>3, SessionSet DEF EndSession, sessionVars
  <2> QED BY <1>3, <2>1, EndStepped
<1>4. CASE RenderFinal(c)
  <2>1. reply[c].status \in Pending
    BY <1>4 DEF RenderFinal, Pending
  <2>2. SessionWritten(c)
    BY <1>1, <1>4, <2>1, SessionSet DEF RenderFinal, EndSession
  <2> QED BY <1>4, <2>2, EndStepped DEF RenderFinal
<1> QED BY <1>2, <1>3, <1>4, HandoffStepped, QuestionStepped DEF Render

\* The agent is done, or asks for more: the caller is asked the next question.
LEMMA AgentAsksStepped ==
    ASSUME TelephonyIInv, NEW c \in Calls, handling[c] = "agent",
           NEW q \in Questions, AskCaller(c, q), Driven(c), SessionWritten(c),
           live'[c] = live[c], idStep'[c] = idStep[c],
           Follows(c)', Named(c)', grants'[c] = grants[c], UNCHANGED agentVars,
           \/ /\ ~activeAgent'[c] /\ pendingStatus'[c] = "NEEDS_INTENT" /\ q = "NEEDS_INTENT"
              /\ agentReply[c].status = "COMPLETED" /\ reply'[c].status = "NEEDS_INTENT"
           \/ /\ activeAgent'[c] /\ agentReply[c].status = "NEEDS_INPUT" /\ q = agent[c].stage
              /\ reply'[c] = reply[c]
    PROVE  Stepped(c)
<1>1. /\ LineTypeOK /\ TelephonyInv(c) /\ SlotsInv(c)
      /\ HandlerInv(c) /\ PairInv(c) /\ ServingInv(c)
  BY DEF TelephonyIInv, TelephonyInv, AgentsIInv, AgentInv
<1>2. live[c] /\ "gather" \in inflight[c] /\ idStep[c] # "card"
  BY <1>1 DEF HandlerInv, PairInv
<1>3. /\ LineWritten(c)
      /\ handling'[c] = "nothing" /\ depth'[c] = depth[c] /\ caller'[c] = caller[c]
      /\ "gather" \notin inflight'[c]
      /\ "status" \in inflight'[c] <=> "status" \in inflight[c]
      /\ \/ line'[c] = "listening" /\ asked'[c] = q
         \/ line[c] = "over" /\ line'[c] = "over"
  BY <1>1, <1>2, CallerAsked
<1>4. UNCHANGED <<agent, agentReply, requests>>
  BY DEF agentVars
<1>5. agentReply[c].status = "NEEDS_INPUT" <=> agent[c].stage # "DONE"
  BY <1>1 DEF SlotsInv
<1>6. WaitInv(c)'
  BY <1>4, <1>5 DEF WaitInv
<1>7. ServingInv(c)'
  BY <1>1, <1>3, <1>4 DEF ServingInv
<1>8. PairInv(c)'
  BY <1>2 DEF PairInv
<1>9. Expected(c)' = q
  BY <1>4 DEF Expected
<1>10. TelephonyInv(c)'
  BY <1>1, <1>2, <1>3, <1>4, <1>6, <1>7, <1>8, <1>9, QuestionInv
<1> QED BY <1>3, <1>10 DEF Stepped

\* The agent gives the call back, for another intent or for good, and the reply of
\* the coordinator is rendered next, one level deeper and never two.
LEMMA DeeperStepped ==
    ASSUME TelephonyIInv, NEW c \in Calls, handling[c] = "agent",
           agentReply[c].status \in {"NEED_HANDOFF", "ESCALATE"}, RenderDeeper(c), Driven(c),
           Follows(c)', Named(c)', grants'[c] = grants[c],
           reply'[c].status # "NEEDS_REPEAT",
           agentReply[c].status = "ESCALATE" => reply'[c].status = "ESCALATED"
    PROVE  Stepped(c)
<1>1. /\ LineTypeOK /\ SessionTypeOK /\ TelephonyInv(c) /\ SlotsInv(c) /\ GrantInv(c)
      /\ HandlerInv(c) /\ PairInv(c) /\ ServingInv(c) /\ DepthInv(c) /\ OrphanInv(c)
  BY DEF TelephonyIInv, TelephonyInv, AgentsIInv, AgentInv, CallIInv, SessionInv
<1>2. /\ activeAgent' = [activeAgent EXCEPT ![c] = FALSE]
      /\ handling' = [handling EXCEPT ![c] = "coordinator"]
      /\ depth' = [depth EXCEPT ![c] = depth[c] + 1]
      /\ UNCHANGED <<agent, agentReply, requests, live, line, asked, inflight, caller>>
      /\ UNCHANGED <<pendingStatus, idStep, pendingAccount, heardAt>>
  BY DEF RenderDeeper, agentVars, lineVars
<1>3. /\ live[c] /\ "gather" \in inflight[c] /\ idStep[c] # "card"
      /\ agent[c].stage = "DONE" /\ grants[c] # {}
  BY <1>1 DEF HandlerInv, PairInv, SlotsInv, ServingInv, GrantInv
<1>4. depth[c] = 0
  BY <1>1 DEF DepthInv, LineTypeOK
<1>5. /\ handling' \in [Calls -> {"nothing", "coordinator", "agent"}] /\ handling'[c] = "coordinator"
      /\ depth' \in [Calls -> 0..MAX_RENDER_DEPTH + 1] /\ depth'[c] = 1
      /\ \A d \in Calls : d # c => handling'[d] = handling[d] /\ depth'[d] = depth[d]
  <2>1. depth' = [depth EXCEPT ![c] = 1] /\ 1 \in 0..MAX_RENDER_DEPTH + 1
    BY <1>2, <1>4, RenderAssumption
  <2> QED BY <1>1, <1>2, <2>1 DEF LineTypeOK
<1>6. LineWritten(c)
  BY <1>1, <1>2, <1>5 DEF LineWritten, LineTypeOK, SameLine
<1>7. SessionWritten(c)
  BY <1>1, <1>2, SessionSet
<1>8. ~activeAgent'[c]
  BY <1>1, <1>2, Zenon DEF SessionTypeOK
<1>9. HandlerInv(c)' /\ DepthInv(c)'
  BY <1>1, <1>2, <1>3, <1>5 DEF HandlerInv, DepthInv
<1>10. WaitInv(c)' /\ ServingInv(c)' /\ PairInv(c)' /\ AskedInv(c)'
  BY <1>2, <1>3, <1>5 DEF WaitInv, ServingInv, PairInv, AskedInv
<1>11. CoordinatorInv(c)' /\ OrphanInv(c)'
  BY <1>1, <1>2, <1>3, <1>8 DEF CoordinatorInv, OrphanInv
<1>12. TelephonyInv(c)'
  BY <1>9, <1>10, <1>11 DEF TelephonyInv
<1> QED BY <1>6, <1>7, <1>12 DEF Stepped

\* Whatever the agent returned.
LEMMA RenderAgentStepped ==
    ASSUME TelephonyIInv, NEW c \in Calls, RenderAgent(c)
    PROVE  Stepped(c)
<1>1. /\ SessionTypeOK /\ CallIInv /\ AgentsIInv /\ CoordinatorTypeOK /\ AgentsTypeOK
      /\ Follows(c) /\ Named(c)
      /\ handling[c] = "agent" /\ reply[c].status = "READY_FOR_HANDOFF"
      /\ agentReply[c].status = "NEED_HANDOFF" => agentReply[c].intent \in Intents \ {reply[c].intent}
  BY DEF TelephonyIInv, TelephonyInv, CallIInv, AgentsIInv, RenderAgent, ServingInv
<1>2. CASE /\ agentReply[c].status = "COMPLETED"
           /\ MarkTaskCompleted(c)
           /\ activeAgent' = [activeAgent EXCEPT ![c] = FALSE]
           /\ pendingStatus' = [pendingStatus EXCEPT ![c] = reply'[c].status]
           /\ AskCaller(c, reply'[c].status)
           /\ UNCHANGED <<agentVars, live, idStep, pendingAccount, heardAt>>
  <2>1. Driven(c)
    BY <1>1, <1>2 DEF Driven, CallStep, AgentReturns
  <2>2. reply'[c].status = "NEEDS_INTENT"
    <3> DEFINE t == tierAchieved'[c]
    <3>1. Reply(c, "NEEDS_INTENT", NoIntent, t, callerCif[c], NoReason)
      BY <1>2 DEF MarkTaskCompleted, ToIntentCapture
    <3> HIDE DEF t
    <3> QED BY <1>1, <3>1, Replying
  <2>3. ~activeAuth'[c] /\ ~activeAgent'[c]
    BY <1>1, <1>2, Zenon DEF MarkTaskCompleted, CoordinatorTypeOK, SessionTypeOK
  <2>4. UNCHANGED grants
    BY <1>2 DEF MarkTaskCompleted, session
  <2>5. Follows(c)' /\ Named(c)'
    BY <1>1, <2>3, <2>4 DEF Follows, Named
  <2>6. "NEEDS_INTENT" \in Pending /\ "NEEDS_INTENT" \in Questions
    BY DEF Pending, Questions
  <2>7. pendingStatus' = [pendingStatus EXCEPT ![c] = "NEEDS_INTENT"] /\ AskCaller(c, "NEEDS_INTENT")
    BY <1>2, <2>2
  <2>8. SessionWritten(c) /\ pendingStatus'[c] = "NEEDS_INTENT"
    <3>1. pendingStatus'[c] = "NEEDS_INTENT"
      BY <1>1, <2>7 DEF SessionTypeOK
    <3> QED BY <1>1, <1>2, <2>6, <2>7, <3>1, SessionSet
  <2> QED BY <1>1, <1>2, <2>1, <2>2, <2>3, <2>4, <2>5, <2>6, <2>7, <2>8, AgentAsksStepped
<1>3. CASE /\ agentReply[c].status = "NEEDS_INPUT"
           /\ activeAgent' = [activeAgent EXCEPT ![c] = TRUE]
           /\ AskCaller(c, agent[c].stage)
           /\ UNCHANGED <<callVars, agentVars, live, pendingStatus, idStep, pendingAccount, heardAt>>
  <2>1. Driven(c)
    BY <1>3 DEF Driven
  <2>2. UNCHANGED <<activeAuth, reply, grants, status>>
    BY <1>3 DEF callVars, vars, flowVars, answer, coordinatorVars, session
  <2>3. Follows(c)' /\ Named(c)'
    BY <1>1, <2>2 DEF Follows, Named
  <2>4. SessionWritten(c)
    BY <1>1, <1>3, SessionSet
  <2>5. activeAgent'[c]
    BY <1>1, <1>3, Zenon DEF SessionTypeOK
  <2> DEFINE q == agent[c].stage
  <2>6. q \in Questions /\ AskCaller(c, q) /\ q = agent[c].stage
    BY <1>1, <1>3 DEF Questions, AgentsTypeOK
  <2> HIDE DEF q
  <2> QED BY <1>1, <1>3, <2>1, <2>2, <2>3, <2>4, <2>5, <2>6, AgentAsksStepped
<1>4. CASE /\ agentReply[c].status = "NEED_HANDOFF"
           /\ RouteIntent(c, agentReply[c].intent)
           /\ RenderDeeper(c)
  <2> DEFINE i == agentReply[c].intent
  <2>1. i \in Intents \ {reply[c].intent} /\ RouteIntent(c, i)
    BY <1>1, <1>4
  <2> HIDE DEF i
  <2>2. Driven(c)
    BY <1>1, <1>4, <2>1 DEF Driven, CallStep, AgentReturns, RenderDeeper
  <2>3. CallIInv'
    BY <1>1, <2>2, DrivenInv
  <2>4. /\ Follows(c)' /\ Named(c)'
        /\ reply'[c].status # "NEEDS_REPEAT" /\ grants'[c] = grants[c]
    <3>1. i \in Intents /\ Route(c, i)
      BY <2>1 DEF RouteIntent
    <3> QED BY <1>1, <2>3, <3>1, RouteReplies, ServedAssumption
  <2> QED BY <1>1, <1>4, <2>2, <2>4, DeeperStepped
<1>5. CASE /\ agentReply[c].status = "ESCALATE"
           /\ EscalateFromAgent(c)
           /\ RenderDeeper(c)
  <2>1. Driven(c)
    BY <1>1, <1>5 DEF Driven, CallStep, AgentReturns, RenderDeeper
  <2>2. reply'[c].status = "ESCALATED"
    BY <1>1, <1>5, Replying DEF EscalateFromAgent, EscalateCall
  <2>3. ~activeAuth'[c]
    BY <1>1, <1>5, Zenon DEF EscalateFromAgent, EscalateCall, CoordinatorTypeOK
  <2>4. Follows(c)' /\ Named(c)' /\ grants'[c] = grants[c]
    BY <1>1, <1>5, <2>3 DEF Follows, Named, EscalateFromAgent, session
  <2> QED BY <1>1, <1>5, <2>1, <2>2, <2>4, DeeperStepped
<1> QED BY <1>2, <1>3, <1>4, <1>5 DEF RenderAgent

-----------------------------------------------------------------------------
(***************************************************************************)
(* The theorems.                                                           *)
(***************************************************************************)
\* At first there is neither a call nor a session.
LEMMA TelephonyInitInv == TelephonyInit => TelephonyIInv
<1> SUFFICES ASSUME TelephonyInit PROVE TelephonyIInv
  OBVIOUS
<1>1. CallIInv /\ AgentsIInv
  BY CallInitInv, AgentsInitInv DEF TelephonyInit
<1>2. LineTypeOK
  <2>1. "idle" \in Lines /\ "NEEDS_INTENT" \in Questions /\ 0 \in 0..MAX_RENDER_DEPTH + 1
    BY RenderAssumption DEF Lines, Questions
  <2> QED BY <2>1 DEF TelephonyInit, LineTypeOK
<1>3. SessionTypeOK
  <2>1. live \in [Calls -> BOOLEAN] /\ activeAgent \in [Calls -> BOOLEAN]
    BY Zenon DEF TelephonyInit
  <2>2. "NEEDS_INTENT" \in Pending
    BY DEF Pending
  <2> QED BY <2>1, <2>2 DEF TelephonyInit, SessionTypeOK
<1>4. ASSUME NEW c \in Calls PROVE TelephonyInv(c)
  <2>1. ~live[c] /\ ~activeAuth[c]
    BY Zenon DEF TelephonyInit, CallInit, CoordinatorInit
  <2>2. Follows(c) /\ Named(c)
    BY <2>1 DEF TelephonyInit, CallInit, CoordinatorInit, Follows, Named
  <2>3. HandlerInv(c) /\ WaitInv(c) /\ CoordinatorInv(c) /\ DepthInv(c)
    BY <2>1 DEF TelephonyInit, HandlerInv, WaitInv, CoordinatorInv, DepthInv
  <2>4. ServingInv(c) /\ PairInv(c) /\ AskedInv(c) /\ OrphanInv(c)
    BY <2>1 DEF TelephonyInit, ServingInv, PairInv, AskedInv, OrphanInv
  <2> QED BY <2>2, <2>3, <2>4 DEF TelephonyInv
<1> QED BY <1>1, <1>2, <1>3, <1>4 DEF TelephonyIInv

\* Every step of the composition is a step of one call, within the invariant.
LEMMA TelephonySteps ==
    ASSUME TelephonyIInv, TelephonyNext
    PROVE  \E c \in Calls : Stepped(c)
<1>1. PICK c \in Calls :
         \/ Dial(c) \/ PostAgain(c) \/ Post(c) \/ CallEnds(c)
         \/ Incoming(c) \/ StatusCallback(c) \/ Gather(c) \/ Render(c) \/ RenderAgent(c)
         \/ Expire(c) /\ UNCHANGED <<bankVars, flowVars, coordinatorVars, agentVars,
                                     sessionVars, live, lineVars, inflight, caller, handlerVars>>
  BY DEF TelephonyNext
<1> QED BY <1>1, TwilioStepped, IncomingStepped, StatusStepped, GatherStepped, RenderStepped,
           RenderAgentStepped, ExpireStepped

\* Nothing happens to any call.
LEMMA TelephonyStutter ==
    ASSUME TelephonyIInv, UNCHANGED telephonyVars
    PROVE  TelephonyIInv'
<1>1. /\ UNCHANGED callVars /\ UNCHANGED agentVars /\ UNCHANGED <<sessionVars, live>>
      /\ UNCHANGED <<lineVars, inflight, caller, handlerVars>>
  BY DEF telephonyVars
<1>2. /\ CallIInv /\ AgentsIInv /\ LineTypeOK /\ SessionTypeOK
      /\ \A c \in Calls : TelephonyInv(c)
  BY DEF TelephonyIInv
<1>3. LineTypeOK' /\ SessionTypeOK' /\ \A d \in Calls : SameLine(d) /\ SameSession(d)
  BY <1>1, <1>2, LinesStay, SessionsStay
<1>4. CallIInv' /\ \A d \in Calls : Kept(d) /\ Untouched(d)
  BY <1>1, <1>2, CallStutter
<1>5. AgentsIInv' /\ \A d \in Calls : SameAgent(d) /\ idAttempts'[d] = idAttempts[d]
  BY <1>1, <1>2, AgentsStutter DEF agentVars, SameAgent, callVars, vars, flowVars, retries
<1>6. ASSUME NEW d \in Calls PROVE TelephonyInv(d)'
  BY <1>2, <1>3, <1>4, <1>5, SameCallInv
<1> QED BY <1>3, <1>4, <1>5, <1>6 DEF TelephonyIInv

\* The inductive invariant of the composition.
THEOREM TelephonyInvariance == TelephonySpec => []TelephonyIInv
<1>1. TelephonyIInv /\ [TelephonyNext]_telephonyVars => TelephonyIInv'
  BY TelephonySteps, SteppedInv, TelephonyStutter
<1> QED BY <1>1, TelephonyInitInv, PTL DEF TelephonySpec

\* Every variable of the webhooks and the sessions keeps its type.
THEOREM TelephonyTypeCorrect == TelephonySpec => []TelephonyTypeOK
<1>1. TelephonyIInv => TelephonyTypeOK
  BY DEF TelephonyIInv, AgentsIInv, LineTypeOK, SessionTypeOK, TelephonyTypeOK, Questions, Pending
<1> QED BY <1>1, TelephonyInvariance, PTL

\* Between requests, what a session says is pending is what the object behind it
\* waits for: no answer meets a RuntimeError or the fallback hangup.
THEOREM EveryAnswerIsDispatched == TelephonySpec => []Dispatchable
<1>1. TelephonyIInv => Dispatchable
  <2> SUFFICES ASSUME TelephonyIInv, NEW c \in Calls, live[c], handling[c] = "nothing"
               PROVE  IF activeAgent[c]
                      THEN agent[c].stage # "DONE" /\ ~activeAuth[c]
                      ELSE /\ pendingStatus[c] \in FactorStatuses \cup {"NEEDS_INTENT"}
                           /\ pendingStatus[c] = "NEEDS_INTENT" =>
                                 reply[c].status = "NEEDS_INTENT" /\ ~activeAuth[c]
                           /\ pendingStatus[c] # "NEEDS_INTENT" => activeAuth[c]
                           /\ pendingStatus[c] = "NEEDS_MPIN" => stage[c] \in MpinStages
                           /\ pendingStatus[c] = "NEEDS_OTP" => stage[c] \in OtpStages
                           /\ pendingStatus[c] = "NEEDS_IDENTIFICATION" =>
                                 stage[c] = "AWAITING_IDENTIFICATION"
    BY DEF Dispatchable
  <2>1. WaitInv(c) /\ ServingInv(c) /\ GateInv(c)
    BY DEF TelephonyIInv, TelephonyInv, CallIInv, SessionInv
  <2>2. CASE activeAgent[c]
    BY <2>1, <2>2 DEF WaitInv, ServingInv, GateInv, Asking
  <2>3. CASE ~activeAgent[c]
    BY <2>1, <2>3 DEF WaitInv, Fits, GateInv, Asking, FactorStatuses
  <2> QED BY <2>2, <2>3
<1> QED BY <1>1, TelephonyInvariance, PTL

\* The account digits that a card number completes were heard in the same attempt.
THEOREM PairsAreOfOneAttempt == TelephonySpec => []PairIsOfOneAttempt
<1>1. TelephonyIInv => PairIsOfOneAttempt
  BY DEF TelephonyIInv, TelephonyInv, PairInv, PairIsOfOneAttempt
<1> QED BY <1>1, TelephonyInvariance, PTL

\* No answer is taken for another question than the one the caller was asked, but
\* that a repeated incoming webhook puts the session back at the greeting.
THEOREM AnswersAreForTheirQuestions == TelephonySpec => []AnswersMeetQuestions
<1>1. TelephonyIInv => AnswersMeetQuestions
  BY DEF TelephonyIInv, TelephonyInv, AskedInv, AnswersMeetQuestions
<1> QED BY <1>1, TelephonyInvariance, PTL

\* However agents and coordinator hand a call to each other, a reply is rendered
\* within two levels, for any recursion limit.
THEOREM RenderingIsShallow == TelephonySpec => []RecursionIsShallow
<1>1. TelephonyIInv => RecursionIsShallow
  BY DEF TelephonyIInv, TelephonyInv, DepthInv, RecursionIsShallow
<1> QED BY <1>1, TelephonyInvariance, PTL

\* A session left behind by a call that is over has nobody's identity in it.
THEOREM OrphansAreAnonymous == TelephonySpec => []OrphansKnowNobody
<1>1. TelephonyIInv => OrphansKnowNobody
  <2> SUFFICES ASSUME TelephonyIInv, NEW c \in Calls, line[c] = "over", inflight[c] = {}, live[c]
               PROVE  /\ \A g \in grants[c] : g[2] = 0
                      /\ ~activeAgent[c]
                      /\ requests[c] = <<>>
    BY DEF OrphansKnowNobody
  <2>1. grants[c] = {} /\ requests[c] = <<>> /\ handling[c] = "nothing"
    BY DEF TelephonyIInv, TelephonyInv, OrphanInv, HandlerInv
  <2>2. ~activeAgent[c]
    <3>1. ServingInv(c) /\ GrantInv(c)
      BY DEF TelephonyIInv, TelephonyInv, CallIInv, SessionInv
    <3> QED BY <2>1, <3>1 DEF ServingInv, GrantInv
  <2> QED BY <2>1, <2>2
<1> QED BY <1>1, TelephonyInvariance, PTL

\* The webhooks drive the coordinator as CallSpec allows: an utterance only when it
\* asked for one, a factor only while its gate is open, and an agent's result only
\* for the handoff that stands.
THEOREM CoordinatorIsDriven == TelephonySpec => DrivesCoordinator
<1>1. TelephonyInit => CallInit
  BY DEF TelephonyInit
<1>2. TelephonyIInv /\ [TelephonyNext]_telephonyVars => [CallNext]_callVars
  <2>1. ASSUME TelephonyIInv, TelephonyNext PROVE [CallNext]_callVars
    BY <2>1, TelephonySteps DEF Stepped, Driven, CallStep, CallNext
  <2>2. UNCHANGED telephonyVars => UNCHANGED callVars
    BY DEF telephonyVars
  <2> QED BY <2>1, <2>2
<1> QED BY <1>1, <1>2, TelephonyInvariance, PTL DEF TelephonySpec, CallSpec, DrivesCoordinator

\* And the agents as AgentsSpec allows: one at a time, an answer only to one that
\* asked, and none after one that escalated.
THEOREM AgentsAreDriven == TelephonySpec => DrivesAgents
<1>1. TelephonyInit => AgentsInit
  BY DEF TelephonyInit
<1>2. TelephonyIInv /\ [TelephonyNext]_telephonyVars => [AgentsNext]_agentVars
  <2>1. ASSUME TelephonyIInv, TelephonyNext PROVE [AgentsNext]_agentVars
    BY <2>1, TelephonySteps DEF Stepped, Driven, AgentStep, AgentsNext
  <2>2. UNCHANGED telephonyVars => UNCHANGED agentVars
    BY DEF telephonyVars
  <2> QED BY <2>1, <2>2
<1> QED BY <1>1, <1>2, TelephonyInvariance, PTL DEF TelephonySpec, AgentsSpec, DrivesAgents

\* So what was proved of a coordinator and its flow driven at liberty, and of the
\* agents, holds of the service as Twilio meets it, session by session.
THEOREM ServiceIsSafe ==
    TelephonySpec =>
        /\ [](HandoffEarned /\ ActiveAuthMatches /\ ChallengedForMore /\ OtpGuessBudget)
        /\ [](EarnedTier /\ ChallengeFitsCustomer /\ PromptMatchesStage)
        /\ []LockAtThreshold /\ LockIsFinal /\ EveryTurnSpends /\ TierSurvives
        /\ [](OnlyConfirmedRequests /\ RequestLimit /\ InputIsExpected) /\ EveryAnswerCosts
BY CoordinatorIsDriven, AgentsAreDriven, HandoffIsEarned, FlowIsThereWhenAsked, ChallengeIsForMore,
   OtpGuessesAreBoundedInCall, FlowIsSafeInCall, LockHoldsInCall, EveryTurnIsChargedInCall, TierIsKept,
   FiledIsConfirmed, RequestsAreLimited, AgentAsksWhenOpen, AnswersCost, PTL DEF DrivesCoordinator, DrivesAgents
=============================================================================
