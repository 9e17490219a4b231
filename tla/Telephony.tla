------------------------------ MODULE Telephony ------------------------------
(***************************************************************************)
(* telephony/app.py and session_store.py: the webhooks Twilio posts for a  *)
(* call, and the CallSession that says which object the next answer is     *)
(* for. It composes the Coordinator (with its AuthFlow) and the domain     *)
(* agents. A handler runs to completion in one event loop without awaiting *)
(* once the form is read; it is one step to dispatch the answer and one    *)
(* step for each call of _render or _render_agent that follows, and no     *)
(* other handler starts in between (Quiet). Twilio's side of a call is     *)
(* kept apart from the session: requests in flight are handled in any      *)
(* order, however late, and the caller may hang up, or Twilio give up      *)
(* waiting, while one is. The incoming webhook may be posted twice. Calls  *)
(* are told apart by their CallSid, so none comes back after it is over.   *)
(***************************************************************************)
EXTENDS Coordinator, DomainAgents, ServedCatalog

CONSTANT MAX_RENDER_DEPTH

ASSUME RenderAssumption == MAX_RENDER_DEPTH \in Nat

VARIABLES
    line,                 \* where Twilio is with the call
    inflight,             \* the requests posted and not yet handled
    caller,               \* the form's From, as the customer it resolves to or NoCif
    live,                 \* the session store has the call
    pendingStatus,        \* CallSession.pending_status
    activeAgent,          \* CallSession.active_agent is not None
    idStep,               \* CallSession.identification_step; "account" for None too
    pendingAccount,       \* whose account digits pending_account_last6 are
    heardAt,              \* ghost: identification attempts when they were heard
    asked,                \* ghost: the question the caller was last played
    handling,             \* the reply a handler is rendering: the coordinator's, an agent's
    depth                 \* _render's _depth

sessionVars == <<pendingStatus, activeAgent, idStep, pendingAccount, heardAt>>
lineVars == <<line, asked>>
handlerVars == <<handling, depth>>
telephonyVars == <<callVars, agentVars, sessionVars, live, lineVars, inflight, caller, handlerVars>>

\* Before the call; Twilio waits for the answer to a request, gathers speech, or
\* is done with the call.
Incomings == {"incoming", "again"}
Lines == Incomings \cup {"idle", "gather", "listening", "over"}
Webhooks == Incomings \cup {"gather", "status"}

FactorStatuses == {"NEEDS_MPIN", "NEEDS_OTP", "NEEDS_IDENTIFICATION"}
Quiet == \A c \in Calls : handling[c] = "nothing"

TelephonyTypeOK ==
    /\ AgentsTypeOK
    /\ line \in [Calls -> Lines]
    /\ inflight \in [Calls -> SUBSET Webhooks]
    /\ caller \in [Calls -> Customers \cup {NoCif}]
    /\ live \in [Calls -> BOOLEAN]
    /\ pendingStatus \in [Calls -> FactorStatuses \cup Final \cup {"NEEDS_INTENT"}]
    /\ activeAgent \in [Calls -> BOOLEAN]
    /\ idStep \in [Calls -> {"account", "card"}]
    /\ pendingAccount \in [Calls -> Customers \cup {NoCif}]
    /\ heardAt \in [Calls -> Nat]
    /\ asked \in [Calls -> {"NEEDS_INTENT", "NEEDS_MPIN", "NEEDS_OTP", "account", "card"} \cup AgentStages]
    /\ handling \in [Calls -> {"nothing", "coordinator", "agent"}]
    /\ depth \in [Calls -> 0..MAX_RENDER_DEPTH + 1]

TelephonyInit ==
    /\ CallInit
    /\ AgentsInit
    /\ line = [c \in Calls |-> "idle"]
    /\ inflight = [c \in Calls |-> {}]
    /\ caller = [c \in Calls |-> NoCif]
    /\ live = [c \in Calls |-> FALSE]
    /\ pendingStatus = [c \in Calls |-> "NEEDS_INTENT"]
    /\ activeAgent = [c \in Calls |-> FALSE]
    /\ idStep = [c \in Calls |-> "account"]
    /\ pendingAccount = [c \in Calls |-> NoCif]
    /\ heardAt = [c \in Calls |-> 0]
    /\ asked = [c \in Calls |-> "NEEDS_INTENT"]
    /\ handling = [c \in Calls |-> "nothing"]
    /\ depth = [c \in Calls |-> 0]

-----------------------------------------------------------------------------
(***************************************************************************)
(* Twilio.                                                                 *)
(***************************************************************************)
Posts(c, w) == inflight' = [inflight EXCEPT ![c] = @ \cup {w}]

serverVars == <<callVars, agentVars, sessionVars, live, handlerVars>>

Dial(c) ==
    /\ line[c] = "idle"
    /\ line' = [line EXCEPT ![c] = "incoming"]
    /\ Posts(c, "incoming")
    /\ \E a \in Reachable \cup {NoCif} : caller' = [caller EXCEPT ![c] = a]
    /\ UNCHANGED <<serverVars, asked>>

\* No answer to the incoming webhook in time, or one that was lost: a retry or a
\* fallback URL posts it a second time. The first is not taken back.
PostAgain(c) ==
    /\ line[c] = "incoming"
    /\ line' = [line EXCEPT ![c] = "again"]
    /\ Posts(c, "again")
    /\ UNCHANGED <<serverVars, asked, caller>>

\* Twilio posts what it gathered, or silence when its timeout has passed.
Post(c) ==
    /\ line[c] = "listening"
    /\ line' = [line EXCEPT ![c] = "gather"]
    /\ Posts(c, "gather")
    /\ UNCHANGED <<serverVars, asked, caller>>

\* The caller hangs up or Twilio gives up, at any time; the status callback goes
\* out, and may be handled before what was posted earlier, or never.
CallEnds(c) ==
    /\ line[c] \notin {"idle", "over"}
    /\ line' = [line EXCEPT ![c] = "over"]
    /\ Posts(c, "status")
    /\ UNCHANGED <<serverVars, asked, caller>>

-----------------------------------------------------------------------------
(***************************************************************************)
(* How a handler answers. Twilio hears it only if it still waits for it.   *)
(***************************************************************************)
\* _gather_response: Twilio asks q and listens.
GatherResponse(c, w, q) ==
    IF line[c] = w
    THEN /\ line' = [line EXCEPT ![c] = "listening"]
         /\ asked' = [asked EXCEPT ![c] = q]
    ELSE UNCHANGED lineVars

\* _hangup_response to a gather, with or without a transfer to the CSR: then the
\* call ends without any further request but the status callback.
HangUp(c) ==
    /\ handling' = [handling EXCEPT ![c] = "nothing"]
    /\ IF line[c] = "gather"
       THEN /\ line' = [line EXCEPT ![c] = "over"]
            /\ inflight' = [inflight EXCEPT ![c] = (@ \ {"gather"}) \cup {"status"}]
       ELSE /\ UNCHANGED line
            /\ inflight' = [inflight EXCEPT ![c] = @ \ {"gather"}]
    /\ UNCHANGED <<asked, caller, depth>>

AskCaller(c, q) ==
    /\ GatherResponse(c, "gather", q)
    /\ inflight' = [inflight EXCEPT ![c] = @ \ {"gather"}]
    /\ handling' = [handling EXCEPT ![c] = "nothing"]
    /\ UNCHANGED <<caller, depth>>

-----------------------------------------------------------------------------
(***************************************************************************)
(* voice_incoming and voice_status.                                        *)
(***************************************************************************)
\* Plausible bug: the new session takes over where the old one was interrupted.
ResumingIncoming(c) ==
    /\ Quiet
    /\ \E w \in Incomings \cap inflight[c] :
          /\ inflight' = [inflight EXCEPT ![c] = @ \ {w}]
          /\ GatherResponse(c, w, "NEEDS_INTENT")
    /\ StartCall(c, caller[c])
    /\ IF live[c] THEN UNCHANGED agentVars ELSE NewRegistry(c)
    /\ live' = [live EXCEPT ![c] = TRUE]
    /\ pendingStatus' = [pendingStatus EXCEPT ![c] = "NEEDS_INTENT"]
    /\ idStep' = [idStep EXCEPT ![c] = "account"]
    /\ UNCHANGED <<activeAgent, pendingAccount, heardAt, handlerVars, caller>>

\* voice_incoming: a new session with a new coordinator and a new registry, in
\* place of the one the call may have.
Incoming(c) ==
    /\ Quiet
    /\ \E w \in Incomings \cap inflight[c] :
          /\ inflight' = [inflight EXCEPT ![c] = @ \ {w}]
          /\ GatherResponse(c, w, "NEEDS_INTENT")
    /\ StartCall(c, caller[c])
    /\ NewRegistry(c)
    /\ live' = [live EXCEPT ![c] = TRUE]
    /\ pendingStatus' = [pendingStatus EXCEPT ![c] = "NEEDS_INTENT"]
    /\ activeAgent' = [activeAgent EXCEPT ![c] = FALSE]
    /\ idStep' = [idStep EXCEPT ![c] = "account"]
    /\ pendingAccount' = [pendingAccount EXCEPT ![c] = NoCif]
    /\ heardAt' = [heardAt EXCEPT ![c] = 0]
    /\ UNCHANGED <<handlerVars, caller>>

\* Plausible bug: a session that an agent or the gate is at work in is kept.
SparingStatusCallback(c) ==
    /\ "status" \in inflight[c] /\ Quiet
    /\ inflight' = [inflight EXCEPT ![c] = @ \ {"status"}]
    /\ live' = [live EXCEPT ![c] = @ /\ (activeAgent[c] \/ activeAuth[c])]
    /\ UNCHANGED <<callVars, agentVars, sessionVars, lineVars, caller, handlerVars>>

\* voice_status: the call is over for Twilio, whatever was said last.
StatusCallback(c) ==
    /\ "status" \in inflight[c] /\ Quiet
    /\ inflight' = [inflight EXCEPT ![c] = @ \ {"status"}]
    /\ live' = [live EXCEPT ![c] = FALSE]
    /\ UNCHANGED <<callVars, agentVars, sessionVars, lineVars, caller, handlerVars>>

-----------------------------------------------------------------------------
(***************************************************************************)
(* voice_gather: the session says which object the answer goes to.         *)
(***************************************************************************)
\* The session is gone: apologise and hang up.
GatherTooLate(c) ==
    /\ ~live[c]
    /\ HangUp(c)
    /\ UNCHANGED <<callVars, agentVars, sessionVars, live>>

\* The answer goes to the object whose reply, r, is rendered next.
DispatchTo(c, r) ==
    /\ handling' = [handling EXCEPT ![c] = r]
    /\ depth' = [depth EXCEPT ![c] = 0]
    /\ UNCHANGED <<live, lineVars, inflight, caller>>

GatherForAgent(c) ==
    /\ live[c] /\ activeAgent[c]
    /\ Answered(c)
    /\ DispatchTo(c, "agent")
    /\ UNCHANGED <<callVars, sessionVars>>

ToCoordinator(c) ==
    /\ DispatchTo(c, "coordinator")
    /\ UNCHANGED <<agentVars, pendingStatus, activeAgent>>

GatherIntent(c) ==
    /\ pendingStatus[c] = "NEEDS_INTENT"
    /\ \E u \in Utterances : SubmitUtterance(c, u)
    /\ ToCoordinator(c)
    /\ UNCHANGED <<idStep, pendingAccount, heardAt>>

GatherMpin(c) ==
    /\ pendingStatus[c] = "NEEDS_MPIN"
    /\ NotHeard(c) \/ \E right \in BOOLEAN : SubmitMpin(c, right)
    /\ Passthrough(c)
    /\ ToCoordinator(c)
    /\ UNCHANGED <<idStep, pendingAccount, heardAt>>

\* "resend" is taken for the word it is, whatever the confidence.
GatherOtp(c) ==
    /\ pendingStatus[c] = "NEEDS_OTP"
    /\ NotHeard(c) \/ RequestOtpResend(c) \/ \E right \in BOOLEAN : SubmitOtp(c, right)
    /\ Passthrough(c)
    /\ ToCoordinator(c)
    /\ UNCHANGED <<idStep, pendingAccount, heardAt>>

\* Plausible bug, once a real one: what was not heard is kept as the account digits.
CarelessGatherAccount(c) ==
    /\ pendingStatus[c] = "NEEDS_IDENTIFICATION" /\ idStep[c] = "account"
    /\ AskCaller(c, "account") \/ AskCaller(c, "card")
    /\ \E k \in Customers \cup {NoCif} :
          /\ idStep' = [idStep EXCEPT ![c] = "card"]
          /\ pendingAccount' = [pendingAccount EXCEPT ![c] = k]
          /\ heardAt' = [heardAt EXCEPT ![c] = idAttempts[c]]
    /\ UNCHANGED <<callVars, agentVars, live, pendingStatus, activeAgent>>

\* The account digits, the first half of the identification: those not heard
\* well are asked for again, and nothing counts how often.
GatherAccount(c) ==
    /\ pendingStatus[c] = "NEEDS_IDENTIFICATION" /\ idStep[c] = "account"
    /\ \/ /\ AskCaller(c, "account")
          /\ UNCHANGED <<idStep, pendingAccount, heardAt>>
       \/ \E k \in Customers \cup {NoCif} :
             /\ AskCaller(c, "card")
             /\ idStep' = [idStep EXCEPT ![c] = "card"]
             /\ pendingAccount' = [pendingAccount EXCEPT ![c] = k]
             /\ heardAt' = [heardAt EXCEPT ![c] = idAttempts[c]]
    /\ UNCHANGED <<callVars, agentVars, live, pendingStatus, activeAgent>>

\* Plausible bug: a card number not heard well keeps nothing, a wrong one keeps all.
StickyGatherCard(c) ==
    /\ pendingStatus[c] = "NEEDS_IDENTIFICATION" /\ idStep[c] = "card"
    /\ \/ NotHeard(c)
       \/ \E k \in Customers \cup {NoCif} :
             SubmitIdentification(c, IF k = pendingAccount[c] THEN k ELSE NoCif)
    /\ Passthrough(c)
    /\ ToCoordinator(c)
    /\ UNCHANGED <<idStep, pendingAccount, heardAt>>

\* The card digits, the second half: both go to submit_identification, which
\* finds a customer only if both are his. A card not heard keeps the account.
GatherCard(c) ==
    /\ pendingStatus[c] = "NEEDS_IDENTIFICATION" /\ idStep[c] = "card"
    /\ \/ NotHeard(c)
       \/ \E k \in Customers \cup {NoCif} :
             SubmitIdentification(c, IF k = pendingAccount[c] THEN k ELSE NoCif)
    /\ Passthrough(c)
    /\ ToCoordinator(c)
    /\ IF reply'[c].status # "NEEDS_REPEAT"
       THEN /\ idStep' = [idStep EXCEPT ![c] = "account"]
            /\ pendingAccount' = [pendingAccount EXCEPT ![c] = NoCif]
       ELSE UNCHANGED <<idStep, pendingAccount>>
    /\ UNCHANGED heardAt

\* Every pendingStatus a live session can have between requests is dispatched:
\* the defensive hangup at the end of the handler is never needed (Dispatchable).
Gather(c) ==
    /\ "gather" \in inflight[c] /\ Quiet
    /\ \/ GatherTooLate(c)
       \/ GatherForAgent(c)
       \/ /\ live[c] /\ ~activeAgent[c]
          /\ \/ GatherIntent(c)
             \/ GatherMpin(c)
             \/ GatherOtp(c)
             \/ GatherAccount(c)
             \/ GatherCard(c)

-----------------------------------------------------------------------------
(***************************************************************************)
(* _render and _render_agent.                                              *)
(***************************************************************************)
EndSession(c) ==
    /\ live' = [live EXCEPT ![c] = FALSE]
    /\ HangUp(c)

RenderHandoff(c) ==
    /\ reply[c].status = "READY_FOR_HANDOFF"
    /\ StartAgent(c, reply[c].intent, reply[c].cif)
    /\ handling' = [handling EXCEPT ![c] = "agent"]
    /\ UNCHANGED <<callVars, sessionVars, live, lineVars, inflight, caller, depth>>

RenderFinal(c) ==
    /\ reply[c].status \in Final
    /\ pendingStatus' = [pendingStatus EXCEPT ![c] = reply[c].status]
    /\ EndSession(c)
    /\ UNCHANGED <<callVars, agentVars, activeAgent, idStep, pendingAccount, heardAt>>

Question == Asking \cup {"NEEDS_INTENT"}

\* What the prompt of a reply asks for; the identification is asked for in two
\* halves, and a request to repeat asks for what was asked before.
Asks(c) ==
    CASE reply[c].status = "NEEDS_REPEAT" -> asked[c]
      [] reply[c].status = "NEEDS_IDENTIFICATION" -> "account"
      [] OTHER -> reply[c].status

\* Plausible bug, once a real one: NEEDS_REPEAT overwrites what is pending.
OverwritingRenderQuestion(c) ==
    /\ reply[c].status \in Question
    /\ pendingStatus' = [pendingStatus EXCEPT ![c] = reply[c].status]
    /\ AskCaller(c, Asks(c))
    /\ UNCHANGED <<callVars, agentVars, live, activeAgent, idStep, pendingAccount, heardAt>>

\* Plausible bug: after NEEDS_REPEAT the next answer is taken for an utterance.
HastyRenderQuestion(c) ==
    /\ reply[c].status \in Question
    /\ pendingStatus' = [pendingStatus EXCEPT ![c] =
           IF reply[c].status = "NEEDS_REPEAT" THEN "NEEDS_INTENT" ELSE reply[c].status]
    /\ AskCaller(c, Asks(c))
    /\ UNCHANGED <<callVars, agentVars, live, activeAgent, idStep, pendingAccount, heardAt>>

\* NEEDS_REPEAT leaves open what was pending.
RenderQuestion(c) ==
    /\ reply[c].status \in Question
    /\ pendingStatus' = [pendingStatus EXCEPT ![c] =
           IF reply[c].status = "NEEDS_REPEAT" THEN @ ELSE reply[c].status]
    /\ AskCaller(c, Asks(c))
    /\ UNCHANGED <<callVars, agentVars, live, activeAgent, idStep, pendingAccount, heardAt>>

\* _render, with its guard against an endless recursion.
Render(c) ==
    /\ handling[c] = "coordinator"
    /\ IF depth[c] > MAX_RENDER_DEPTH
       THEN EndSession(c) /\ UNCHANGED <<callVars, agentVars, sessionVars>>
       ELSE RenderHandoff(c) \/ RenderFinal(c) \/ RenderQuestion(c)

\* An agent's NEED_HANDOFF or ESCALATE goes through the coordinator and back to
\* _render, one level deeper.
RenderDeeper(c) ==
    /\ activeAgent' = [activeAgent EXCEPT ![c] = FALSE]
    /\ handling' = [handling EXCEPT ![c] = "coordinator"]
    /\ depth' = [depth EXCEPT ![c] = @ + 1]
    /\ UNCHANGED <<agentVars, live, lineVars, inflight, caller, pendingStatus, idStep, pendingAccount, heardAt>>

RenderAgent(c) ==
    /\ handling[c] = "agent"
    /\ \/ /\ agentReply[c].status = "COMPLETED"
          /\ MarkTaskCompleted(c)
          /\ activeAgent' = [activeAgent EXCEPT ![c] = FALSE]
          /\ pendingStatus' = [pendingStatus EXCEPT ![c] = reply'[c].status]
          /\ AskCaller(c, reply'[c].status)
          /\ UNCHANGED <<agentVars, live, idStep, pendingAccount, heardAt>>
       \/ /\ agentReply[c].status = "NEEDS_INPUT"
          /\ activeAgent' = [activeAgent EXCEPT ![c] = TRUE]
          /\ AskCaller(c, agent[c].stage)
          /\ UNCHANGED <<callVars, agentVars, live, pendingStatus, idStep, pendingAccount, heardAt>>
       \/ /\ agentReply[c].status = "NEED_HANDOFF"
          /\ RouteIntent(c, agentReply[c].intent)
          /\ RenderDeeper(c)
       \/ /\ agentReply[c].status = "ESCALATE"
          /\ EscalateFromAgent(c)
          /\ RenderDeeper(c)

-----------------------------------------------------------------------------
TelephonyNext ==
    \E c \in Calls :
        \/ Dial(c)
        \/ PostAgain(c)
        \/ Post(c)
        \/ CallEnds(c)
        \/ Incoming(c)
        \/ StatusCallback(c)
        \/ Gather(c)
        \/ Render(c)
        \/ RenderAgent(c)
        \/ Expire(c) /\ UNCHANGED <<bankVars, flowVars, coordinatorVars, agentVars,
                                    sessionVars, live, lineVars, inflight, caller, handlerVars>>

TelephonySpec == TelephonyInit /\ [][TelephonyNext]_telephonyVars

\* Twilio posts every gather, silence included, and the event loop runs. Nothing is
\* assumed of the status callback: it need not be configured.
FairTelephonySpec ==
    /\ TelephonySpec
    /\ \A c \in Calls : WF_telephonyVars(Post(c))
    /\ \A c \in Calls : WF_telephonyVars(Gather(c))
    /\ \A c \in Calls : WF_telephonyVars(Render(c))
    /\ \A c \in Calls : WF_telephonyVars(RenderAgent(c))

-----------------------------------------------------------------------------
(***************************************************************************)
(* Properties.                                                             *)
(***************************************************************************)
\* Between requests, what the session says is pending is what the object behind
\* it waits for: a factor goes to an AuthFlow in a stage that takes it, an
\* answer for an agent to one that asked, an utterance to a coordinator that
\* asked for it. So no answer, however it follows low confidence, handoffs, step
\* ups, a late callback or a repeated incoming webhook, meets a RuntimeError or
\* the fallback hangup.
Dispatchable ==
    \A c \in Calls : live[c] /\ handling[c] = "nothing" =>
        IF activeAgent[c]
        THEN agent[c].stage # "DONE" /\ ~activeAuth[c]
        ELSE /\ pendingStatus[c] \in FactorStatuses \cup {"NEEDS_INTENT"}
             /\ pendingStatus[c] = "NEEDS_INTENT" => reply[c].status = "NEEDS_INTENT" /\ ~activeAuth[c]
             /\ pendingStatus[c] # "NEEDS_INTENT" => activeAuth[c]
             /\ pendingStatus[c] = "NEEDS_MPIN" => stage[c] \in MpinStages
             /\ pendingStatus[c] = "NEEDS_OTP" => stage[c] \in OtpStages
             /\ pendingStatus[c] = "NEEDS_IDENTIFICATION" => stage[c] = "AWAITING_IDENTIFICATION"

\* The two halves of an identification belong together: the account digits that
\* a card number completes were heard in the same attempt, and no attempt begins
\* in the middle (app.py 290-319).
PairIsOfOneAttempt ==
    \A c \in Calls : live[c] /\ idStep[c] = "card" /\ handling[c] = "nothing" =>
        pendingStatus[c] = "NEEDS_IDENTIFICATION" /\ heardAt[c] = idAttempts[c]

\* What the session takes the next answer for.
Expected(c) ==
    IF activeAgent[c] THEN agent[c].stage
    ELSE IF pendingStatus[c] = "NEEDS_IDENTIFICATION" THEN idStep[c]
    ELSE pendingStatus[c]

\* An answer is taken for what the caller was asked: an MPIN, a code, an account
\* number or a yes given to one question is never counted as the answer to
\* another, whatever was asked again, lost or answered late. The one exception is
\* a call whose incoming webhook was handled a second time: its session is back
\* at the greeting, and takes what comes for an utterance.
AnswersMeetQuestions ==
    \A c \in Calls :
        live[c] /\ handling[c] = "nothing" /\ (line[c] = "listening" \/ "gather" \in inflight[c]) =>
            \/ Expected(c) = asked[c]
            \/ Expected(c) = "NEEDS_INTENT" /\ capture[c] = Greeting

\* A handoff takes at most two renderings, so the recursion guard, which drops
\* the call in the middle of a task, is never what ends it.
RecursionIsShallow == \A c \in Calls : depth[c] <= 1

\* A session can outlive its call, if the incoming webhook was handled after the
\* status callback, and then stays in the store; but nobody's identity does: once
\* all requests of a call that is over have been handled, it has no session, or
\* one in which nobody was authenticated and no agent is at work.
OrphansKnowNobody ==
    \A c \in Calls : line[c] = "over" /\ inflight[c] = {} /\ live[c] =>
        /\ \A g \in grants[c] : g[2] = 0
        /\ ~activeAgent[c]
        /\ requests[c] = <<>>

\* End to end, the service keeps the promise of CallPolicy: nothing is filed but an
\* offer that was put to the caller in this session and still stands, once, within
\* the limit, for a customer whom the gate has trusted enough before the offer was
\* made and ever since; and when the session has ended nothing is done any more.
Standing(c) ==
    IF agent[c].stage \in {"AWAITING_ADDRESS_CONFIRMATION", "AWAITING_TOOL_CONFIRMATION"}
    THEN proposal[c] ELSE NoRequest

Promise == INSTANCE CallPolicy WITH
    Offers <- {r \in Requests : r.kind \in Intents}, NoOffer <- NoRequest, MAX_FILED <- MAX_SERVICE_REQUESTS_PER_CALL,
    open <- live, trust <- grants, filed <- requests, offer <- [c \in Calls |-> Standing(c)]

ImplementsCallPolicy == Promise!PolicySpec

\* The webhooks drive the coordinator and the agents only as their own
\* specifications allow, so what those show holds of the composition: an
\* utterance only for a coordinator that asked, an agent's result only from the
\* agent that was handed the call, one agent at a time and none after it escalated.
DrivesCoordinator == CallSpec
DrivesAgents == AgentsSpec

\* The MPIN and the codes are not asked for without end: a call that goes on stops
\* waiting for them, whatever is said and however it is heard. (While an agent
\* has the call, the factor asked for last stays in pending_status, unused.)
SecretsConclude ==
    \A c \in Calls :
        live[c] /\ pendingStatus[c] \in {"NEEDS_MPIN", "NEEDS_OTP"}
            ~> line[c] = "over" \/ ~live[c] \/ activeAgent[c] \/ pendingStatus[c] = "NEEDS_INTENT"

\* Claimed by authentication-flow.md 7: "Cap soft reprompts too (e.g. 2) so a
\* persistently low-confidence line still escalates rather than looping". An
\* identification that is asked for is eventually concluded or the call ended.
IdentificationConcludes ==
    \A c \in Calls :
        live[c] /\ pendingStatus[c] = "NEEDS_IDENTIFICATION"
            ~> line[c] = "over" \/ ~live[c] \/ pendingStatus[c] # "NEEDS_IDENTIFICATION"

\* Claimed by authentication-flow.md 8: "Explicit caller request ("agent",
\* "representative", 0) - global command, valid at any state". An answer that
\* holds the command escalates, whatever else it holds: one to an agent that asked
\* (agent-architecture.md 4: the shared check "Must run first, every turn"), and an
\* utterance to the coordinator, after "anything else?" as well.
EscalationIsHeard ==
    [][\A c \in Calls : "gather" \in inflight[c] /\ handling[c] = "nothing" /\ handling'[c] # "nothing" =>
          /\ \A s \in AgentInputs :
                s.caught /\ s.command = "ESCALATE_TO_CSR" /\ activeAgent[c] /\ SubmitInput(c, s)
                    => agentReply'[c].status = "ESCALATE"
          /\ \A u \in Utterances :
                u.command = "ESCALATE_TO_CSR" /\ handling'[c] = "coordinator"
                    /\ pendingStatus[c] = "NEEDS_INTENT" /\ SubmitUtterance(c, u)
                    => reply'[c].status = "ESCALATED"]_telephonyVars
=============================================================================
