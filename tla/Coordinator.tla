------------------------------ MODULE Coordinator ------------------------------
(***************************************************************************)
(* coordinator/flow.py: greeting and intent capture, the tier check, the   *)
(* authentication gate, handoff, escalation and the end of a call. Each    *)
(* call has one CoordinatorFlow; it owns the AuthFlow of the module it     *)
(* extends and is driven by a telephony or CLI layer, and told by it what  *)
(* a domain agent returned. An utterance is abstracted to what the code    *)
(* asks of it: heard with confidence, "no thanks", a global command, and   *)
(* the intent the classifier gives. _handoff_history is written and never  *)
(* read; prompts other than _last_intent_prompt carry no state.            *)
(***************************************************************************)
EXTENDS AuthFlow, IntentCatalog

CONSTANTS
    INTENT_NO_MATCH_MAX,
    INTENT_SOFT_REPROMPT_MAX

ASSUME CaptureAssumption ==
    /\ INTENT_NO_MATCH_MAX \in Nat \ {0}
    /\ INTENT_SOFT_REPROMPT_MAX \in Nat

VARIABLES
    ani,                  \* _ani, as the customer it resolves to or NoCif
    callerCif,            \* _cif
    tierAchieved,         \* _tier_achieved
    activeAuth,           \* _auth is not None
    pendingIntent,        \* _pending_intent_id
    capture,              \* _last_intent_prompt, _intent_no_match_count, _intent_soft_reprompts
    reply,                \* the CoordinatorState last returned
    grants                \* ghost: <<customer, tier>> the gate granted since the last start over

session == <<callerCif, tierAchieved, grants>>
coordinatorVars == <<ani, session, activeAuth, pendingIntent, capture, reply>>
callVars == <<vars, coordinatorVars>>

Prompts == {"GREETING", "ANYTHING_ELSE", "NO_MATCH", "LOW_CONFIDENCE"}
EscalationReasons == {"EXPLICIT_REQUEST", "INTENT_NOT_UNDERSTOOD", "AUTH_ESCALATED", "AGENT_ESCALATED"}

\* The classifier is asked only about a confident utterance without a command,
\* and "no thanks" is looked for only in a confident one.
Utterances ==
    {u \in [confident : BOOLEAN, done : BOOLEAN, command : Commands, intent : Intents \cup {NoIntent}] :
        /\ u.intent # NoIntent => u.command = "NONE" /\ u.confident
        /\ u.done => u.confident}

\* The call is over for the coordinator; "NONE": there has been none yet.
Final == {"ESCALATED", "CALL_ENDED"}
ReplyStatuses == Asking \cup Final \cup {"NONE", "NEEDS_INTENT", "READY_FOR_HANDOFF"}

Captures == [prompt : Prompts, noMatch : Nat, soft : Nat]
Replies == [status : ReplyStatuses, intent : Intents \cup {NoIntent},
            tier : Tiers \cup {NoTier}, cif : Customers \cup {NoCif},
            reason : EscalationReasons \cup {NoReason}]

CoordinatorTypeOK ==
    /\ ani \in [Calls -> Customers \cup {NoCif}]
    /\ callerCif \in [Calls -> Customers \cup {NoCif}]
    /\ tierAchieved \in [Calls -> Tiers \cup {NoTier}]
    /\ activeAuth \in [Calls -> BOOLEAN]
    /\ pendingIntent \in [Calls -> Intents \cup {NoIntent}]
    /\ capture \in [Calls -> Captures]
    /\ reply \in [Calls -> Replies]
    /\ grants \in [Calls -> SUBSET ((Customers \cup {NoCif}) \X Tiers)]

Greeting == [prompt |-> "GREETING", noMatch |-> 0, soft |-> 0]

Answer(st, i, t, k, r) == [status |-> st, intent |-> i, tier |-> t, cif |-> k, reason |-> r]

CoordinatorInit ==
    /\ ani = [c \in Calls |-> NoCif]
    /\ callerCif = [c \in Calls |-> NoCif]
    /\ tierAchieved = [c \in Calls |-> NoTier]
    /\ activeAuth = [c \in Calls |-> FALSE]
    /\ pendingIntent = [c \in Calls |-> NoIntent]
    /\ capture = [c \in Calls |-> Greeting]
    /\ reply = [c \in Calls |-> Answer("NONE", NoIntent, NoTier, NoCif, NoReason)]
    /\ grants = [c \in Calls |-> {}]

-----------------------------------------------------------------------------
(***************************************************************************)
(* The ways a turn of the coordinator ends.                                *)
(***************************************************************************)
Reply(c, st, i, t, k, r) == reply' = [reply EXCEPT ![c] = Answer(st, i, t, k, r)]

\* _to_intent_capture: n and s are the counts it leaves.
ToIntentCapture(c, p, n, s) ==
    /\ capture' = [capture EXCEPT ![c] = [prompt |-> p, noMatch |-> n, soft |-> s]]
    /\ Reply(c, "NEEDS_INTENT", NoIntent, tierAchieved'[c], callerCif[c], NoReason)

\* Plausible bug: the AuthFlow is kept when the call is escalated.
LingeringEscalateCall(c, r) ==
    /\ UNCHANGED activeAuth
    /\ Reply(c, "ESCALATED", NoIntent, tierAchieved[c], callerCif[c], r)

\* _escalate
EscalateCall(c, r) ==
    /\ activeAuth' = [activeAuth EXCEPT ![c] = FALSE]
    /\ Reply(c, "ESCALATED", NoIntent, tierAchieved[c], callerCif[c], r)

\* _end_call
EndCall(c) ==
    /\ activeAuth' = [activeAuth EXCEPT ![c] = FALSE]
    /\ Reply(c, "CALL_ENDED", NoIntent, tierAchieved[c], callerCif[c], NoReason)

\* Plausible bug: the flow's own status is passed on instead of the coordinator's.
UncastHandoff(c, i) ==
    /\ activeAuth' = [activeAuth EXCEPT ![c] = FALSE]
    /\ Reply(c, status'[c], i, tierAchieved'[c], callerCif'[c], NoReason)

\* _handoff: the agent gets the caller the coordinator has on record.
Handoff(c, i) ==
    /\ activeAuth' = [activeAuth EXCEPT ![c] = FALSE]
    /\ Reply(c, "READY_FOR_HANDOFF", i, tierAchieved'[c], callerCif'[c], NoReason)

Granting == {"AUTHENTICATED", "NO_AUTH_REQUIRED"}

\* Plausible bug: the caller on record is whom the number belongs to.
ForgetfulGranted(c, i) ==
    /\ tierAchieved' = [tierAchieved EXCEPT ![c] = tier'[c]]
    /\ callerCif' = [callerCif EXCEPT ![c] = ani[c]]
    /\ grants' = [grants EXCEPT ![c] = @ \cup {<<cif'[c], tier'[c]>>}]
    /\ Handoff(c, i)

\* The flow let the caller through.
Granted(c, i) ==
    /\ tierAchieved' = [tierAchieved EXCEPT ![c] = tier'[c]]
    /\ callerCif' = [callerCif EXCEPT ![c] = cif'[c]]
    /\ grants' = [grants EXCEPT ![c] = @ \cup {<<cif'[c], tier'[c]>>}]
    /\ Handoff(c, i)

\* _from_auth_state: what the flow has just answered, turned into a reply.
FromAuthState(c, i) ==
    \/ /\ status'[c] \in Granting
       /\ Granted(c, i)
    \/ /\ status'[c] = "ESCALATED"
       /\ EscalateCall(c, "AUTH_ESCALATED")
       /\ UNCHANGED session
    \/ /\ status'[c] \in Asking
       /\ activeAuth' = [activeAuth EXCEPT ![c] = TRUE]
       /\ Reply(c, status'[c], i, tierAchieved[c], cif'[c], NoReason)
       /\ UNCHANGED session

\* Plausible bug: any achieved tier opens the gate.
CarelessRoute(c, i) ==
    /\ pendingIntent' = [pendingIntent EXCEPT ![c] = i]
    /\ IF tierAchieved[c] # NoTier
       THEN /\ UNCHANGED <<vars, session>>
            /\ Handoff(c, i)
       ELSE Start(c, ani[c], TierOf[i]) /\ FromAuthState(c, i)

\* _route: a tier already achieved in this call opens the gate (NoTier is below
\* every tier); otherwise a fresh AuthFlow does.
Route(c, i) ==
    /\ pendingIntent' = [pendingIntent EXCEPT ![c] = i]
    /\ IF tierAchieved[c] >= TierOf[i]
       THEN /\ UNCHANGED <<vars, session>>
            /\ Handoff(c, i)
       ELSE Start(c, ani[c], TierOf[i]) /\ FromAuthState(c, i)

-----------------------------------------------------------------------------
(***************************************************************************)
(* The operations.                                                         *)
(***************************************************************************)
\* A new CoordinatorFlow and its start(ani).
StartCall(c, a) ==
    /\ ani' = [ani EXCEPT ![c] = a]
    /\ callerCif' = [callerCif EXCEPT ![c] = NoCif]
    /\ tierAchieved' = [tierAchieved EXCEPT ![c] = NoTier]
    /\ grants' = [grants EXCEPT ![c] = {}]
    /\ activeAuth' = [activeAuth EXCEPT ![c] = FALSE]
    /\ pendingIntent' = [pendingIntent EXCEPT ![c] = NoIntent]
    /\ capture' = [capture EXCEPT ![c] = Greeting]
    /\ Reply(c, "NEEDS_INTENT", NoIntent, NoTier, NoCif, NoReason)
    /\ UNCHANGED vars

\* "No thanks", heard well, right after the caller was asked for anything else.
Finished(c, u) == capture[c].prompt = "ANYTHING_ELSE" /\ u.confident /\ u.done

\* Global commands are obeyed whatever the confidence; "start over" forgets the
\* tier but keeps the caller.
ObeyCommand(c, u) ==
    \/ /\ u.command = "ESCALATE_TO_CSR"
       /\ EscalateCall(c, "EXPLICIT_REQUEST")
       /\ UNCHANGED <<session, capture>>
    \/ /\ u.command = "START_OVER"
       /\ tierAchieved' = [tierAchieved EXCEPT ![c] = NoTier]
       /\ grants' = [grants EXCEPT ![c] = {}]
       /\ ToIntentCapture(c, "GREETING", 0, 0)
       /\ UNCHANGED <<callerCif, activeAuth>>
    \/ /\ u.command = "REPEAT"
       /\ UNCHANGED <<session, activeAuth>>
       /\ ToIntentCapture(c, capture[c].prompt, capture[c].noMatch, capture[c].soft)

\* Plausible bug: each reprompt counts anew, as _to_intent_capture does by default.
RecountingNotUnderstood(c, u) ==
    LET noMatch == capture[c].noMatch + 1
        softly == capture[c].soft + 1
    IN
    /\ u.command = "NONE"
    /\ UNCHANGED session
    /\ \/ /\ ~u.confident
          /\ IF softly > INTENT_SOFT_REPROMPT_MAX
             THEN /\ EscalateCall(c, "INTENT_NOT_UNDERSTOOD")
                  /\ capture' = [capture EXCEPT ![c].soft = softly]
             ELSE /\ ToIntentCapture(c, "LOW_CONFIDENCE", 0, 0)
                  /\ UNCHANGED activeAuth
       \/ /\ u.confident /\ u.intent = NoIntent
          /\ IF noMatch >= INTENT_NO_MATCH_MAX
             THEN /\ EscalateCall(c, "INTENT_NOT_UNDERSTOOD")
                  /\ capture' = [capture EXCEPT ![c].noMatch = noMatch]
             ELSE /\ ToIntentCapture(c, "NO_MATCH", 0, 0)
                  /\ UNCHANGED activeAuth

\* Not heard well enough, or no intent of the catalog in it.
NotUnderstood(c, u) ==
    LET noMatch == capture[c].noMatch + 1
        softly == capture[c].soft + 1
    IN
    /\ u.command = "NONE"
    /\ UNCHANGED session
    /\ \/ /\ ~u.confident
          /\ IF softly > INTENT_SOFT_REPROMPT_MAX
             THEN /\ EscalateCall(c, "INTENT_NOT_UNDERSTOOD")
                  /\ capture' = [capture EXCEPT ![c].soft = softly]
             ELSE /\ ToIntentCapture(c, "LOW_CONFIDENCE", capture[c].noMatch, softly)
                  /\ UNCHANGED activeAuth
       \/ /\ u.confident /\ u.intent = NoIntent
          /\ IF noMatch >= INTENT_NO_MATCH_MAX
             THEN /\ EscalateCall(c, "INTENT_NOT_UNDERSTOOD")
                  /\ capture' = [capture EXCEPT ![c].noMatch = noMatch]
             ELSE /\ ToIntentCapture(c, "NO_MATCH", noMatch, capture[c].soft)
                  /\ UNCHANGED activeAuth

\* An intent of the catalog: the counts start again and the gate decides.
Understood(c, u) ==
    /\ u.command = "NONE" /\ u.confident /\ u.intent # NoIntent
    /\ capture' = [capture EXCEPT ![c].noMatch = 0, ![c].soft = 0]
    /\ Route(c, u.intent)

SubmitUtterance(c, u) ==
    /\ \/ /\ Finished(c, u)
          /\ EndCall(c)
          /\ UNCHANGED <<vars, session, pendingIntent, capture>>
       \/ /\ ~Finished(c, u)
          /\ ObeyCommand(c, u) \/ NotUnderstood(c, u)
          /\ UNCHANGED <<vars, pendingIntent>>
       \/ /\ ~Finished(c, u)
          /\ Understood(c, u)
    /\ UNCHANGED ani

\* submit_identification, submit_mpin, submit_otp and request_otp_resend pass
\* the AuthFlow's answer on; without an AuthFlow they raise.
Passthrough(c) ==
    /\ activeAuth[c]
    /\ FromAuthState(c, pendingIntent[c])
    /\ UNCHANGED <<ani, pendingIntent, capture>>

SubmitFactor(c) == Turn(c) /\ Passthrough(c)

\* Plausible bug: the achieved tier is dropped together with the flow.
ForgettingMarkTaskCompleted(c) ==
    /\ activeAuth' = [activeAuth EXCEPT ![c] = FALSE]
    /\ tierAchieved' = [tierAchieved EXCEPT ![c] = NoTier]
    /\ ToIntentCapture(c, "ANYTHING_ELSE", 0, 0)
    /\ UNCHANGED <<vars, ani, callerCif, grants, pendingIntent>>

\* mark_task_completed: the domain agent returned COMPLETED.
MarkTaskCompleted(c) ==
    /\ activeAuth' = [activeAuth EXCEPT ![c] = FALSE]
    /\ UNCHANGED session
    /\ ToIntentCapture(c, "ANYTHING_ELSE", 0, 0)
    /\ UNCHANGED <<vars, ani, pendingIntent>>

\* route_intent: the domain agent returned NEED_HANDOFF.
RouteIntent(c, i) == Route(c, i) /\ UNCHANGED <<ani, capture>>

\* Plausible bug: an agent that gave up counts as one that finished.
ForgivingEscalateFromAgent(c) == MarkTaskCompleted(c)

\* escalate_from_agent: the domain agent returned ESCALATE.
EscalateFromAgent(c) ==
    /\ EscalateCall(c, "AGENT_ESCALATED")
    /\ UNCHANGED <<vars, ani, session, pendingIntent, capture>>

-----------------------------------------------------------------------------
\* The caller answers the coordinator, which is asking what to do.
Speak(c) == reply[c].status = "NEEDS_INTENT" /\ \E u \in Utterances : SubmitUtterance(c, u)

\* The domain agent that was handed the call gives it back.
AgentReturns(c) ==
    /\ reply[c].status = "READY_FOR_HANDOFF"
    /\ \/ MarkTaskCompleted(c)
       \/ \E i \in Intents \ {reply[c].intent} : RouteIntent(c, i)
       \/ EscalateFromAgent(c)

\* A caller may hang up, and a new call begin, at any time.
CallInit == Init /\ CoordinatorInit

CallNext ==
    \E c \in Calls :
        \/ \E a \in Reachable \cup {NoCif} : StartCall(c, a)
        \/ Speak(c)
        \/ SubmitFactor(c)
        \/ AgentReturns(c)
        \/ Expire(c) /\ UNCHANGED <<bankVars, flowVars, coordinatorVars>>

CallSpec == CallInit /\ [][CallNext]_callVars

\* A caller who is asked something answers, or his silence is posted as an answer.
FairCallSpec ==
    /\ CallSpec
    /\ \A c \in Calls : WF_callVars(SubmitFactor(c)) /\ WF_callVars(Speak(c))

-----------------------------------------------------------------------------
(***************************************************************************)
(* Properties.                                                             *)
(***************************************************************************)
\* A call is handed to a domain agent only for a caller whom the gate has let
\* through at the tier of the intent, in this call, after the last "start over";
\* the reported tier and caller are those of that grant, however many agents,
\* topic switches and step-ups lie in between (flow.py 155-165, 206-237).
HandoffEarned ==
    \A c \in Calls : reply[c].status = "READY_FOR_HANDOFF" =>
        /\ reply[c].tier >= TierOf[reply[c].intent]
        /\ <<reply[c].cif, reply[c].tier>> \in grants[c]

\* The flow object is there exactly while the caller is being asked for a factor
\* and the flow itself still waits for one, so no passthrough can raise
\* RuntimeError and no factor can reach a flow that is done.
ActiveAuthMatches ==
    \A c \in Calls :
        /\ activeAuth[c] <=> reply[c].status \in Asking
        /\ activeAuth[c] => stage[c] # "DONE"

\* The gate works only for more than the caller has been granted before: of all grants
\* since the call began or started over, to whomever, whatever agents, topic switches,
\* failures and repeats came after them, none reaches the tier that the flow now
\* open was started for (flow.py 155-165, 187-198, 206-210). It is not that nobody
\* says a factor twice: for a higher tier all of them are asked for again, which the
\* code owns to (flow.py 18-25).
ChallengedForMore ==
    \A c \in Calls : activeAuth[c] => \A g \in grants[c] : g[2] < tierRequired[c]

\* The call is back at the greeting: it has just begun, or started over.
Greeted(c) == reply[c].status = "NEEDS_INTENT" /\ capture[c] = Greeting /\ tierAchieved[c] = NoTier

\* Once a caller has been granted a tier, only a new call or his own "start over"
\* takes it away, and the customer on record changes only together with a higher
\* tier: no failed step-up, topic switch or repeat swaps the caller under a tier
\* he keeps (flow.py 130, 165, 207-209).
TierSurvives ==
    [][\A c \in Calls : ~Greeted(c)' =>
          /\ tierAchieved'[c] >= tierAchieved[c]
          /\ callerCif'[c] # callerCif[c] => tierAchieved'[c] > tierAchieved[c]]_callVars

\* The gate does not swallow a call: asking for factors comes to an end (and
\* ActiveAuthMatches says with what).
GateDecides == \A c \in Calls : activeAuth[c] ~> ~activeAuth[c]

\* The question what the caller wants is not asked for ever: an utterance that is
\* not understood, for want of confidence or of an intent, in any mixture, brings
\* the call nearer to a CSR (flow.py 136-147). Only one who goes back to
\* the greeting again and again can prolong it, or one who says nothing but
\* "repeat": that changes nothing, and fairness assumes that he says more.
IntentCaptureConcludes ==
    \A c \in Calls :
        \/ []<><<Greeted(c)'>>_callVars
        \/ reply[c].status = "NEEDS_INTENT" ~> reply[c].status # "NEEDS_INTENT"

\* Claimed by authentication-flow.md 8: "Context handed to CSR on escalation: CIF
\* (if resolved)". When the gate escalates, the reply names the customer the flow
\* had resolved.
CsrKnowsCaller ==
    \A c \in Calls : reply[c].reason = "AUTH_ESCALATED" => reply[c].cif = cif[c]
=============================================================================
