---------------------------- MODULE CallCliProofs ----------------------------
(***************************************************************************)
(* Theorems about CallCli: the terminal harness, up to the step where it   *)
(* raises, drives coordinator and agents as their own specifications       *)
(* allow, so that what is proved of those holds of it too.                 *)
(***************************************************************************)
EXTENDS CallCli, CoordinatorProofs, DomainAgentsProofs

-----------------------------------------------------------------------------
(***************************************************************************)
(* The inductive invariant, one call at a time.                            *)
(***************************************************************************)
\* While drive_agent is in its loop, its agent serves the customer and intent of the
\* handoff that the coordinator still waits for; otherwise no agent is at work, and
\* one that gave up has been reported.
ServingInv(c) ==
    /\ driving[c] =>
          /\ running[c] /\ reply[c].status = "READY_FOR_HANDOFF"
          /\ agent[c].intent = reply[c].intent /\ agent[c].cif = reply[c].cif
          /\ agentReply[c].status = "NEED_HANDOFF" => agentReply[c].intent \in Intents \ {agent[c].intent}
    /\ ~driving[c] =>
          /\ agent[c].stage = "DONE"
          /\ running[c] /\ agentReply[c].status = "ESCALATE" => reply[c].status = "ESCALATED"

\* The harness has raised only on a request to repeat.
RaisedInv(c) == crashed[c] => ~running[c] /\ reply[c].status = "NEEDS_REPEAT"

HarnessInv(c) == Follows(c) /\ Named(c) /\ ServingInv(c) /\ RaisedInv(c)

LoopTypeOK ==
    /\ running \in [Calls -> BOOLEAN]
    /\ crashed \in [Calls -> BOOLEAN]
    /\ driving \in [Calls -> BOOLEAN]

CliIInv == CallIInv /\ AgentsIInv /\ LoopTypeOK /\ \A c \in Calls : HarnessInv(c)

SameLoop(d) == running'[d] = running[d] /\ crashed'[d] = crashed[d] /\ driving'[d] = driving[d]

\* What is to be shown of each turn of a loop: it drives coordinator and agents as they
\* allow, for one call, and establishes that call's invariant.
LoopWritten(c) == LoopTypeOK' /\ \A d \in Calls : d # c => SameLoop(d)

Driven(c) ==
    /\ CallStep(c) \/ UNCHANGED callVars
    /\ AgentStep(c) \/ UNCHANGED agentVars

Stepped(c) == Driven(c) /\ LoopWritten(c) /\ HarnessInv(c)'

\* A call of which nothing changes keeps its invariant.
LEMMA SameHarnessInv ==
    ASSUME NEW d \in Calls, HarnessInv(d), Kept(d), Untouched(d), SameAgent(d), SameLoop(d)
    PROVE  HarnessInv(d)'
<1>1. Follows(d)' /\ Named(d)'
  BY DEF HarnessInv, Follows, Named, Kept, Untouched
<1>2. ServingInv(d)'
  BY DEF HarnessInv, ServingInv, Kept, SameAgent, SameLoop
<1>3. RaisedInv(d)'
  BY DEF HarnessInv, RaisedInv, Kept, SameLoop
<1> QED BY <1>1, <1>2, <1>3 DEF HarnessInv

\* A turn for one call keeps the invariant of all.
LEMMA SteppedInv ==
    ASSUME CliIInv, NEW c \in Calls, Stepped(c)
    PROVE  CliIInv'
<1>1. /\ CallIInv /\ AgentsIInv /\ Driven(c) /\ LoopWritten(c) /\ HarnessInv(c)'
      /\ \A d \in Calls : HarnessInv(d)
  BY DEF CliIInv, Stepped
<1>2. /\ CallIInv' /\ AgentsIInv'
      /\ \A d \in Calls : d # c => Kept(d) /\ Untouched(d) /\ SameAgent(d)
  BY <1>1, CallFrame, AgentFrame DEF Driven
<1>3. \A d \in Calls : d # c => HarnessInv(d)'
  BY <1>1, <1>2, SameHarnessInv DEF LoopWritten
<1> QED BY <1>1, <1>2, <1>3 DEF CliIInv, LoopWritten

\* The loops of nobody turn.
LEMMA LoopsStay ==
    ASSUME LoopTypeOK, NEW c \in Calls, UNCHANGED <<running, crashed, driving>>
    PROVE  LoopWritten(c) /\ SameLoop(c)
BY DEF LoopTypeOK, LoopWritten, SameLoop

-----------------------------------------------------------------------------
(***************************************************************************)
(* The turns of the loops.                                                 *)
(***************************************************************************)
\* A new call has a fresh coordinator and registry, whatever became of the one before.
LEMMA RunCallStepped ==
    ASSUME CliIInv, NEW c \in Calls, RunCall(c)
    PROVE  Stepped(c)
<1>1. CoordinatorTypeOK /\ AgentsTypeOK /\ LoopTypeOK /\ ServingInv(c)
  BY DEF CliIInv, HarnessInv, CallIInv, AgentsIInv
<1>2. PICK a \in Reachable \cup {NoCif} : StartCall(c, a)
  BY DEF RunCall
<1>3. Driven(c)
  BY <1>2 DEF RunCall, Driven, CallStep, AgentStep
<1>4. /\ running' = [running EXCEPT ![c] = TRUE] /\ UNCHANGED <<crashed, driving>>
      /\ ~running[c] /\ ~crashed[c] /\ NewRegistry(c)
  BY DEF RunCall
<1>5. LoopWritten(c)
  BY <1>1, <1>4, Zenon DEF LoopTypeOK, LoopWritten, SameLoop
<1>6. ~driving'[c] /\ ~crashed'[c]
  BY <1>1, <1>4 DEF ServingInv
<1>7. /\ reply'[c].status = "NEEDS_INTENT" /\ ~activeAuth'[c] /\ grants'[c] = {}
      /\ agent'[c].stage = "DONE" /\ agentReply'[c].status = "NONE"
  BY <1>1, <1>2, <1>4, StartCallSays, RegistrySays
<1>8. HarnessInv(c)'
  BY <1>6, <1>7 DEF HarnessInv, Follows, Named, ServingInv, RaisedInv
<1> QED BY <1>3, <1>5, <1>8 DEF Stepped

\* Where the coordinator asks, no agent is at work and none has given up.
LEMMA AskedAlone ==
    ASSUME CliIInv, NEW c \in Calls, running[c], reply[c].status \in Asking \cup {"NEEDS_INTENT"}
    PROVE  /\ ~driving[c] /\ ~crashed[c]
           /\ agent[c].stage = "DONE" /\ agentReply[c].status # "ESCALATE"
BY DEF CliIInv, HarnessInv, ServingInv, RaisedInv, Asking

\* An answer typed for the coordinator, to whichever of its questions.
LEMMA TypedStepped ==
    ASSUME CliIInv, NEW c \in Calls, running[c], TypeFactor(c) \/ TypeUtterance(c)
    PROVE  Stepped(c)
<1>1. /\ CallIInv /\ LoopTypeOK /\ Follows(c) /\ Named(c)
      /\ UNCHANGED agentVars /\ UNCHANGED <<running, crashed, driving>>
  BY DEF CliIInv, HarnessInv, TypeFactor, TypeUtterance
<1>2. SubmitFactor(c) \/ Speak(c)
  BY DEF TypeFactor, TypeUtterance, Speak
<1>3. /\ ~driving[c] /\ ~crashed[c]
      /\ agent[c].stage = "DONE" /\ agentReply[c].status # "ESCALATE"
  BY AskedAlone DEF TypeFactor, TypeUtterance
<1>4. Driven(c)
  BY <1>1, <1>2 DEF Driven, CallStep
<1>5. CallIInv'
  BY <1>1, <1>4, CallFrame DEF Driven
<1>6. Follows(c)' /\ Named(c)'
  BY <1>1, <1>2, <1>5, FactorReplies, SpeechReplies, ServedAssumption
<1>7. HarnessInv(c)'
  BY <1>1, <1>3, <1>6 DEF agentVars, HarnessInv, ServingInv, RaisedInv
<1> QED BY <1>1, <1>4, <1>7, LoopsStay DEF Stepped

\* The agent of a handoff gets a customer with a name, and an intent of the catalog.
LEMMA CreateStepped ==
    ASSUME CliIInv, NEW c \in Calls, running[c], CreateAndStart(c)
    PROVE  Stepped(c)
<1>1. /\ CoordinatorTypeOK /\ AgentsTypeOK /\ LoopTypeOK
      /\ GrantInv(c) /\ Follows(c) /\ Named(c) /\ ServingInv(c) /\ RaisedInv(c)
  BY DEF CliIInv, HarnessInv, CallIInv, SessionInv, AgentsIInv
<1>2. /\ reply[c].status = "READY_FOR_HANDOFF" /\ ~driving[c]
      /\ StartAgent(c, reply[c].intent, reply[c].cif)
      /\ driving' = [driving EXCEPT ![c] = TRUE]
      /\ UNCHANGED callVars /\ UNCHANGED <<running, crashed>>
  BY DEF CreateAndStart
<1>3. reply[c].intent \in Intents /\ reply[c].cif \in Customers
  BY <1>1, <1>2 DEF GrantInv, Named
<1>4. CreateAgent(c)
  BY <1>1, <1>2, <1>3 DEF ServingInv, CreateAgent
<1>5. Driven(c)
  BY <1>2, <1>4 DEF Driven, AgentStep
<1>6. LoopWritten(c)
  BY <1>1, <1>2, Zenon DEF LoopTypeOK, LoopWritten, SameLoop
<1>7. /\ agent'[c].intent = reply[c].intent /\ agent'[c].cif = reply[c].cif
      /\ agentReply'[c].status \in {"COMPLETED", "NEEDS_INPUT"}
  <2> DEFINE i == reply[c].intent
             k == reply[c].cif
  <2>1. StartAgent(c, i, k)
    BY <1>2
  <2> HIDE DEF i, k
  <2>2. /\ agent'[c].intent = i /\ agent'[c].cif = k
        /\ agentReply'[c].status \in {"COMPLETED", "NEEDS_INPUT"}
    BY <1>1, <2>1, StartSays
  <2> QED BY <2>2 DEF i, k
<1>8. driving'[c] /\ UNCHANGED <<reply, activeAuth, status, grants>>
  <2>1. driving'[c]
    BY <1>1, <1>2, Zenon DEF LoopTypeOK
  <2> QED BY <1>2, <2>1 DEF callVars, vars, flowVars, answer, coordinatorVars, session
<1>9. HarnessInv(c)'
  BY <1>1, <1>2, <1>7, <1>8 DEF HarnessInv, Follows, Named, ServingInv, RaisedInv
<1> QED BY <1>5, <1>6, <1>9 DEF Stepped

\* An answer typed for the agent, or the agent's result reported to the coordinator.
LEMMA DriveStepped ==
    ASSUME CliIInv, NEW c \in Calls, running[c], DriveAgent(c)
    PROVE  Stepped(c)
<1>1. /\ CallIInv /\ AgentsIInv /\ CoordinatorTypeOK /\ AgentsTypeOK /\ LoopTypeOK
      /\ Follows(c) /\ Named(c) /\ ServingInv(c) /\ RaisedInv(c) /\ InputIsExpected
  BY DEF CliIInv, HarnessInv, CallIInv, AgentsIInv, AgentInv, SlotsInv, InputIsExpected
<1>2. driving[c] /\ UNCHANGED <<running, crashed>>
  BY DEF DriveAgent
<1>3. /\ reply[c].status = "READY_FOR_HANDOFF" /\ ~crashed[c]
      /\ agent[c].intent = reply[c].intent /\ agent[c].cif = reply[c].cif
      /\ agentReply[c].status = "NEED_HANDOFF" => agentReply[c].intent \in Intents \ {reply[c].intent}
  BY <1>1, <1>2 DEF ServingInv, RaisedInv
<1>4. CASE Answered(c) /\ UNCHANGED <<callVars, driving>>
  <2>1. Driven(c)
    BY <1>4 DEF Driven, AgentStep
  <2>2. /\ agent'[c].intent = agent[c].intent /\ agent'[c].cif = agent[c].cif
        /\ agentReply'[c].status = "NEED_HANDOFF" => agentReply'[c].intent \in Intents \ {agent[c].intent}
    BY <1>1, <1>4, AnswerSays
  <2>3. UNCHANGED <<reply, activeAuth, status, grants>>
    BY <1>4 DEF callVars, vars, flowVars, answer, coordinatorVars, session
  <2>4. HarnessInv(c)'
    BY <1>1, <1>2, <1>3, <1>4, <2>2, <2>3 DEF HarnessInv, Follows, Named, ServingInv, RaisedInv
  <2> QED BY <1>1, <1>2, <1>4, <2>1, <2>4, LoopsStay DEF Stepped
<1>5. ASSUME driving' = [driving EXCEPT ![c] = FALSE], UNCHANGED agentVars, AgentReturns(c),
             agentReply[c].status # "NEEDS_INPUT", Follows(c)', Named(c)',
             agentReply[c].status = "ESCALATE" => reply'[c].status = "ESCALATED"
      PROVE  Stepped(c)
  <2>1. Driven(c)
    BY <1>5 DEF Driven, CallStep
  <2>2. LoopWritten(c) /\ ~driving'[c]
    BY <1>1, <1>2, <1>5, Zenon DEF LoopTypeOK, LoopWritten, SameLoop
  <2>3. agent[c].stage = "DONE"
    BY <1>1, <1>5 DEF InputIsExpected
  <2>4. HarnessInv(c)'
    BY <1>2, <1>3, <1>5, <2>2, <2>3 DEF agentVars, HarnessInv, ServingInv, RaisedInv
  <2> QED BY <2>1, <2>2, <2>4 DEF Stepped
<1>6. CASE /\ agentReply[c].status = "COMPLETED" /\ MarkTaskCompleted(c)
           /\ driving' = [driving EXCEPT ![c] = FALSE] /\ UNCHANGED agentVars
  <2>1. AgentReturns(c)
    BY <1>3, <1>6 DEF AgentReturns
  <2>2. ~activeAuth'[c]
    BY <1>1, <1>6, Zenon DEF MarkTaskCompleted, CoordinatorTypeOK
  <2>3. Follows(c)' /\ Named(c)'
    BY <1>1, <1>6, <2>2 DEF Follows, Named, MarkTaskCompleted, session
  <2> QED BY <1>5, <1>6, <2>1, <2>3
<1>7. CASE /\ agentReply[c].status = "NEED_HANDOFF" /\ RouteIntent(c, agentReply[c].intent)
           /\ driving' = [driving EXCEPT ![c] = FALSE] /\ UNCHANGED agentVars
  <2> DEFINE i == agentReply[c].intent
  <2>1. i \in Intents \ {reply[c].intent} /\ RouteIntent(c, i)
    BY <1>3, <1>7
  <2> HIDE DEF i
  <2>2. AgentReturns(c) /\ i \in Intents /\ Route(c, i)
    BY <1>3, <2>1 DEF AgentReturns, RouteIntent
  <2>3. CallIInv'
    BY <1>1, <2>2, CallFrame DEF CallStep
  <2>4. Follows(c)' /\ Named(c)'
    BY <1>1, <2>2, <2>3, RouteReplies, ServedAssumption
  <2> QED BY <1>5, <1>7, <2>2, <2>4
<1>8. CASE /\ agentReply[c].status = "ESCALATE" /\ EscalateFromAgent(c)
           /\ driving' = [driving EXCEPT ![c] = FALSE] /\ UNCHANGED agentVars
  <2>1. AgentReturns(c)
    BY <1>3, <1>8 DEF AgentReturns
  <2>2. ~activeAuth'[c]
    BY <1>1, <1>8, Zenon DEF EscalateFromAgent, EscalateCall, CoordinatorTypeOK
  <2>3. Follows(c)' /\ Named(c)'
    BY <1>1, <1>8, <2>2 DEF Follows, Named, EscalateFromAgent, session
  <2>4. reply'[c].status = "ESCALATED"
    BY <1>1, <1>8, Replying DEF EscalateFromAgent, EscalateCall
  <2> QED BY <1>5, <1>8, <2>1, <2>3, <2>4
<1> QED BY <1>4, <1>6, <1>7, <1>8 DEF DriveAgent

\* run_call returns, or raises; nothing else changes, and no agent is at work.
LEMMA LeaveStepped ==
    ASSUME CliIInv, NEW c \in Calls, running[c], CallOver(c) \/ UnhandledStatus(c)
    PROVE  Stepped(c)
<1>1. /\ LoopTypeOK /\ Follows(c) /\ Named(c) /\ ServingInv(c)
      /\ UNCHANGED callVars /\ UNCHANGED agentVars /\ UNCHANGED driving
      /\ running' = [running EXCEPT ![c] = FALSE]
      /\ crashed' = [crashed EXCEPT ![c] = reply[c].status \notin Final]
  BY DEF CliIInv, HarnessInv, CallOver, UnhandledStatus, LeaveLoop
<1>2. Driven(c)
  BY <1>1 DEF Driven
<1>3. LoopWritten(c)
  BY <1>1, Zenon DEF LoopTypeOK, LoopWritten, SameLoop
<1>4. ~running'[c] /\ (crashed'[c] <=> reply[c].status \notin Final)
  BY <1>1, Zenon DEF LoopTypeOK
<1>5. reply[c].status \in Final \cup {"NEEDS_REPEAT"}
  BY DEF CallOver, UnhandledStatus
<1>6. UNCHANGED <<reply, activeAuth, status, grants, agent, agentReply>>
  BY <1>1 DEF callVars, vars, flowVars, answer, coordinatorVars, session, agentVars
<1>7. HarnessInv(c)'
  BY <1>1, <1>4, <1>5, <1>6 DEF HarnessInv, Follows, Named, ServingInv, RaisedInv, Final
<1> QED BY <1>2, <1>3, <1>7 DEF Stepped

\* A code that runs out while the harness waits for an answer changes nothing it knows.
LEMMA CodeExpiresStepped ==
    ASSUME CliIInv, NEW c \in Calls,
           Expire(c), UNCHANGED <<bankVars, flowVars, coordinatorVars, agentVars, running, crashed, driving>>
    PROVE  Stepped(c)
<1>1. LoopTypeOK /\ Follows(c) /\ Named(c) /\ ServingInv(c) /\ RaisedInv(c)
  BY DEF CliIInv, HarnessInv
<1>2. Driven(c)
  BY DEF Driven, CallStep
<1>3. UNCHANGED <<reply, activeAuth, status, grants, agent, agentReply>>
  BY DEF flowVars, answer, coordinatorVars, session, agentVars
<1>4. HarnessInv(c)'
  BY <1>1, <1>3 DEF HarnessInv, Follows, Named, ServingInv, RaisedInv
<1> QED BY <1>1, <1>2, <1>4, LoopsStay DEF Stepped

-----------------------------------------------------------------------------
(***************************************************************************)
(* The theorems.                                                           *)
(***************************************************************************)
\* At first there is no call.
LEMMA CliInitInv == CliInit => CliIInv
<1> SUFFICES ASSUME CliInit PROVE CliIInv
  OBVIOUS
<1>1. CallIInv /\ AgentsIInv
  BY CallInitInv, AgentsInitInv DEF CliInit
<1>2. LoopTypeOK /\ \A c \in Calls : ~driving[c] /\ ~running[c] /\ ~crashed[c]
  BY Zenon DEF CliInit, LoopTypeOK
<1>3. ASSUME NEW c \in Calls PROVE HarnessInv(c)
  <2>1. ~activeAuth[c]
    BY Zenon DEF CliInit, CallInit, CoordinatorInit
  <2>2. Follows(c) /\ Named(c)
    BY <2>1 DEF CliInit, CallInit, CoordinatorInit, Follows, Named
  <2>3. agent[c].stage = "DONE"
    BY DEF CliInit, AgentsInit, FreshAgent
  <2> QED BY <1>2, <2>2, <2>3 DEF HarnessInv, ServingInv, RaisedInv
<1> QED BY <1>1, <1>2, <1>3 DEF CliIInv

\* Every step of the harness is a turn for one call, within the invariant.
LEMMA CliSteps ==
    ASSUME CliIInv, CliNext
    PROVE  \E c \in Calls : Stepped(c)
<1>1. PICK c \in Calls :
         \/ RunCall(c)
         \/ Expire(c) /\ UNCHANGED <<bankVars, flowVars, coordinatorVars, agentVars,
                                     running, crashed, driving>>
         \/ /\ running[c]
            /\ \/ TypeFactor(c) \/ TypeUtterance(c) \/ CreateAndStart(c) \/ DriveAgent(c)
               \/ CallOver(c) \/ UnhandledStatus(c)
  BY DEF CliNext
<1> QED BY <1>1, RunCallStepped, CodeExpiresStepped, TypedStepped, CreateStepped, DriveStepped, LeaveStepped

\* Nothing happens to any call.
LEMMA CliStutter ==
    ASSUME CliIInv, UNCHANGED cliVars
    PROVE  CliIInv'
<1>1. UNCHANGED callVars /\ UNCHANGED agentVars /\ UNCHANGED <<running, crashed, driving>>
  BY DEF cliVars
<1>2. CallIInv /\ AgentsIInv /\ LoopTypeOK /\ \A c \in Calls : HarnessInv(c)
  BY DEF CliIInv
<1>3. CallIInv' /\ \A d \in Calls : Kept(d) /\ Untouched(d)
  BY <1>1, <1>2, CallStutter
<1>4. AgentsIInv' /\ \A d \in Calls : SameAgent(d)
  BY <1>1, <1>2, AgentsStutter DEF agentVars, SameAgent
<1>5. LoopTypeOK' /\ \A d \in Calls : SameLoop(d)
  BY <1>1, <1>2 DEF LoopTypeOK, SameLoop
<1>6. \A d \in Calls : HarnessInv(d)'
  BY <1>2, <1>3, <1>4, <1>5, SameHarnessInv
<1> QED BY <1>3, <1>4, <1>5, <1>6 DEF CliIInv

\* The inductive invariant of the harness.
THEOREM CliInvariance == CliSpec => []CliIInv
<1>1. CliIInv /\ [CliNext]_cliVars => CliIInv'
  BY CliSteps, SteppedInv, CliStutter
<1> QED BY <1>1, CliInitInv, PTL DEF CliSpec

\* Whatever is typed, and though run_call raises on one status, the coordinator is
\* called only as its own specification allows: never out of turn.
THEOREM HarnessDrivesCoordinator == CliSpec => CallSpec
<1>1. CliIInv /\ [CliNext]_cliVars => [CallNext]_callVars
  <2>1. ASSUME NEW c \in Calls, CallStep(c) PROVE CallNext
    BY <2>1 DEF CallStep, CallNext
  <2>2. UNCHANGED cliVars => UNCHANGED callVars
    BY DEF cliVars
  <2> QED BY <2>1, <2>2, CliSteps DEF Stepped, Driven
<1>2. CliInit => CallInit
  BY DEF CliInit
<1> QED BY <1>1, <1>2, CliInvariance, PTL DEF CliSpec, CallSpec

\* And so are the agents: each gets a customer with a name and an intent it serves, and
\* no answer unless it asked for one.
THEOREM HarnessDrivesAgents == CliSpec => AgentsSpec
<1>1. CliIInv /\ [CliNext]_cliVars => [AgentsNext]_agentVars
  <2>1. ASSUME NEW c \in Calls, AgentStep(c) PROVE AgentsNext
    BY <2>1 DEF AgentStep, AgentsNext
  <2>2. UNCHANGED cliVars => UNCHANGED agentVars
    BY DEF cliVars
  <2> QED BY <2>1, <2>2, CliSteps DEF Stepped, Driven
<1>2. CliInit => AgentsInit
  BY DEF CliInit
<1> QED BY <1>1, <1>2, CliInvariance, PTL DEF CliSpec, AgentsSpec

\* What is proved of flow, coordinator and agents by themselves holds in the terminal
\* harness: it shows a developer what the service behind the webhooks would do.
THEOREM HarnessIsSafe ==
    CliSpec =>
        /\ [](HandoffEarned /\ ActiveAuthMatches /\ ChallengedForMore /\ OtpGuessBudget)
        /\ [](EarnedTier /\ ChallengeFitsCustomer /\ PromptMatchesStage)
        /\ []LockAtThreshold /\ LockIsFinal /\ EveryTurnSpends /\ TierSurvives
        /\ [](OnlyConfirmedRequests /\ RequestLimit /\ InputIsExpected) /\ EveryAnswerCosts
BY HarnessDrivesCoordinator, HarnessDrivesAgents, HandoffIsEarned, FlowIsThereWhenAsked, ChallengeIsForMore,
   OtpGuessesAreBoundedInCall, FlowIsSafeInCall, LockHoldsInCall, EveryTurnIsChargedInCall, TierIsKept,
   FiledIsConfirmed, RequestsAreLimited, AgentAsksWhenOpen, AnswersCost, PTL

\* An agent that drive_agent has before it acts for a customer whom the gate has let
\* through in this call, at a tier that suffices for what the agent was started for.
ServesGranted ==
    \A c \in Calls : driving[c] =>
        /\ <<agent[c].cif, reply[c].tier>> \in grants[c]
        /\ agent[c].cif \in Customers
        /\ reply[c].tier >= TierOf[agent[c].intent]

\* It is so from the agent's start to its report, whatever the caller answers meanwhile.
THEOREM ServedAreGranted == CliSpec => []ServesGranted
<1>1. CliIInv => ServesGranted
  BY DEF CliIInv, HarnessInv, ServingInv, Named, CallIInv, SessionInv, GrantInv, ServesGranted
<1> QED BY <1>1, CliInvariance, PTL

\* run_call raises on nothing but a request to repeat, and that comes from an open flow
\* that did not hear a factor: the claim that HarnessSurvives states fails in no other way.
RaisesOnlyUnheard ==
    \A c \in Calls : crashed[c] =>
        /\ reply[c].status = "NEEDS_REPEAT"
        /\ activeAuth[c] /\ status[c] = "NEEDS_REPEAT" /\ stage[c] # "DONE"

\* The finding of the run CallCli, delimited.
THEOREM OnlyUnheardRaises == CliSpec => []RaisesOnlyUnheard
<1>1. CliIInv => RaisesOnlyUnheard
  BY DEF CliIInv, HarnessInv, RaisedInv, Follows, CallIInv, SessionInv, GateInv, Asking, RaisesOnlyUnheard
<1> QED BY <1>1, CliInvariance, PTL
=============================================================================
