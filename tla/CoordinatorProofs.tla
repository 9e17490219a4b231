--------------------------- MODULE CoordinatorProofs ---------------------------
(***************************************************************************)
(* Theorems about Coordinator for every set of calls, every catalog of     *)
(* intents and every value of the ceilings.                                *)
(***************************************************************************)
EXTENDS Coordinator, AuthFlowProofs

USE CatalogAssumption, CaptureAssumption

-----------------------------------------------------------------------------
(***************************************************************************)
(* The inductive invariant, one call at a time.                            *)
(***************************************************************************)
\* While the gate is working, its flow is open and was started for the pending
\* intent, whose tier the caller has not reached.
GateInv(c) ==
    /\ activeAuth[c] <=> reply[c].status \in Asking
    /\ activeAuth[c] =>
          /\ stage[c] # "DONE"
          /\ pendingIntent[c] \in Intents
          /\ tierAchieved[c] < TierOf[pendingIntent[c]]
          /\ tierRequired[c] = TierOf[pendingIntent[c]]

\* The tier on record is the highest that was granted, and was granted to the caller on
\* record; what is handed to an agent is a grant, and enough for the intent.
GrantInv(c) ==
    /\ \A g \in grants[c] : g[2] <= tierAchieved[c]
    /\ tierAchieved[c] # NoTier => <<callerCif[c], tierAchieved[c]>> \in grants[c]
    /\ reply[c].status = "READY_FOR_HANDOFF" =>
          /\ reply[c].intent \in Intents
          /\ reply[c].tier >= TierOf[reply[c].intent]
          /\ <<reply[c].cif, reply[c].tier>> \in grants[c]

SessionInv(c) == ani[c] \in Reachable \cup {NoCif} /\ GateInv(c) /\ GrantInv(c)

CallIInv == IInv /\ CoordinatorTypeOK /\ \A c \in Calls : SessionInv(c)

\* What TierSurvives says of one call.
Survives(c) ==
    ~Greeted(c)' =>
        /\ tierAchieved'[c] >= tierAchieved[c]
        /\ callerCif'[c] # callerCif[c] => tierAchieved'[c] > tierAchieved[c]

\* A step of one call leaves the session of another as it was.
Kept(d) ==
    /\ ani'[d] = ani[d] /\ callerCif'[d] = callerCif[d] /\ tierAchieved'[d] = tierAchieved[d]
    /\ grants'[d] = grants[d] /\ pendingIntent'[d] = pendingIntent[d]
    /\ activeAuth'[d] = activeAuth[d] /\ capture'[d] = capture[d] /\ reply'[d] = reply[d]

\* What is to be shown of each operation of call c.
Sound(c) ==
    /\ CoordinatorTypeOK'
    /\ SessionInv(c)'
    /\ Survives(c)
    /\ \A d \in Calls : d # c => Kept(d)

\* A call whose flow and session are left alone keeps its invariant and tier.
LEMMA KeptInv ==
    ASSUME CoordinatorTypeOK, NEW d \in Calls, SessionInv(d), Untouched(d), Kept(d)
    PROVE  SessionInv(d)' /\ Survives(d)
<1>1. tierAchieved[d] \in Int
  BY DEF CoordinatorTypeOK, Tiers, NoTier
<1>2. Survives(d)
  BY <1>1 DEF Kept, Survives
<1>3. GateInv(d)'
  BY DEF SessionInv, GateInv, Untouched, Kept
<1>4. GrantInv(d)'
  BY DEF SessionInv, GrantInv, Kept
<1> QED BY <1>2, <1>3, <1>4 DEF SessionInv, Kept

-----------------------------------------------------------------------------
(***************************************************************************)
(* The shared steps of the operations: what they write, and for whom.      *)
(***************************************************************************)
\* What the coordinator returns is recorded for its own call only.
LEMMA ReplyValue ==
    ASSUME CoordinatorTypeOK, NEW c \in Calls, NEW st \in ReplyStatuses,
           NEW i \in Intents \cup {NoIntent}, NEW t \in Tiers \cup {NoTier},
           NEW k \in Customers \cup {NoCif}, NEW r \in EscalationReasons \cup {NoReason},
           Reply(c, st, i, t, k, r)
    PROVE  /\ reply' \in [Calls -> Replies]
           /\ reply'[c] = Answer(st, i, t, k, r)
           /\ \A d \in Calls : d # c => reply'[d] = reply[d]
<1>1. Answer(st, i, t, k, r) \in Replies
  BY DEF Answer, Replies
<1> QED BY <1>1 DEF CoordinatorTypeOK, Reply

\* Taking up or dropping the current AuthFlow concerns its own call only.
LEMMA FlagValue ==
    ASSUME CoordinatorTypeOK, NEW c \in Calls, NEW b \in BOOLEAN,
           activeAuth' = [activeAuth EXCEPT ![c] = b]
    PROVE  /\ activeAuth' \in [Calls -> BOOLEAN]
           /\ activeAuth'[c] = b
           /\ \A d \in Calls : d # c => activeAuth'[d] = activeAuth[d]
BY Zenon DEF CoordinatorTypeOK

\* The state of intent capture is written for its own call only.
LEMMA CaptureValue ==
    ASSUME CoordinatorTypeOK, NEW c \in Calls, NEW v \in Captures,
           capture' = [capture EXCEPT ![c] = v]
    PROVE  /\ capture' \in [Calls -> Captures]
           /\ capture'[c] = v
           /\ \A d \in Calls : d # c => capture'[d] = capture[d]
BY DEF CoordinatorTypeOK

\* An operation that leaves the session alone leaves who is on record, the
\* achieved tier and the grants as they were, of their types.
LEMMA SessionUnchanged ==
    ASSUME CoordinatorTypeOK, UNCHANGED session
    PROVE  /\ UNCHANGED <<callerCif, tierAchieved, grants>>
           /\ callerCif' \in [Calls -> Customers \cup {NoCif}]
           /\ tierAchieved' \in [Calls -> Tiers \cup {NoTier}]
           /\ grants' \in [Calls -> SUBSET ((Customers \cup {NoCif}) \X Tiers)]
BY DEF CoordinatorTypeOK, session

\* The pending intent and the capture counts of other calls are left alone.
Aside(c) ==
    /\ pendingIntent' \in [Calls -> Intents \cup {NoIntent}]
    /\ capture' \in [Calls -> Captures]
    /\ \A d \in Calls : d # c =>
          pendingIntent'[d] = pendingIntent[d] /\ capture'[d] = capture[d]

\* A turn that ends without the gate and without a handoff has nothing to prove
\* about either, and keeps the session.
LEMMA PlainTurn ==
    ASSUME CoordinatorTypeOK, NEW c \in Calls, SessionInv(c), UNCHANGED <<ani, session>>, Aside(c),
           NEW st \in ReplyStatuses \ (Asking \cup {"READY_FOR_HANDOFF"}),
           NEW i \in Intents \cup {NoIntent}, NEW t \in Tiers \cup {NoTier},
           NEW k \in Customers \cup {NoCif}, NEW r \in EscalationReasons \cup {NoReason},
           Reply(c, st, i, t, k, r),
           activeAuth' = [activeAuth EXCEPT ![c] = FALSE]
    PROVE  Sound(c)
<1>1. /\ reply' \in [Calls -> Replies]
      /\ reply'[c].status = st
      /\ \A d \in Calls : d # c => reply'[d] = reply[d]
  <2>1. st \in ReplyStatuses
    OBVIOUS
  <2>2. /\ reply' \in [Calls -> Replies]
        /\ reply'[c] = Answer(st, i, t, k, r)
        /\ \A d \in Calls : d # c => reply'[d] = reply[d]
    BY <2>1, ReplyValue
  <2> QED BY <2>2 DEF Answer
<1>2. /\ activeAuth' \in [Calls -> BOOLEAN]
      /\ activeAuth'[c] = FALSE
      /\ \A d \in Calls : d # c => activeAuth'[d] = activeAuth[d]
  BY FlagValue
<1>3. /\ UNCHANGED <<callerCif, tierAchieved, grants>>
      /\ callerCif' \in [Calls -> Customers \cup {NoCif}]
      /\ tierAchieved' \in [Calls -> Tiers \cup {NoTier}]
      /\ grants' \in [Calls -> SUBSET ((Customers \cup {NoCif}) \X Tiers)]
  BY SessionUnchanged
<1>4. CoordinatorTypeOK'
  BY <1>1, <1>2, <1>3 DEF CoordinatorTypeOK, Aside
<1>5. GateInv(c)' /\ GrantInv(c)'
  BY <1>1, <1>2, <1>3 DEF SessionInv, GateInv, GrantInv
<1>6. Survives(c)
  <2>1. tierAchieved[c] \in Int
    BY DEF CoordinatorTypeOK, Tiers, NoTier
  <2> QED BY <1>3, <2>1 DEF Survives
<1>7. \A d \in Calls : d # c => Kept(d)
  BY <1>1, <1>2, <1>3 DEF Aside, Kept
<1> QED BY <1>4, <1>5, <1>6, <1>7 DEF Sound, SessionInv

\* The call goes to a CSR.
LEMMA EscalateCallSound ==
    ASSUME CoordinatorTypeOK, NEW c \in Calls, SessionInv(c), UNCHANGED <<ani, session>>, Aside(c),
           NEW r \in EscalationReasons, EscalateCall(c, r)
    PROVE  Sound(c)
<1>1. /\ "ESCALATED" \in ReplyStatuses \ (Asking \cup {"READY_FOR_HANDOFF"})
      /\ tierAchieved[c] \in Tiers \cup {NoTier} /\ callerCif[c] \in Customers \cup {NoCif}
  BY DEF ReplyStatuses, Final, Asking, CoordinatorTypeOK
<1> QED BY <1>1, PlainTurn DEF EscalateCall

\* The caller is asked what he wants, with no flow object left over.
LEMMA ToIntentCaptureSound ==
    ASSUME CoordinatorTypeOK, NEW c \in Calls, SessionInv(c),
           UNCHANGED <<ani, session, pendingIntent>>,
           NEW p \in Prompts, NEW n \in Nat, NEW s \in Nat, ToIntentCapture(c, p, n, s),
           activeAuth' = [activeAuth EXCEPT ![c] = FALSE]
    PROVE  Sound(c)
<1>1. /\ "NEEDS_INTENT" \in ReplyStatuses \ (Asking \cup {"READY_FOR_HANDOFF"})
      /\ tierAchieved'[c] \in Tiers \cup {NoTier} /\ callerCif[c] \in Customers \cup {NoCif}
  BY SessionUnchanged DEF ReplyStatuses, Asking, CoordinatorTypeOK
<1>2. [prompt |-> p, noMatch |-> n, soft |-> s] \in Captures
  BY DEF Captures
<1>3. Aside(c)
  BY <1>2, CaptureValue DEF ToIntentCapture, Aside, CoordinatorTypeOK
<1> QED BY <1>1, <1>3, PlainTurn DEF ToIntentCapture

\* With no flow object there, leaving the reference alone is dropping it.
LEMMA NoFlow ==
    ASSUME CoordinatorTypeOK, NEW c \in Calls, ~activeAuth[c], UNCHANGED activeAuth
    PROVE  activeAuth' = [activeAuth EXCEPT ![c] = FALSE]
BY Zenon DEF CoordinatorTypeOK

-----------------------------------------------------------------------------
(***************************************************************************)
(* The gate.                                                               *)
(***************************************************************************)
\* A handoff to an agent: the caller and tier on record after the step are a
\* grant that is enough for the intent.
LEMMA HandoffSound ==
    ASSUME CoordinatorTypeOK, NEW c \in Calls, SessionInv(c), UNCHANGED ani, Aside(c),
           NEW i \in Intents, Handoff(c, i),
           callerCif' \in [Calls -> Customers \cup {NoCif}],
           tierAchieved' \in [Calls -> Tiers \cup {NoTier}],
           grants' \in [Calls -> SUBSET ((Customers \cup {NoCif}) \X Tiers)],
           \A d \in Calls : d # c =>
              /\ callerCif'[d] = callerCif[d] /\ tierAchieved'[d] = tierAchieved[d]
              /\ grants'[d] = grants[d],
           <<callerCif'[c], tierAchieved'[c]>> \in grants'[c],
           \A g \in grants'[c] : g[2] <= tierAchieved'[c],
           tierAchieved'[c] >= TierOf[i],
           Survives(c)
    PROVE  Sound(c)
<1>1. /\ reply' \in [Calls -> Replies]
      /\ reply'[c] = Answer("READY_FOR_HANDOFF", i, tierAchieved'[c], callerCif'[c], NoReason)
      /\ \A d \in Calls : d # c => reply'[d] = reply[d]
  <2>1. "READY_FOR_HANDOFF" \in ReplyStatuses /\ i \in Intents \cup {NoIntent}
    BY DEF ReplyStatuses
  <2>2. /\ tierAchieved'[c] \in Tiers \cup {NoTier} /\ callerCif'[c] \in Customers \cup {NoCif}
        /\ NoReason \in EscalationReasons \cup {NoReason}
    OBVIOUS
  <2> QED BY <2>1, <2>2, ReplyValue DEF Handoff
<1>2. /\ activeAuth' \in [Calls -> BOOLEAN]
      /\ activeAuth'[c] = FALSE
      /\ \A d \in Calls : d # c => activeAuth'[d] = activeAuth[d]
  BY FlagValue DEF Handoff
<1>3. CoordinatorTypeOK'
  BY <1>1, <1>2 DEF CoordinatorTypeOK, Aside
<1>4. GateInv(c)'
  BY <1>1, <1>2 DEF GateInv, Answer, Asking
<1>5. GrantInv(c)'
  BY <1>1 DEF GrantInv, Answer
<1>6. \A d \in Calls : d # c => Kept(d)
  BY <1>1, <1>2 DEF Aside, Kept
<1> QED BY <1>3, <1>4, <1>5, <1>6 DEF Sound, SessionInv

\* The gate waved the caller through: he has the tier already.
LEMMA OpenGateSound ==
    ASSUME CoordinatorTypeOK, NEW c \in Calls, SessionInv(c), UNCHANGED <<ani, session>>, Aside(c),
           NEW i \in Intents, tierAchieved[c] >= TierOf[i], Handoff(c, i)
    PROVE  Sound(c)
<1>1. /\ UNCHANGED <<callerCif, tierAchieved, grants>>
      /\ callerCif' \in [Calls -> Customers \cup {NoCif}]
      /\ tierAchieved' \in [Calls -> Tiers \cup {NoTier}]
      /\ grants' \in [Calls -> SUBSET ((Customers \cup {NoCif}) \X Tiers)]
  BY SessionUnchanged
<1>2. tierAchieved[c] \in Int /\ tierAchieved[c] # NoTier
  <2>1. TierOf[i] \in 0..2 /\ tierAchieved[c] \in 0..2 \cup {-1}
    BY CatalogAssumption DEF Tiers, NoTier, CoordinatorTypeOK
  <2> QED BY <2>1 DEF NoTier
<1>3. Survives(c)
  BY <1>1, <1>2 DEF Survives
<1>4. /\ <<callerCif'[c], tierAchieved'[c]>> \in grants'[c]
      /\ \A g \in grants'[c] : g[2] <= tierAchieved'[c]
  BY <1>1, <1>2 DEF SessionInv, GrantInv
<1> QED BY <1>1, <1>3, <1>4, HandoffSound

\* A flow that has just answered, started for intent i, whose tier the caller had
\* not reached: whatever the answer, the coordinator turns it into a sound reply.
LEMMA FromAuthStateSound ==
    ASSUME CoordinatorTypeOK, IInv', NEW c \in Calls, SessionInv(c), UNCHANGED ani, Aside(c),
           NEW i \in Intents, pendingIntent'[c] = i,
           tierAchieved[c] < TierOf[i], tierRequired'[c] = TierOf[i],
           status'[c] = "NO_AUTH_REQUIRED" => tier'[c] = TierOf[i],
           FromAuthState(c, i)
    PROVE  Sound(c)
<1>1. TypeOK' /\ CallInv(c)'
  BY DEF IInv
<1>2. /\ status'[c] \in Statuses /\ stage'[c] \in Stages
      /\ cif'[c] \in Customers \cup {NoCif}
  BY <1>1 DEF TypeOK, AnswerTypeOK
<1>3. TierOf[i] \in Tiers /\ tierAchieved[c] \in Tiers \cup {NoTier}
  BY CatalogAssumption DEF CoordinatorTypeOK
<1>4. CASE status'[c] \in Granting /\ Granted(c, i)
  <2>1. tier'[c] = TierOf[i]
    BY <1>1, <1>4 DEF CallInv, Earned, Granting
  <2>2. /\ tierAchieved' = [tierAchieved EXCEPT ![c] = tier'[c]]
        /\ callerCif' = [callerCif EXCEPT ![c] = cif'[c]]
        /\ grants' = [grants EXCEPT ![c] = @ \cup {<<cif'[c], tier'[c]>>}]
        /\ Handoff(c, i)
    BY <1>4 DEF Granted
  <2>3. /\ callerCif' \in [Calls -> Customers \cup {NoCif}]
        /\ callerCif'[c] = cif'[c]
        /\ \A d \in Calls : d # c => callerCif'[d] = callerCif[d]
    BY <1>2, <2>2 DEF CoordinatorTypeOK
  <2>4. /\ tierAchieved' \in [Calls -> Tiers \cup {NoTier}]
        /\ tierAchieved'[c] = TierOf[i]
        /\ \A d \in Calls : d # c => tierAchieved'[d] = tierAchieved[d]
    BY <1>3, <2>1, <2>2 DEF CoordinatorTypeOK
  <2>5. /\ grants' \in [Calls -> SUBSET ((Customers \cup {NoCif}) \X Tiers)]
        /\ grants'[c] = grants[c] \cup {<<cif'[c], tier'[c]>>}
        /\ \A d \in Calls : d # c => grants'[d] = grants[d]
    BY <1>2, <1>3, <2>1, <2>2 DEF CoordinatorTypeOK
  <2>6. Survives(c) /\ tierAchieved'[c] >= TierOf[i]
    BY <1>3, <2>4 DEF Survives, Tiers, NoTier
  <2>7. <<callerCif'[c], tierAchieved'[c]>> \in grants'[c]
    BY <2>1, <2>3, <2>4, <2>5
  <2>8. \A g \in grants'[c] : g[2] <= tierAchieved'[c]
    <3>1. ASSUME NEW g \in grants[c] PROVE g[2] <= TierOf[i]
      <4>1. g \in (Customers \cup {NoCif}) \X Tiers /\ g[2] <= tierAchieved[c]
        BY DEF CoordinatorTypeOK, SessionInv, GrantInv
      <4>2. g[2] \in 0..2 /\ tierAchieved[c] \in 0..2 \cup {-1} /\ TierOf[i] \in 0..2
        BY <1>3, <4>1 DEF Tiers, NoTier
      <4> QED BY <4>1, <4>2
    <3>2. TierOf[i] <= TierOf[i]
      BY <1>3 DEF Tiers
    <3> QED BY <2>1, <2>4, <2>5, <3>1, <3>2
  <2> QED BY <2>2, <2>3, <2>4, <2>5, <2>6, <2>7, <2>8, HandoffSound
<1>5. CASE EscalateCall(c, "AUTH_ESCALATED") /\ UNCHANGED session
  <2>1. "AUTH_ESCALATED" \in EscalationReasons
    BY DEF EscalationReasons
  <2> QED BY <1>5, <2>1, EscalateCallSound
<1>6. CASE /\ status'[c] \in Asking
           /\ activeAuth' = [activeAuth EXCEPT ![c] = TRUE]
           /\ Reply(c, status'[c], i, tierAchieved[c], cif'[c], NoReason)
           /\ UNCHANGED session
  <2>1. /\ UNCHANGED <<callerCif, tierAchieved, grants>>
        /\ callerCif' \in [Calls -> Customers \cup {NoCif}]
        /\ tierAchieved' \in [Calls -> Tiers \cup {NoTier}]
        /\ grants' \in [Calls -> SUBSET ((Customers \cup {NoCif}) \X Tiers)]
    BY <1>6, SessionUnchanged
  <2>2. /\ activeAuth' \in [Calls -> BOOLEAN]
        /\ activeAuth'[c] = TRUE
        /\ \A d \in Calls : d # c => activeAuth'[d] = activeAuth[d]
    BY <1>6, FlagValue
  <2>3. /\ reply' \in [Calls -> Replies]
        /\ reply'[c] = Answer(status'[c], i, tierAchieved[c], cif'[c], NoReason)
        /\ \A d \in Calls : d # c => reply'[d] = reply[d]
    <3> DEFINE st == status'[c]
               k == cif'[c]
               t == tierAchieved[c]
    <3>1. st \in ReplyStatuses /\ i \in Intents \cup {NoIntent}
      BY <1>6 DEF ReplyStatuses
    <3>2. t \in Tiers \cup {NoTier} /\ k \in Customers \cup {NoCif}
      BY <1>2, <1>3
    <3>3. NoReason \in EscalationReasons \cup {NoReason}
      OBVIOUS
    <3>4. Reply(c, st, i, t, k, NoReason)
      BY <1>6
    <3> HIDE DEF st, k, t
    <3>5. /\ reply' \in [Calls -> Replies]
          /\ reply'[c] = Answer(st, i, t, k, NoReason)
          /\ \A d \in Calls : d # c => reply'[d] = reply[d]
      BY <3>1, <3>2, <3>3, <3>4, ReplyValue
    <3> QED BY <3>5 DEF st, k, t
  <2>4. CoordinatorTypeOK'
    BY <2>1, <2>2, <2>3 DEF CoordinatorTypeOK, Aside
  <2>5. stage'[c] # "DONE"
    BY <1>1, <1>6 DEF CallInv, PromptMatches
  <2>6. GateInv(c)'
    BY <1>6, <2>1, <2>2, <2>3, <2>5 DEF GateInv, Answer
  <2>7. GrantInv(c)'
    BY <1>6, <2>1, <2>3 DEF SessionInv, GrantInv, Answer, Asking
  <2>8. Survives(c)
    BY <1>3, <2>1 DEF Survives, Tiers, NoTier
  <2>9. \A d \in Calls : d # c => Kept(d)
    BY <2>1, <2>2, <2>3 DEF Aside, Kept
  <2> QED BY <2>4, <2>6, <2>7, <2>8, <2>9 DEF Sound, SessionInv
<1> QED BY <1>4, <1>5, <1>6 DEF FromAuthState

-----------------------------------------------------------------------------
(***************************************************************************)
(* The operations. Each keeps the invariant of the flows, is sound for the *)
(* call it is about and leaves every other call alone.                     *)
(***************************************************************************)
\* What a step of call c has to establish.
Done(c) == IInv' /\ Sound(c) /\ \A d \in Calls : d # c => Untouched(d)

\* While no flow moves, the invariant of the flows holds on.
LEMMA StillFlows ==
    ASSUME IInv, UNCHANGED vars
    PROVE  IInv' /\ \A d \in Calls : Untouched(d)
BY StutterInv DEF vars, gatewayVars, flowVars, answer, Untouched

\* A step of one call's flow keeps the invariant of the flows and leaves the
\* flows of other calls untouched.
LEMMA MovingFlow ==
    ASSUME IInv, NEW c \in Calls,
           Move(c)
    PROVE  IInv' /\ \A d \in Calls : d # c => Untouched(d)
BY MoveInv, Frame DEF IInv

\* A new call starts with nobody on record and no tier achieved.
LEMMA StartCallDone ==
    ASSUME CallIInv, NEW c \in Calls, NEW a \in Reachable \cup {NoCif}, StartCall(c, a)
    PROVE  Done(c)
<1>1. IInv /\ CoordinatorTypeOK /\ SessionInv(c) /\ UNCHANGED vars
  BY DEF CallIInv, StartCall
<1>2. /\ ani' \in [Calls -> Customers \cup {NoCif}] /\ ani'[c] = a
      /\ callerCif' \in [Calls -> Customers \cup {NoCif}]
      /\ tierAchieved' \in [Calls -> Tiers \cup {NoTier}] /\ tierAchieved'[c] = NoTier
      /\ grants' \in [Calls -> SUBSET ((Customers \cup {NoCif}) \X Tiers)] /\ grants'[c] = {}
      /\ pendingIntent' \in [Calls -> Intents \cup {NoIntent}]
      /\ \A d \in Calls : d # c =>
            /\ ani'[d] = ani[d] /\ callerCif'[d] = callerCif[d] /\ tierAchieved'[d] = tierAchieved[d]
            /\ grants'[d] = grants[d] /\ pendingIntent'[d] = pendingIntent[d]
  BY <1>1 DEF StartCall, CoordinatorTypeOK, Reachable
<1>3. /\ capture' \in [Calls -> Captures] /\ capture'[c] = Greeting
      /\ \A d \in Calls : d # c => capture'[d] = capture[d]
  <2>1. Greeting \in Captures
    BY DEF Greeting, Captures, Prompts
  <2> QED BY <1>1, <2>1, CaptureValue DEF StartCall
<1>4. /\ activeAuth' \in [Calls -> BOOLEAN] /\ activeAuth'[c] = FALSE
      /\ \A d \in Calls : d # c => activeAuth'[d] = activeAuth[d]
  BY <1>1, FlagValue DEF StartCall
<1>5. /\ reply' \in [Calls -> Replies]
      /\ reply'[c] = Answer("NEEDS_INTENT", NoIntent, NoTier, NoCif, NoReason)
      /\ \A d \in Calls : d # c => reply'[d] = reply[d]
  BY <1>1, ReplyValue DEF StartCall, ReplyStatuses
<1>6. CoordinatorTypeOK' /\ \A d \in Calls : d # c => Kept(d)
  BY <1>2, <1>3, <1>4, <1>5 DEF CoordinatorTypeOK, Kept
<1>7. SessionInv(c)'
  BY <1>2, <1>4, <1>5 DEF SessionInv, GateInv, GrantInv, Answer, Asking
<1>8. Survives(c)
  BY <1>2, <1>3, <1>5 DEF Survives, Greeted, Answer
<1> QED BY <1>1, <1>6, <1>7, <1>8, StillFlows DEF Done, Sound

\* _route, for a caller who is not in the middle of another gate.
LEMMA RouteDone ==
    ASSUME CallIInv, NEW c \in Calls, NEW i \in Intents, Route(c, i), UNCHANGED ani,
           capture' \in [Calls -> Captures],
           \A d \in Calls : d # c => capture'[d] = capture[d]
    PROVE  Done(c)
<1>1. IInv /\ TypeOK /\ CoordinatorTypeOK /\ SessionInv(c)
  BY DEF CallIInv, IInv
<1>2. Aside(c) /\ pendingIntent'[c] = i
  BY <1>1 DEF Route, Aside, CoordinatorTypeOK
<1>3. CASE tierAchieved[c] >= TierOf[i]
  <2>1. UNCHANGED <<vars, session>> /\ Handoff(c, i)
    BY <1>3 DEF Route
  <2>2. Sound(c)
    BY <1>1, <1>2, <1>3, <2>1, OpenGateSound
  <2> QED BY <1>1, <2>1, <2>2, StillFlows DEF Done
<1>4. CASE ~(tierAchieved[c] >= TierOf[i])
  <2>1. Start(c, ani[c], TierOf[i]) /\ FromAuthState(c, i)
    BY <1>4 DEF Route
  <2>2. ani[c] \in Reachable \cup {NoCif} /\ TierOf[i] \in Tiers
    BY <1>1, CatalogAssumption DEF SessionInv
  <2>3. IInv' /\ \A d \in Calls : d # c => Untouched(d)
    BY <1>1, <2>1, <2>2, MovingFlow DEF Move
  <2>4. /\ tierRequired'[c] = TierOf[i]
        /\ status'[c] = "NO_AUTH_REQUIRED" => tier'[c] = TierOf[i]
    BY <1>1, <2>1, <2>2, StartAnswer
  <2>5. tierAchieved[c] < TierOf[i]
    <3>1. tierAchieved[c] \in 0..2 \cup {-1} /\ TierOf[i] \in 0..2
      BY <1>1, <2>2 DEF CoordinatorTypeOK, Tiers, NoTier
    <3> QED BY <1>4, <3>1
  <2>6. Sound(c)
    BY <1>1, <1>2, <2>1, <2>3, <2>4, <2>5, FromAuthStateSound
  <2> QED BY <2>3, <2>6 DEF Done
<1> QED BY <1>3, <1>4

\* A global command while the caller is asked what he wants.
LEMMA ObeyCommandSound ==
    ASSUME CoordinatorTypeOK, NEW c \in Calls, SessionInv(c), reply[c].status = "NEEDS_INTENT",
           UNCHANGED <<ani, pendingIntent>>, NEW u, ObeyCommand(c, u)
    PROVE  Sound(c)
<1>1. ~activeAuth[c]
  BY DEF SessionInv, GateInv, Asking
<1>2. CASE EscalateCall(c, "EXPLICIT_REQUEST") /\ UNCHANGED <<session, capture>>
  <2>1. Aside(c) /\ "EXPLICIT_REQUEST" \in EscalationReasons
    BY <1>2 DEF Aside, CoordinatorTypeOK, EscalationReasons
  <2> QED BY <1>2, <2>1, EscalateCallSound
<1>3. CASE /\ UNCHANGED <<session, activeAuth>>
           /\ ToIntentCapture(c, capture[c].prompt, capture[c].noMatch, capture[c].soft)
  <2>1. capture[c].prompt \in Prompts /\ capture[c].noMatch \in Nat /\ capture[c].soft \in Nat
    BY DEF CoordinatorTypeOK, Captures
  <2>2. activeAuth' = [activeAuth EXCEPT ![c] = FALSE]
    BY <1>1, <1>3, NoFlow
  <2> QED BY <1>3, <2>1, <2>2, ToIntentCaptureSound
<1>4. CASE /\ tierAchieved' = [tierAchieved EXCEPT ![c] = NoTier]
           /\ grants' = [grants EXCEPT ![c] = {}]
           /\ ToIntentCapture(c, "GREETING", 0, 0)
           /\ UNCHANGED <<callerCif, activeAuth>>
  <2>1. /\ tierAchieved' \in [Calls -> Tiers \cup {NoTier}] /\ tierAchieved'[c] = NoTier
        /\ grants' \in [Calls -> SUBSET ((Customers \cup {NoCif}) \X Tiers)]
        /\ \A d \in Calls : d # c => tierAchieved'[d] = tierAchieved[d] /\ grants'[d] = grants[d]
    BY <1>4 DEF CoordinatorTypeOK
  <2>2. /\ capture' \in [Calls -> Captures] /\ capture'[c] = Greeting
        /\ \A d \in Calls : d # c => capture'[d] = capture[d]
    <3>1. Greeting \in Captures
      BY DEF Greeting, Captures, Prompts
    <3> QED BY <1>4, <3>1, CaptureValue DEF ToIntentCapture, Greeting
  <2>3. /\ reply' \in [Calls -> Replies]
        /\ reply'[c] = Answer("NEEDS_INTENT", NoIntent, NoTier, callerCif[c], NoReason)
        /\ \A d \in Calls : d # c => reply'[d] = reply[d]
    <3>1. /\ "NEEDS_INTENT" \in ReplyStatuses /\ NoIntent \in Intents \cup {NoIntent}
          /\ NoTier \in Tiers \cup {NoTier} /\ callerCif[c] \in Customers \cup {NoCif}
          /\ NoReason \in EscalationReasons \cup {NoReason}
      BY DEF ReplyStatuses, CoordinatorTypeOK
    <3>2. Reply(c, "NEEDS_INTENT", NoIntent, NoTier, callerCif[c], NoReason)
      BY <1>4, <2>1 DEF ToIntentCapture
    <3> QED BY <3>1, <3>2, ReplyValue
  <2>4. CoordinatorTypeOK' /\ \A d \in Calls : d # c => Kept(d)
    BY <1>4, <2>1, <2>2, <2>3 DEF CoordinatorTypeOK, Kept
  <2>5. SessionInv(c)'
    BY <1>1, <1>4, <2>1, <2>3 DEF SessionInv, GateInv, GrantInv, Answer, Asking
  <2>6. Survives(c)
    BY <2>1, <2>2, <2>3 DEF Survives, Greeted, Answer
  <2> QED BY <2>4, <2>5, <2>6 DEF Sound
<1> QED BY <1>2, <1>3, <1>4 DEF ObeyCommand

\* An utterance that is not understood.
LEMMA NotUnderstoodSound ==
    ASSUME CoordinatorTypeOK, NEW c \in Calls, SessionInv(c), reply[c].status = "NEEDS_INTENT",
           UNCHANGED <<ani, pendingIntent>>, NEW u, NotUnderstood(c, u)
    PROVE  Sound(c)
<1> DEFINE noMatch == capture[c].noMatch + 1
           softly == capture[c].soft + 1
<1>1. /\ capture[c] \in Captures /\ capture[c].noMatch \in Nat /\ capture[c].soft \in Nat
      /\ noMatch \in Nat /\ softly \in Nat
  BY DEF CoordinatorTypeOK, Captures
<1>2. ~activeAuth[c]
  BY DEF SessionInv, GateInv, Asking
<1>3. /\ UNCHANGED session
      /\ \/ /\ EscalateCall(c, "INTENT_NOT_UNDERSTOOD")
            /\ \/ capture' = [capture EXCEPT ![c].soft = softly]
               \/ capture' = [capture EXCEPT ![c].noMatch = noMatch]
         \/ ToIntentCapture(c, "LOW_CONFIDENCE", capture[c].noMatch, softly) /\ UNCHANGED activeAuth
         \/ ToIntentCapture(c, "NO_MATCH", noMatch, capture[c].soft) /\ UNCHANGED activeAuth
  BY DEF NotUnderstood
<1> HIDE DEF noMatch, softly
<1>4. CASE /\ EscalateCall(c, "INTENT_NOT_UNDERSTOOD")
           /\ \/ capture' = [capture EXCEPT ![c].soft = softly]
              \/ capture' = [capture EXCEPT ![c].noMatch = noMatch]
  <2>1. /\ [capture[c] EXCEPT !.soft = softly] \in Captures
        /\ [capture[c] EXCEPT !.noMatch = noMatch] \in Captures
    BY <1>1 DEF Captures
  <2>2. \E v \in Captures : capture' = [capture EXCEPT ![c] = v]
    BY <1>4, <2>1
  <2>3. Aside(c)
    BY <2>2, CaptureValue DEF Aside, CoordinatorTypeOK
  <2>4. "INTENT_NOT_UNDERSTOOD" \in EscalationReasons
    BY DEF EscalationReasons
  <2> QED BY <1>3, <1>4, <2>3, <2>4, EscalateCallSound
<1>5. CASE /\ UNCHANGED activeAuth
           /\ \/ ToIntentCapture(c, "LOW_CONFIDENCE", capture[c].noMatch, softly)
              \/ ToIntentCapture(c, "NO_MATCH", noMatch, capture[c].soft)
  <2>1. activeAuth' = [activeAuth EXCEPT ![c] = FALSE]
    BY <1>2, <1>5, NoFlow
  <2>2. {"LOW_CONFIDENCE", "NO_MATCH"} \subseteq Prompts
    BY DEF Prompts
  <2> QED BY <1>1, <1>3, <1>5, <2>1, <2>2, ToIntentCaptureSound
<1> QED BY <1>3, <1>4, <1>5

\* submit_utterance.
LEMMA SpeakDone ==
    ASSUME CallIInv, NEW c \in Calls, Speak(c)
    PROVE  Done(c)
<1>1. IInv /\ CoordinatorTypeOK /\ SessionInv(c)
  BY DEF CallIInv
<1>2. reply[c].status = "NEEDS_INTENT" /\ UNCHANGED ani
  BY DEF Speak, SubmitUtterance
<1>3. PICK u \in Utterances : SubmitUtterance(c, u)
  BY DEF Speak
<1>4. CASE EndCall(c) /\ UNCHANGED <<vars, session, pendingIntent, capture>>
  <2>1. /\ "CALL_ENDED" \in ReplyStatuses \ (Asking \cup {"READY_FOR_HANDOFF"})
        /\ tierAchieved[c] \in Tiers \cup {NoTier} /\ callerCif[c] \in Customers \cup {NoCif}
        /\ Aside(c)
    BY <1>1, <1>4 DEF ReplyStatuses, Final, Asking, CoordinatorTypeOK, Aside
  <2>2. Sound(c)
    BY <1>1, <1>2, <1>4, <2>1, PlainTurn DEF EndCall
  <2> QED BY <1>1, <1>4, <2>2, StillFlows DEF Done
<1>5. CASE (ObeyCommand(c, u) \/ NotUnderstood(c, u)) /\ UNCHANGED <<vars, pendingIntent>>
  <2>1. Sound(c)
    BY <1>1, <1>2, <1>5, ObeyCommandSound, NotUnderstoodSound
  <2> QED BY <1>1, <1>5, <2>1, StillFlows DEF Done
<1>6. CASE Understood(c, u)
  <2>1. u.intent \in Intents /\ Route(c, u.intent)
    <3>1. u.intent \in Intents \cup {NoIntent}
      BY DEF Utterances
    <3> QED BY <1>6, <3>1 DEF Understood
  <2>2. capture' = [capture EXCEPT ![c].noMatch = 0, ![c].soft = 0]
    BY <1>6 DEF Understood
  <2>3. capture \in [Calls -> [prompt : Prompts, noMatch : Nat, soft : Nat]]
    BY <1>1 DEF CoordinatorTypeOK, Captures
  <2>4. /\ capture' \in [Calls -> Captures]
        /\ \A d \in Calls : d # c => capture'[d] = capture[d]
    BY <2>2, <2>3 DEF Captures
  <2> QED BY <1>2, <2>1, <2>4, RouteDone
<1> QED BY <1>3, <1>4, <1>5, <1>6 DEF SubmitUtterance

\* submit_identification, submit_mpin, submit_otp and request_otp_resend.
LEMMA SubmitFactorDone ==
    ASSUME CallIInv, NEW c \in Calls, SubmitFactor(c)
    PROVE  Done(c)
<1>1. IInv /\ TypeOK /\ CoordinatorTypeOK /\ SessionInv(c)
  BY DEF CallIInv, IInv
<1>2. /\ Turn(c) /\ activeAuth[c] /\ FromAuthState(c, pendingIntent[c])
      /\ UNCHANGED <<ani, pendingIntent, capture>>
  BY DEF SubmitFactor, Passthrough
<1>3. /\ pendingIntent[c] \in Intents /\ tierAchieved[c] < TierOf[pendingIntent[c]]
      /\ tierRequired[c] = TierOf[pendingIntent[c]]
  BY <1>1, <1>2 DEF SessionInv, GateInv
<1>4. IInv' /\ \A d \in Calls : d # c => Untouched(d)
  BY <1>1, <1>2, MovingFlow DEF Move
<1>5. tierRequired'[c] = tierRequired[c] /\ status'[c] # "NO_AUTH_REQUIRED"
  BY <1>1, <1>2, TurnAnswer DEF Asking
<1>6. Aside(c) /\ pendingIntent'[c] = pendingIntent[c]
  BY <1>1, <1>2 DEF Aside, CoordinatorTypeOK
<1>7. Sound(c)
  <2> DEFINE i == pendingIntent[c]
  <2>1. /\ i \in Intents /\ pendingIntent'[c] = i /\ tierAchieved[c] < TierOf[i]
        /\ tierRequired'[c] = TierOf[i] /\ FromAuthState(c, i)
    BY <1>2, <1>3, <1>5, <1>6
  <2>2. status'[c] = "NO_AUTH_REQUIRED" => tier'[c] = TierOf[i]
    BY <1>5
  <2> HIDE DEF i
  <2> QED BY <1>1, <1>2, <1>4, <1>6, <2>1, <2>2, FromAuthStateSound
<1> QED BY <1>4, <1>7 DEF Done

\* mark_task_completed, route_intent and escalate_from_agent.
LEMMA AgentReturnsDone ==
    ASSUME CallIInv, NEW c \in Calls, AgentReturns(c)
    PROVE  Done(c)
<1>1. IInv /\ CoordinatorTypeOK /\ SessionInv(c)
  BY DEF CallIInv
<1>2. CASE MarkTaskCompleted(c)
  <2>1. /\ UNCHANGED vars /\ UNCHANGED <<ani, session, pendingIntent>>
        /\ activeAuth' = [activeAuth EXCEPT ![c] = FALSE]
        /\ ToIntentCapture(c, "ANYTHING_ELSE", 0, 0)
    BY <1>2 DEF MarkTaskCompleted
  <2>2. "ANYTHING_ELSE" \in Prompts
    BY DEF Prompts
  <2>3. Sound(c)
    BY <1>1, <2>1, <2>2, ToIntentCaptureSound
  <2> QED BY <1>1, <2>1, <2>3, StillFlows DEF Done
<1>3. CASE \E i \in Intents \ {reply[c].intent} : RouteIntent(c, i)
  <2>1. PICK i \in Intents : Route(c, i) /\ UNCHANGED <<ani, capture>>
    BY <1>3 DEF RouteIntent
  <2>2. /\ capture' \in [Calls -> Captures]
        /\ \A d \in Calls : d # c => capture'[d] = capture[d]
    BY <1>1, <2>1 DEF CoordinatorTypeOK
  <2> QED BY <2>1, <2>2, RouteDone
<1>4. CASE EscalateFromAgent(c)
  <2>1. /\ UNCHANGED vars /\ UNCHANGED <<ani, session>> /\ EscalateCall(c, "AGENT_ESCALATED")
        /\ Aside(c)
    BY <1>1, <1>4 DEF EscalateFromAgent, Aside, CoordinatorTypeOK
  <2>2. "AGENT_ESCALATED" \in EscalationReasons
    BY DEF EscalationReasons
  <2>3. Sound(c)
    BY <1>1, <2>1, <2>2, EscalateCallSound
  <2> QED BY <1>1, <2>1, <2>3, StillFlows DEF Done
<1> QED BY <1>2, <1>3, <1>4 DEF AgentReturns

\* A code that runs out is no business of the coordinator's.
LEMMA CodeExpiresDone ==
    ASSUME CallIInv, NEW c \in Calls, Expire(c), UNCHANGED <<bankVars, flowVars, coordinatorVars>>
    PROVE  Done(c)
<1>1. IInv /\ CoordinatorTypeOK /\ SessionInv(c)
  BY DEF CallIInv
<1>2. IInv' /\ \A d \in Calls : d # c => Untouched(d)
  BY <1>1, MovingFlow DEF Move
<1>3. CoordinatorTypeOK' /\ \A d \in Calls : Kept(d)
  <2>1. UNCHANGED <<ani, callerCif, tierAchieved, grants, activeAuth, pendingIntent, capture, reply>>
    BY DEF coordinatorVars, session
  <2> QED BY <1>1, <2>1 DEF CoordinatorTypeOK, Kept
<1>4. Untouched(c)
  BY DEF Expire, Untouched, flowVars, answer
<1>5. SessionInv(c)' /\ Survives(c)
  BY <1>1, <1>3, <1>4, KeptInv
<1> QED BY <1>2, <1>3, <1>5 DEF Done, Sound

-----------------------------------------------------------------------------
(***************************************************************************)
(* The theorems.                                                           *)
(***************************************************************************)
\* Before the first call nobody is on record and nothing is granted.
LEMMA CallInitInv == CallInit => CallIInv
<1> SUFFICES ASSUME CallInit PROVE CallIInv
  OBVIOUS
<1>1. IInv
  BY InitInv DEF CallInit
<1>2. CoordinatorTypeOK
  <2>1. Greeting \in Captures
    BY DEF Greeting, Captures, Prompts
  <2>2. Answer("NONE", NoIntent, NoTier, NoCif, NoReason) \in Replies
    BY DEF Answer, Replies, ReplyStatuses
  <2>3. activeAuth \in [Calls -> BOOLEAN]
    BY Zenon DEF CallInit, CoordinatorInit
  <2> QED
    BY <2>1, <2>2, <2>3 DEF CallInit, CoordinatorInit, CoordinatorTypeOK
<1>3. ASSUME NEW c \in Calls PROVE SessionInv(c)
  <2>1. activeAuth[c] = FALSE
    BY Zenon DEF CallInit, CoordinatorInit
  <2> QED
    BY <2>1 DEF CallInit, CoordinatorInit, SessionInv, GateInv, GrantInv, Answer, Asking
<1> QED BY <1>1, <1>2, <1>3 DEF CallIInv

\* A step of call c.
CallStep(c) ==
    \/ \E a \in Reachable \cup {NoCif} : StartCall(c, a)
    \/ Speak(c)
    \/ SubmitFactor(c)
    \/ AgentReturns(c)
    \/ Expire(c) /\ UNCHANGED <<bankVars, flowVars, coordinatorVars>>

\* Every operation of a call establishes what a step has to.
LEMMA CallStepDone ==
    ASSUME CallIInv, NEW c \in Calls, CallStep(c)
    PROVE  Done(c)
BY StartCallDone, SpeakDone, SubmitFactorDone, AgentReturnsDone, CodeExpiresDone DEF CallStep

\* A step of one call keeps the invariant of all calls, and what every caller has
\* achieved.
LEMMA CallStepKeeps ==
    ASSUME CallIInv, NEW c \in Calls, CallStep(c)
    PROVE  CallIInv' /\ \A d \in Calls : Survives(d)
<1>1. CoordinatorTypeOK /\ (\A d \in Calls : SessionInv(d)) /\ Done(c)
  BY CallStepDone DEF CallIInv
<1>2. ASSUME NEW d \in Calls, d # c PROVE SessionInv(d)' /\ Survives(d)
  BY <1>1, <1>2, KeptInv DEF Done, Sound
<1> QED BY <1>1, <1>2 DEF CallIInv, Done, Sound

\* So does a step of something else.
LEMMA CallStutter ==
    ASSUME CallIInv, UNCHANGED callVars
    PROVE  /\ CallIInv'
           /\ \A d \in Calls : Survives(d) /\ Untouched(d) /\ Kept(d)
<1>1. IInv /\ CoordinatorTypeOK /\ \A d \in Calls : SessionInv(d)
  BY DEF CallIInv
<1>2. UNCHANGED vars
      /\ UNCHANGED <<ani, callerCif, tierAchieved, grants, activeAuth, pendingIntent, capture, reply>>
  BY DEF callVars, coordinatorVars, session
<1>3. IInv' /\ \A d \in Calls : Untouched(d)
  BY <1>1, <1>2, StillFlows
<1>4. CoordinatorTypeOK' /\ \A d \in Calls : Kept(d)
  BY <1>1, <1>2 DEF CoordinatorTypeOK, Kept
<1>5. ASSUME NEW d \in Calls PROVE SessionInv(d)' /\ Survives(d)
  BY <1>1, <1>3, <1>4, KeptInv
<1> QED BY <1>3, <1>4, <1>5 DEF CallIInv

\* Every step keeps the inductive invariant and what every caller has achieved.
LEMMA CallStepInv ==
    ASSUME CallIInv, [CallNext]_callVars
    PROVE  CallIInv' /\ \A c \in Calls : Survives(c)
<1>1. CallNext => \E c \in Calls : CallStep(c)
  BY DEF CallNext, CallStep
<1> QED BY <1>1, CallStepKeeps, CallStutter

\* The inductive invariant of the coordinator and of the flows under it.
THEOREM CallInvariance == CallSpec => []CallIInv
BY CallInitInv, CallStepInv, PTL DEF CallSpec

\* Every variable of the coordinator keeps its type.
THEOREM CoordinatorTypeCorrect == CallSpec => []CoordinatorTypeOK
<1>1. CallIInv => CoordinatorTypeOK
  BY DEF CallIInv
<1> QED BY <1>1, CallInvariance, PTL

\* No agent ever gets a call whose caller the gate has not let through, in this
\* call and since the last "start over", at a tier that suffices for the intent.
THEOREM HandoffIsEarned == CallSpec => []HandoffEarned
<1>1. CallIInv => HandoffEarned
  BY DEF CallIInv, SessionInv, GrantInv, HandoffEarned
<1> QED BY <1>1, CallInvariance, PTL

\* The coordinator holds a flow object exactly while it asks for a factor, and
\* the flow it holds is waiting for one: no passthrough can raise.
THEOREM FlowIsThereWhenAsked == CallSpec => []ActiveAuthMatches
<1>1. CallIInv => ActiveAuthMatches
  BY DEF CallIInv, SessionInv, GateInv, ActiveAuthMatches
<1> QED BY <1>1, CallInvariance, PTL

\* What was granted since the call began or started over is never above the tier on
\* record, and that is below the tier the open flow was started for.
THEOREM ChallengeIsForMore == CallSpec => []ChallengedForMore
<1>1. ASSUME CallIInv, NEW c \in Calls, activeAuth[c], NEW g \in grants[c]
      PROVE  g[2] < tierRequired[c]
  <2>1. /\ g \in (Customers \cup {NoCif}) \X Tiers
        /\ g[2] <= tierAchieved[c] /\ tierAchieved[c] < tierRequired[c]
        /\ tierAchieved[c] \in Tiers \cup {NoTier} /\ tierRequired[c] \in Tiers
    BY <1>1 DEF CallIInv, IInv, TypeOK, CoordinatorTypeOK, SessionInv, GateInv, GrantInv
  <2> QED BY <2>1 DEF Tiers, NoTier
<1>2. CallIInv => ChallengedForMore
  BY <1>1 DEF ChallengedForMore
<1> QED BY <1>2, CallInvariance, PTL

\* The safety of the flow proved on its own holds under the coordinator too,
\* which may drop an open flow and start another at any time.
THEOREM FlowIsSafeInCall ==
    CallSpec => [](TypeOK /\ EarnedTier /\ ChallengeFitsCustomer /\ PromptMatchesStage)
<1>1. CallIInv => TypeOK /\ EarnedTier /\ ChallengeFitsCustomer /\ PromptMatchesStage
  BY DEF CallIInv, IInv, CallInv, PathInvariant, EarnedTier, ChallengeFitsCustomer, PromptMatchesStage
<1> QED BY <1>1, CallInvariance, PTL

\* A granted tier is lost only to a new call or to the caller's own "start over",
\* and the caller on record changes only together with a higher tier.
THEOREM TierIsKept == CallSpec => TierSurvives
<1>1. CallIInv /\ [CallNext]_callVars =>
         [\A c \in Calls : ~Greeted(c)' =>
             /\ tierAchieved'[c] >= tierAchieved[c]
             /\ callerCif'[c] # callerCif[c] => tierAchieved'[c] > tierAchieved[c]]_callVars
  BY CallStepInv DEF Survives
<1> QED BY <1>1, CallInvariance, PTL DEF CallSpec, TierSurvives

\* Every step of a call is a move of its flow, or leaves all flows alone.
LEMMA CallStepMoves ==
    ASSUME CallIInv, NEW c \in Calls, CallStep(c)
    PROVE  Move(c) \/ UNCHANGED vars
<1>1. ASSUME NEW i \in Intents, Route(c, i)
      PROVE  Move(c) \/ UNCHANGED vars
  <2>1. TierOf[i] \in Tiers /\ ani[c] \in Reachable \cup {NoCif}
    BY CatalogAssumption DEF CallIInv, SessionInv
  <2> QED BY <1>1, <2>1 DEF Route, Move
<1>2. CASE Speak(c)
  <2>1. \A u \in Utterances : u.intent \in Intents \cup {NoIntent}
    BY DEF Utterances
  <2> QED BY <1>1, <1>2, <2>1 DEF Speak, SubmitUtterance, Understood
<1>3. CASE SubmitFactor(c)
  BY <1>3 DEF SubmitFactor, Move
<1>4. CASE AgentReturns(c)
  BY <1>1, <1>4 DEF AgentReturns, MarkTaskCompleted, RouteIntent, EscalateFromAgent
<1>5. CASE \E a : StartCall(c, a)
  BY <1>5 DEF StartCall
<1>6. CASE Expire(c) /\ UNCHANGED <<bankVars, flowVars, coordinatorVars>>
  BY <1>6 DEF Move
<1> QED BY <1>2, <1>3, <1>4, <1>5, <1>6 DEF CallStep

\* A step of the coordinator's specification is a move of one flow, or of none.
LEMMA CallMoves ==
    ASSUME CallIInv, [CallNext]_callVars
    PROVE  (\E c \in Calls : Move(c)) \/ UNCHANGED vars
<1>1. CallNext => \E c \in Calls : CallStep(c)
  BY DEF CallNext, CallStep
<1>2. UNCHANGED callVars => UNCHANGED vars
  BY DEF callVars
<1> QED BY <1>1, <1>2, CallStepMoves

\* The lockout survives hang-ups and dropped flows: whatever becomes of a call in
\* the middle of its gate, the bank's records stay as counted, and a lock final.
THEOREM LockHoldsInCall == CallSpec => []LockAtThreshold /\ LockIsFinal
<1>1. ASSUME CallIInv, [CallNext]_callVars PROVE BankStepped
  BY <1>1, CallMoves, BankStep DEF CallIInv
<1>2. CallIInv /\ LockAtThreshold /\ [CallNext]_callVars => LockAtThreshold'
  BY <1>1, LockStep DEF CallIInv, IInv
<1>3. CallIInv /\ [CallNext]_callVars =>
         [\A k \in Customers : mpinLocked[k] =>
             /\ mpinLocked'[k]
             /\ \A c \in Calls : vouched'[c]["mpin"] = k => vouched[c]["mpin"] = k]_vars
  BY <1>1, LockFinal DEF CallIInv, IInv
<1>4. CallInit => LockAtThreshold
  BY LockInit DEF CallInit
<1> QED BY <1>2, <1>3, <1>4, CallInvariance, PTL DEF CallSpec, LockIsFinal

\* Nor does a caller buy more guesses at a code by way of the coordinator: each
\* flow it starts has the same budget.
THEOREM OtpGuessesAreBoundedInCall == CallSpec => []OtpGuessBudget
<1>1. CallIInv /\ Budgets /\ [CallNext]_callVars => Budgets'
  BY CallMoves, BudgetMove DEF CallIInv, IInv
<1>2. Budgets => OtpGuessBudget
  BY DEF Budgets, BudgetInv, Bought, OtpGuessBudget
<1>3. CallInit => Budgets
  BY BudgetInit DEF CallInit
<1> QED BY <1>1, <1>2, <1>3, CallInvariance, PTL DEF CallSpec

\* Nor is a turn free under the coordinator, which may drop an open flow and start another.
THEOREM EveryTurnIsChargedInCall == CallSpec => EveryTurnSpends
<1>1. CallIInv /\ Ceilings /\ [CallNext]_callVars => Ceilings'
  BY CallMoves, CeilingsMove DEF CallIInv, IInv
<1>2. CallIInv /\ Ceilings => [\A c \in Calls : Turn(c) => TurnsLeft(c)' \in 0..TurnsLeft(c) - 1]_vars
  BY TurnSpends DEF CallIInv, IInv, Ceilings, Spends
<1>3. CallInit => Ceilings
  BY CeilingsInit DEF CallInit
<1> QED BY <1>1, <1>2, <1>3, CallInvariance, PTL DEF CallSpec, EveryTurnSpends

-----------------------------------------------------------------------------
(***************************************************************************)
(* What more there is to know of a flow and its coordinator.               *)
(***************************************************************************)
\* What the coordinator passes on while its gate works is the flow's own answer.
Follows(c) == activeAuth[c] => reply[c].status = status[c]

\* Whoever is let through has a name.
Named(c) == grants[c] \subseteq Customers \X Tiers

\* The attempts of an identification are counted for one call at a time.
LEMMA AttemptsFrame ==
    ASSUME TypeOK, NEW c \in Calls, NEW d \in Calls, d # c, Move(c)
    PROVE  idAttempts'[d] = idAttempts[d]
BY TriesFrame DEF SameTries

\* A new flow that has a tier to reach asks for it or gives up at once.
LEMMA StartAsks ==
    ASSUME TypeOK, NEW c \in Calls, NEW a, NEW t \in Tiers, t # 0, Start(c, a, t)
    PROVE  status'[c] \in {"NEEDS_IDENTIFICATION", "ESCALATED", "NEEDS_MPIN"}
<1>1. AnswerTypeOK
  BY DEF TypeOK
<1>2. \/ Return(c, "AWAITING_IDENTIFICATION", "NEEDS_IDENTIFICATION", NoTier, NoReason)
      \/ Return(c, "DONE", "ESCALATED", NoTier, "ACCOUNT_FLAGGED")
      \/ Return(c, "AWAITING_MPIN_PRIMARY", "NEEDS_MPIN", NoTier, NoReason)
  BY DEF Start
<1> QED BY <1>1, <1>2, ReturnValues

\* An answer that was not heard leaves the flow where it was; nothing else is
\* answered with a request to repeat.
LEMMA RepeatStays ==
    ASSUME TypeOK, NEW c \in Calls, Turn(c), status'[c] = "NEEDS_REPEAT"
    PROVE  stage'[c] = stage[c] /\ idAttempts'[c] = idAttempts[c]
<1>1. AnswerTypeOK
  BY DEF TypeOK
<1>2. ASSUME NEW s, NEW st, NEW t, NEW r, Return(c, s, st, t, r)
      PROVE  stage'[c] = s /\ status'[c] = st
  BY <1>1, <1>2, ReturnValues
<1>3. ASSUME NEW r, Escalate(c, r) PROVE FALSE
  BY <1>2, <1>3 DEF Escalate
<1>4. ASSUME NEW t, Authenticated(c, t) PROVE FALSE
  BY <1>2, <1>4 DEF Authenticated
<1>5. ASSUME NEW s, NEW st, st # "NEEDS_REPEAT", Ask(c, s, st) PROVE FALSE
  BY <1>2, <1>5 DEF Ask
<1>6. ASSUME NEW k, NEW s, DispatchOtp(c, k, s) PROVE FALSE
  BY <1>3, <1>5, <1>6 DEF DispatchOtp
<1>7. CASE NotHeard(c)
  BY <1>2, <1>3, <1>7 DEF NotHeard, Ask
<1>8. CASE \E k \in Customers \cup {NoCif} : SubmitIdentification(c, k)
  BY <1>3, <1>5, <1>6, <1>8 DEF SubmitIdentification
<1>9. CASE \E right \in BOOLEAN : SubmitMpin(c, right)
  BY <1>3, <1>4, <1>5, <1>6, <1>9 DEF SubmitMpin
<1>10. CASE \E right \in BOOLEAN : SubmitOtp(c, right)
  BY <1>3, <1>4, <1>5, <1>10 DEF SubmitOtp, OnOtpCorrect
<1>11. CASE RequestOtpResend(c)
  BY <1>3, <1>5, <1>11 DEF RequestOtpResend
<1> QED BY <1>7, <1>8, <1>9, <1>10, <1>11 DEF Turn

\* A reply of coordinator c, read from its record.
LEMMA Replying ==
    ASSUME CoordinatorTypeOK, NEW c \in Calls, NEW st, NEW i, NEW t, NEW k, NEW r, Reply(c, st, i, t, k, r)
    PROVE  reply'[c].status = st /\ reply'[c].intent = i /\ reply'[c].cif = k
BY DEF CoordinatorTypeOK, Reply, Answer

\* What the coordinator makes of an answer of a flow that had a tier to reach: it
\* passes the question on, and only an authentication is recorded as a grant.
LEMMA GateReplies ==
    ASSUME CoordinatorTypeOK, IInv', NEW c \in Calls, NEW i, Named(c),
           FromAuthState(c, i), status'[c] # "NO_AUTH_REQUIRED"
    PROVE  /\ activeAuth'[c] => reply'[c].status = status'[c]
           /\ Named(c)'
           /\ reply'[c].status = "NEEDS_REPEAT" => status'[c] = "NEEDS_REPEAT"
           /\ status'[c] # "AUTHENTICATED" => grants'[c] = grants[c]
<1>1. /\ activeAuth \in [Calls -> BOOLEAN]
      /\ grants \in [Calls -> SUBSET ((Customers \cup {NoCif}) \X Tiers)]
  BY DEF CoordinatorTypeOK
<1>2. CASE status'[c] \in Granting /\ Granted(c, i)
  <2>1. status'[c] = "AUTHENTICATED"
    BY <1>2 DEF Granting
  <2>2. activeAuth' = [activeAuth EXCEPT ![c] = FALSE]
    BY <1>2 DEF Granted, Handoff
  <2>3. activeAuth'[c] = FALSE
    BY <1>1, <2>2, Zenon
  <2>4. cif'[c] \in Customers /\ tier'[c] \in Tiers
    <3>1. CallInv(c)' /\ tierRequired' \in [Calls -> Tiers]
      BY DEF IInv, TypeOK
    <3> QED BY <2>1, <3>1 DEF CallInv, Earned
  <2>5. grants'[c] = grants[c] \cup {<<cif'[c], tier'[c]>>}
    BY <1>1, <1>2 DEF Granted
  <2>6. Named(c)'
    BY <2>4, <2>5 DEF Named
  <2>7. reply'[c].status = "READY_FOR_HANDOFF"
    BY <1>2, Replying DEF Granted, Handoff
  <2> QED BY <2>1, <2>3, <2>6, <2>7
<1>3. CASE EscalateCall(c, "AUTH_ESCALATED") /\ UNCHANGED session
  <2>1. activeAuth'[c] = FALSE
    BY <1>1, <1>3, Zenon DEF EscalateCall
  <2>2. reply'[c].status = "ESCALATED"
    BY <1>3, Replying DEF EscalateCall
  <2> QED BY <1>3, <2>1, <2>2 DEF session, Named
<1>4. CASE /\ Reply(c, status'[c], i, tierAchieved[c], cif'[c], NoReason)
           /\ UNCHANGED session
  <2> DEFINE st == status'[c]
             k == cif'[c]
  <2>1. Reply(c, st, i, tierAchieved[c], k, NoReason)
    BY <1>4
  <2> HIDE DEF st, k
  <2>2. reply'[c].status = st
    BY <2>1, Replying
  <2> QED BY <1>4, <2>2 DEF session, Named, st
<1> QED BY <1>2, <1>3, <1>4 DEF FromAuthState

\* What route says: nothing is granted on the spot, and nothing is to be repeated.
LEMMA RouteReplies ==
    ASSUME CallIInv, CallIInv', NEW c \in Calls, NEW i \in Intents, TierOf[i] # 0,
           Route(c, i), Follows(c), Named(c)
    PROVE  /\ Follows(c)' /\ Named(c)'
           /\ reply'[c].status # "NEEDS_REPEAT"
           /\ grants'[c] = grants[c]
<1>1. IInv /\ TypeOK /\ CoordinatorTypeOK /\ IInv'
  BY DEF CallIInv, IInv
<1>2. CASE tierAchieved[c] >= TierOf[i]
  <2>1. UNCHANGED session /\ Handoff(c, i)
    BY <1>2 DEF Route
  <2>2. reply'[c].status = "READY_FOR_HANDOFF"
    BY <1>1, <2>1, Replying DEF Handoff
  <2>3. activeAuth \in [Calls -> BOOLEAN] /\ activeAuth' = [activeAuth EXCEPT ![c] = FALSE]
    BY <1>1, <2>1 DEF CoordinatorTypeOK, Handoff
  <2>4. activeAuth'[c] = FALSE
    BY <2>3, Zenon
  <2> QED BY <2>1, <2>2, <2>4 DEF session, Follows, Named
<1>3. CASE ~(tierAchieved[c] >= TierOf[i])
  <2>1. Start(c, ani[c], TierOf[i]) /\ FromAuthState(c, i)
    BY <1>3 DEF Route
  <2>2. TierOf[i] \in Tiers /\ TierOf[i] # 0
    BY CatalogAssumption
  <2>3. status'[c] \in {"NEEDS_IDENTIFICATION", "ESCALATED", "NEEDS_MPIN"}
    BY <1>1, <2>1, <2>2, StartAsks
  <2> QED BY <1>1, <2>1, <2>3, GateReplies DEF Follows
<1> QED BY <1>2, <1>3

\* What an utterance is answered with: as route, or with no gate at all.
LEMMA SpeechReplies ==
    ASSUME CallIInv, CallIInv', NEW c \in Calls, Speak(c), Follows(c), Named(c),
           \A i \in Intents : TierOf[i] # 0
    PROVE  /\ Follows(c)' /\ Named(c)'
           /\ reply'[c].status # "NEEDS_REPEAT"
           /\ grants'[c] \in {grants[c], {}}
<1>1. CoordinatorTypeOK /\ SessionInv(c)
  BY DEF CallIInv
<1>2. PICK u \in Utterances : SubmitUtterance(c, u)
  BY DEF Speak
<1>3. ~activeAuth[c] /\ activeAuth \in [Calls -> BOOLEAN]
      /\ grants \in [Calls -> SUBSET ((Customers \cup {NoCif}) \X Tiers)]
  BY <1>1 DEF Speak, SessionInv, GateInv, Asking, CoordinatorTypeOK
<1>4. ASSUME UNCHANGED activeAuth \/ activeAuth' = [activeAuth EXCEPT ![c] = FALSE]
      PROVE  ~activeAuth'[c]
  BY <1>3, <1>4, Zenon
<1>5. ASSUME NEW r, EscalateCall(c, r), UNCHANGED session
      PROVE  /\ ~activeAuth'[c] /\ grants'[c] = grants[c]
             /\ reply'[c].status = "ESCALATED"
  BY <1>1, <1>4, <1>5, Replying DEF EscalateCall, session
<1>6. ASSUME NEW p, NEW n, NEW s, ToIntentCapture(c, p, n, s)
      PROVE  reply'[c].status = "NEEDS_INTENT"
  <2> DEFINE t == tierAchieved'[c]
  <2>1. Reply(c, "NEEDS_INTENT", NoIntent, t, callerCif[c], NoReason)
    BY <1>6 DEF ToIntentCapture
  <2> HIDE DEF t
  <2> QED BY <1>1, <2>1, Replying
<1>7. CASE EndCall(c) /\ UNCHANGED session
  <2>1. ~activeAuth'[c]
    BY <1>4, <1>7 DEF EndCall
  <2>2. reply'[c].status = "CALL_ENDED"
    BY <1>1, <1>7, Replying DEF EndCall
  <2> QED BY <1>7, <2>1, <2>2 DEF session, Follows, Named
<1>8. CASE ObeyCommand(c, u)
  <2>1. CASE EscalateCall(c, "EXPLICIT_REQUEST") /\ UNCHANGED session
    BY <1>5, <2>1 DEF Follows, Named
  <2>2. CASE /\ grants' = [grants EXCEPT ![c] = {}]
             /\ ToIntentCapture(c, "GREETING", 0, 0)
             /\ UNCHANGED activeAuth
    BY <1>3, <1>6, <2>2 DEF Follows, Named
  <2>3. CASE /\ UNCHANGED <<session, activeAuth>>
             /\ ToIntentCapture(c, capture[c].prompt, capture[c].noMatch, capture[c].soft)
    BY <1>3, <1>6, <2>3 DEF session, Follows, Named
  <2> QED BY <1>8, <2>1, <2>2, <2>3 DEF ObeyCommand
<1>9. CASE NotUnderstood(c, u)
  <2>1. /\ UNCHANGED session
        /\ \/ EscalateCall(c, "INTENT_NOT_UNDERSTOOD")
           \/ /\ \E p, n, s : ToIntentCapture(c, p, n, s)
              /\ UNCHANGED activeAuth
    BY <1>9 DEF NotUnderstood
  <2> QED BY <1>3, <1>5, <1>6, <2>1 DEF session, Follows, Named
<1>10. CASE Understood(c, u)
  <2>1. u.intent \in Intents /\ Route(c, u.intent)
    <3>1. u.intent \in Intents \cup {NoIntent}
      BY DEF Utterances
    <3> QED BY <1>10, <3>1 DEF Understood
  <2> QED BY <2>1, RouteReplies
<1> QED BY <1>2, <1>7, <1>8, <1>9, <1>10 DEF SubmitUtterance

\* What a factor is answered with; a request to repeat is one after nothing moved.
LEMMA FactorReplies ==
    ASSUME CallIInv, CallIInv', NEW c \in Calls, SubmitFactor(c), Named(c)
    PROVE  /\ Follows(c)' /\ Named(c)'
           /\ reply'[c].status = "NEEDS_REPEAT" =>
                 stage'[c] = stage[c] /\ idAttempts'[c] = idAttempts[c]
<1>1. TypeOK /\ CoordinatorTypeOK /\ IInv'
  BY DEF CallIInv, IInv
<1>2. Turn(c) /\ FromAuthState(c, pendingIntent[c])
  BY DEF SubmitFactor, Passthrough
<1>3. status'[c] # "NO_AUTH_REQUIRED"
  BY <1>1, <1>2, TurnAnswer DEF Asking
<1>4. /\ activeAuth'[c] => reply'[c].status = status'[c]
      /\ Named(c)'
      /\ reply'[c].status = "NEEDS_REPEAT" => status'[c] = "NEEDS_REPEAT"
  BY <1>1, <1>2, <1>3, GateReplies
<1> QED BY <1>1, <1>2, <1>4, RepeatStays DEF Follows

\* What the coordinator knows and says when a call begins.
LEMMA StartCallSays ==
    ASSUME CoordinatorTypeOK, NEW c \in Calls, NEW a, StartCall(c, a)
    PROVE  /\ reply'[c].status = "NEEDS_INTENT" /\ capture'[c] = Greeting
           /\ ~activeAuth'[c] /\ grants'[c] = {}
<1>1. reply'[c].status = "NEEDS_INTENT"
  BY Replying DEF StartCall
<1>2. capture'[c] = Greeting
  BY DEF StartCall, CoordinatorTypeOK
<1>3. ~activeAuth'[c]
  BY Zenon DEF StartCall, CoordinatorTypeOK
<1>4. grants'[c] = {}
  BY DEF StartCall, CoordinatorTypeOK
<1> QED BY <1>1, <1>2, <1>3, <1>4

\* Call c is driven as the coordinator allows, or not at all: its invariant holds on,
\* and nothing of the other calls changes.
LEMMA CallFrame ==
    ASSUME CallIInv, NEW c \in Calls, CallStep(c) \/ UNCHANGED callVars
    PROVE  /\ CallIInv'
           /\ \A d \in Calls : d # c => Kept(d) /\ Untouched(d) /\ idAttempts'[d] = idAttempts[d]
<1>1. CASE CallStep(c)
  <2>1. TypeOK
    BY DEF CallIInv, IInv
  <2>2. CallIInv' /\ \A d \in Calls : d # c => Kept(d) /\ Untouched(d)
    BY <1>1, CallStepDone, CallStepKeeps DEF Done, Sound
  <2>3. Move(c) \/ UNCHANGED vars
    BY <1>1, CallStepMoves
  <2>4. UNCHANGED vars => UNCHANGED idAttempts
    BY DEF vars, flowVars, retries
  <2>5. \A d \in Calls : d # c => idAttempts'[d] = idAttempts[d]
    BY <2>1, <2>3, <2>4, AttemptsFrame
  <2> QED BY <2>2, <2>5
<1>2. CASE UNCHANGED callVars
  BY <1>2, CallStutter DEF callVars, vars, flowVars, retries
<1> QED BY <1>1, <1>2
=============================================================================
