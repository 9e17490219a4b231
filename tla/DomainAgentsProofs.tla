--------------------------- MODULE DomainAgentsProofs ---------------------------
(***************************************************************************)
(* Theorems about DomainAgents for every set of calls, customers, intents  *)
(* and addresses and every value of the limits.                            *)
(***************************************************************************)
EXTENDS DomainAgents, SequenceTheorems, TLAPS

USE AgentAssumption, CatalogAssumption

-----------------------------------------------------------------------------
(***************************************************************************)
(* Prefixes: the requests filed, of the proposals assented to.             *)
(***************************************************************************)
\* IsPrefix, element by element.
LEMMA PrefixElements ==
    ASSUME NEW S, NEW s \in Seq(S), NEW t \in Seq(S)
    PROVE  IsPrefix(s, t) <=> Len(s) <= Len(t) /\ \A j \in 1..Len(s) : s[j] = t[j]
<1>1. Len(s) \in Nat /\ Len(t) \in Nat
  BY LenProperties
<1>2. CASE Len(s) <= Len(t)
  <2>1. /\ SubSeq(s, 1, Len(s)) \in Seq(S) /\ Len(SubSeq(s, 1, Len(s))) = Len(s)
        /\ \A j \in 1..Len(s) : SubSeq(s, 1, Len(s))[j] = s[j]
    BY <1>1, SMT
  <2>2. /\ SubSeq(t, 1, Len(s)) \in Seq(S) /\ Len(SubSeq(t, 1, Len(s))) = Len(s)
        /\ \A j \in 1..Len(s) : SubSeq(t, 1, Len(s))[j] = t[j]
    BY <1>1, <1>2, SMT
  <2>3. ASSUME \A j \in 1..Len(s) : s[j] = t[j]
        PROVE  SubSeq(s, 1, Len(s)) = SubSeq(t, 1, Len(s))
    BY <2>1, <2>2, <2>3, SeqEqual
  <2> QED BY <1>2, <2>1, <2>2, <2>3 DEF IsPrefix
<1>3. CASE ~(Len(s) <= Len(t))
  BY <1>3 DEF IsPrefix
<1> QED BY <1>2, <1>3

\* What a yes does to the two: within the limit, both get the same last element;
\* at the limit, only one of them grows. Short of it, they were the same length.
LEMMA PrefixGrows ==
    ASSUME NEW S, NEW filed \in Seq(S), NEW said \in Seq(S), NEW x \in S, NEW m \in Nat,
           IsPrefix(filed, said), Len(filed) <= m, Len(filed) < Len(said) => Len(filed) = m
    PROVE  /\ Len(filed) < m => /\ IsPrefix(Append(filed, x), Append(said, x))
                                /\ Len(Append(filed, x)) = Len(Append(said, x))
           /\ IsPrefix(filed, Append(said, x))
<1>1. Len(filed) \in Nat /\ Len(said) \in Nat /\ Len(filed) <= Len(said)
  BY LenProperties DEF IsPrefix
<1>2. \A j \in 1..Len(filed) : filed[j] = said[j]
  BY PrefixElements
<1>3. /\ Append(said, x) \in Seq(S) /\ Len(Append(said, x)) = Len(said) + 1
      /\ \A j \in 1..Len(said) : Append(said, x)[j] = said[j]
      /\ Append(said, x)[Len(said) + 1] = x
  BY AppendProperties
<1>4. /\ Append(filed, x) \in Seq(S) /\ Len(Append(filed, x)) = Len(filed) + 1
      /\ \A j \in 1..Len(filed) : Append(filed, x)[j] = filed[j]
      /\ Append(filed, x)[Len(filed) + 1] = x
  BY AppendProperties
<1>5. IsPrefix(filed, Append(said, x))
  <2>1. \A j \in 1..Len(filed) : filed[j] = Append(said, x)[j]
    BY <1>1, <1>2, <1>3
  <2>2. Len(filed) <= Len(Append(said, x))
    BY <1>1, <1>3
  <2> QED BY <1>3, <2>1, <2>2, PrefixElements
<1>6. ASSUME Len(filed) < m
      PROVE  /\ IsPrefix(Append(filed, x), Append(said, x))
             /\ Len(Append(filed, x)) = Len(Append(said, x))
  <2>1. Len(filed) = Len(said)
    BY <1>1, <1>6
  <2>2. \A j \in 1..Len(Append(filed, x)) : Append(filed, x)[j] = Append(said, x)[j]
    BY <1>1, <1>2, <1>3, <1>4, <2>1
  <2>3. Len(Append(filed, x)) = Len(Append(said, x))
    BY <1>3, <1>4, <2>1
  <2>4. Len(Append(filed, x)) <= Len(Append(said, x))
    BY <1>1, <1>4, <2>3
  <2> QED BY <1>3, <1>4, <2>2, <2>3, <2>4, PrefixElements
<1> QED BY <1>5, <1>6

-----------------------------------------------------------------------------
(***************************************************************************)
(* The inductive invariant, one call at a time.                            *)
(***************************************************************************)
AgentRecords ==
    [stage : AgentStages, intent : Intents \cup {NoIntent},
     cif : Customers \cup {NoCif}, address : Addresses \cup {NoAddress},
     soft : Nat, format : Nat, confirm : Nat]

AgentAnswers == [status : AgentStatuses, intent : Intents \cup {NoIntent}]

AddressStages == {"AWAITING_ADDRESS", "AWAITING_ADDRESS_CONFIRMATION"}
ConfirmationStages == {"AWAITING_ADDRESS_CONFIRMATION", "AWAITING_TOOL_CONFIRMATION"}

\* What an agent that waits for a yes would submit is what was proposed; for that,
\* an open agent has a customer and a service intent.
SlotsInv(c) ==
    /\ agent[c].stage # "DONE" <=> agentReply[c].status = "NEEDS_INPUT"
    /\ agent[c].stage # "DONE" => agent[c].cif \in Customers /\ agent[c].intent \in ServiceIntents
    /\ agent[c].stage \in AddressStages => agent[c].intent = "change_of_address"
    /\ agent[c].stage \in ConfirmationStages => proposal[c] = Drafted(c)

\* The parts of OnlyConfirmedRequests and RequestLimit that speak of call c.
FiledInv(c) ==
    /\ IsPrefix(requests[c], assented[c])
    /\ Len(requests[c]) < Len(assented[c]) => Len(requests[c]) = MAX_SERVICE_REQUESTS_PER_CALL
    /\ Len(requests[c]) <= MAX_SERVICE_REQUESTS_PER_CALL
    /\ submissions[c] = Len(requests[c])

AgentInv(c) == SlotsInv(c) /\ FiledInv(c)

AgentsIInv == AgentsTypeOK /\ \A c \in Calls : AgentInv(c)

\* The agents of call c move: a new registry, a new agent whatever became of the
\* last one, or an answer.
AgentMove(c) ==
    \/ NewRegistry(c)
    \/ \E i \in Intents, k \in Customers : StartAgent(c, i, k)
    \/ Answered(c)

\* A step of one call leaves the agents of another alone.
SameAgent(d) ==
    /\ agent'[d] = agent[d] /\ agentReply'[d] = agentReply[d] /\ submissions'[d] = submissions[d]
    /\ requests'[d] = requests[d] /\ proposal'[d] = proposal[d] /\ assented'[d] = assented[d]

\* What is to be shown of every move of call c.
AgentSound(c) ==
    /\ AgentsTypeOK'
    /\ AgentInv(c)'
    /\ \A d \in Calls : d # c => SameAgent(d)

\* The invariant of a call whose agents are left alone.
LEMMA SameAgentInv ==
    ASSUME NEW d \in Calls, AgentInv(d), SameAgent(d)
    PROVE  AgentInv(d)'
<1>1. SlotsInv(d)'
  BY DEF AgentInv, SlotsInv, SameAgent, Drafted
<1>2. FiledInv(d)'
  BY DEF AgentInv, FiledInv, SameAgent
<1> QED BY <1>1, <1>2 DEF AgentInv

-----------------------------------------------------------------------------
(***************************************************************************)
(* The shared steps of the operations: what they write, and for whom.      *)
(***************************************************************************)
\* Writing the record of one agent.
LEMMA AgentWritten ==
    ASSUME AgentsTypeOK, NEW c \in Calls, NEW a \in AgentRecords, agent' = [agent EXCEPT ![c] = a]
    PROVE  /\ agent' \in [Calls -> AgentRecords]
           /\ agent'[c] = a
           /\ \A d \in Calls : d # c => agent'[d] = agent[d]
BY DEF AgentsTypeOK, AgentRecords

\* Answering for one agent.
LEMMA AgentAnswered ==
    ASSUME AgentsTypeOK, NEW c \in Calls, NEW st \in AgentStatuses,
           NEW i \in Intents \cup {NoIntent}, AgentReplies(c, st, i)
    PROVE  /\ agentReply' \in [Calls -> AgentAnswers]
           /\ agentReply'[c].status = st
           /\ \A d \in Calls : d # c => agentReply'[d] = agentReply[d]
<1>1. Replied(st, i) \in AgentAnswers /\ Replied(st, i).status = st
  BY DEF Replied, AgentAnswers
<1> QED BY <1>1 DEF AgentsTypeOK, AgentAnswers, AgentReplies

\* The records of an agent after each of the assignments of the code.
LEMMA AgentRecord ==
    ASSUME AgentsTypeOK, NEW c \in Calls
    PROVE  /\ agent[c] \in AgentRecords
           /\ [agent[c] EXCEPT !.stage = "DONE"] \in AgentRecords
           /\ \A n \in Nat :
                 /\ [agent[c] EXCEPT !.soft = n] \in AgentRecords
                 /\ [agent[c] EXCEPT !.soft = n, !.stage = "DONE"] \in AgentRecords
                 /\ [agent[c] EXCEPT !.format = n] \in AgentRecords
                 /\ [agent[c] EXCEPT !.format = n, !.stage = "DONE"] \in AgentRecords
                 /\ [agent[c] EXCEPT !.confirm = n] \in AgentRecords
                 /\ [agent[c] EXCEPT !.confirm = n, !.stage = "DONE"] \in AgentRecords
           /\ agent[c].soft + 1 \in Nat /\ agent[c].format + 1 \in Nat /\ agent[c].confirm + 1 \in Nat
<1>1. agent[c] \in AgentRecords
  BY DEF AgentsTypeOK, AgentRecords
<1>2. "DONE" \in AgentStages
  BY DEF AgentStages
<1>3. [agent[c] EXCEPT !.stage = "DONE"] \in AgentRecords
  BY <1>1, <1>2 DEF AgentRecords
<1>4. ASSUME NEW n \in Nat
      PROVE  /\ [agent[c] EXCEPT !.soft = n] \in AgentRecords
             /\ [agent[c] EXCEPT !.format = n] \in AgentRecords
             /\ [agent[c] EXCEPT !.confirm = n] \in AgentRecords
  BY <1>1 DEF AgentRecords
<1>5. ASSUME NEW n \in Nat
      PROVE  /\ [agent[c] EXCEPT !.soft = n, !.stage = "DONE"] \in AgentRecords
             /\ [agent[c] EXCEPT !.format = n, !.stage = "DONE"] \in AgentRecords
             /\ [agent[c] EXCEPT !.confirm = n, !.stage = "DONE"] \in AgentRecords
  BY <1>1, <1>2 DEF AgentRecords
<1>6. agent[c].soft + 1 \in Nat /\ agent[c].format + 1 \in Nat /\ agent[c].confirm + 1 \in Nat
  BY <1>1 DEF AgentRecords
<1> QED BY <1>1, <1>3, <1>4, <1>5, <1>6

\* The request an open agent would submit is one that can be filed.
LEMMA DraftedIsRequest ==
    ASSUME AgentsTypeOK, NEW c \in Calls, SlotsInv(c), agent[c].stage # "DONE"
    PROVE  Drafted(c) \in Requests
BY DEF AgentsTypeOK, SlotsInv, Drafted, Requests

\* A move that files nothing: the counts of the call stay, and so does FiledInv.
FilesNothing == UNCHANGED <<submissions, requests, assented>>

\* A move that files nothing is sound once the agent it leaves is.
LEMMA NothingFiled ==
    ASSUME AgentsTypeOK, NEW c \in Calls, AgentInv(c), FilesNothing,
           agent' \in [Calls -> AgentRecords], agentReply' \in [Calls -> AgentAnswers],
           proposal' \in [Calls -> Requests \cup {NoRequest}],
           \A d \in Calls : d # c =>
              /\ agent'[d] = agent[d] /\ agentReply'[d] = agentReply[d]
              /\ proposal'[d] = proposal[d],
           SlotsInv(c)'
    PROVE  AgentSound(c)
<1>1. AgentsTypeOK'
  BY DEF AgentsTypeOK, FilesNothing, AgentRecords, AgentAnswers
<1>2. FiledInv(c)'
  BY DEF AgentInv, FiledInv, FilesNothing
<1>3. \A d \in Calls : d # c => SameAgent(d)
  BY DEF SameAgent, FilesNothing
<1> QED BY <1>1, <1>2, <1>3 DEF AgentSound, AgentInv

\* An agent that is done and answers anything but a question: nothing is to be
\* shown of its slots.
LEMMA AgentEnds ==
    ASSUME AgentsTypeOK, NEW c \in Calls, AgentInv(c), FilesNothing, UNCHANGED proposal,
           NEW a \in AgentRecords, a.stage = "DONE", agent' = [agent EXCEPT ![c] = a],
           NEW st \in AgentStatuses \ {"NEEDS_INPUT"}, NEW i \in Intents \cup {NoIntent},
           AgentReplies(c, st, i)
    PROVE  AgentSound(c)
<1>1. /\ agent' \in [Calls -> AgentRecords] /\ agent'[c] = a
      /\ \A d \in Calls : d # c => agent'[d] = agent[d]
  BY AgentWritten
<1>2. st \in AgentStatuses /\ st # "NEEDS_INPUT"
  OBVIOUS
<1>3. /\ agentReply' \in [Calls -> AgentAnswers] /\ agentReply'[c].status = st
      /\ \A d \in Calls : d # c => agentReply'[d] = agentReply[d]
  BY <1>2, AgentAnswered
<1>4. SlotsInv(c)'
  BY <1>1, <1>2, <1>3 DEF SlotsInv, AddressStages, ConfirmationStages
<1>5. proposal' \in [Calls -> Requests \cup {NoRequest}]
  BY DEF AgentsTypeOK
<1> QED BY <1>1, <1>3, <1>4, <1>5, NothingFiled

\* An agent that asks the same question again, with only a count changed.
LEMMA AgentAsksAgain ==
    ASSUME AgentsTypeOK, NEW c \in Calls, AgentInv(c), FilesNothing, UNCHANGED proposal,
           agent[c].stage # "DONE",
           NEW a \in AgentRecords, agent' = [agent EXCEPT ![c] = a],
           a.stage = agent[c].stage, a.intent = agent[c].intent,
           a.cif = agent[c].cif, a.address = agent[c].address,
           AgentReplies(c, "NEEDS_INPUT", NoIntent)
    PROVE  AgentSound(c)
<1>1. /\ agent' \in [Calls -> AgentRecords] /\ agent'[c] = a
      /\ \A d \in Calls : d # c => agent'[d] = agent[d]
  BY AgentWritten
<1>2. "NEEDS_INPUT" \in AgentStatuses /\ NoIntent \in Intents \cup {NoIntent}
  BY DEF AgentStatuses
<1>3. /\ agentReply' \in [Calls -> AgentAnswers] /\ agentReply'[c].status = "NEEDS_INPUT"
      /\ \A d \in Calls : d # c => agentReply'[d] = agentReply[d]
  BY <1>2, AgentAnswered
<1>4. SlotsInv(c)'
  BY <1>1, <1>3 DEF AgentInv, SlotsInv, Drafted
<1>5. proposal' \in [Calls -> Requests \cup {NoRequest}]
  BY DEF AgentsTypeOK
<1> QED BY <1>1, <1>3, <1>4, <1>5, NothingFiled

\* A yes: the proposal is assented to, and filed if the limit allows it.
LEMMA SubmitSound ==
    ASSUME AgentsTypeOK, NEW c \in Calls, AgentInv(c), agent[c].stage \in ConfirmationStages,
           Assent(c, "yes"), Submit(c, Drafted(c)), UNCHANGED proposal
    PROVE  AgentSound(c)
<1> DEFINE r == Drafted(c)
           m == MAX_SERVICE_REQUESTS_PER_CALL
<1>1. agent[c].stage # "DONE"
  BY DEF ConfirmationStages
<1>2. r \in Requests /\ proposal[c] = r
  BY <1>1, DraftedIsRequest DEF AgentInv, SlotsInv
<1>3. /\ requests[c] \in Seq(Requests) /\ assented[c] \in Seq(Requests)
      /\ submissions[c] \in Nat /\ Len(requests[c]) \in Nat
  BY LenProperties DEF AgentsTypeOK
<1>4. /\ IsPrefix(requests[c], assented[c]) /\ Len(requests[c]) <= m
      /\ Len(requests[c]) < Len(assented[c]) => Len(requests[c]) = m
      /\ submissions[c] = Len(requests[c])
  BY DEF AgentInv, FiledInv
<1>5. assented' = [assented EXCEPT ![c] = Append(@, r)]
  BY <1>2 DEF Assent
<1> HIDE DEF r
<1>6. /\ Append(assented[c], r) \in Seq(Requests) /\ Append(requests[c], r) \in Seq(Requests)
      /\ Len(Append(requests[c], r)) = Len(requests[c]) + 1
  BY <1>2, <1>3, AppendProperties
<1>7. /\ assented' \in [Calls -> Seq(Requests)] /\ assented'[c] = Append(assented[c], r)
      /\ \A d \in Calls : d # c => assented'[d] = assented[d]
  BY <1>5, <1>6 DEF AgentsTypeOK
<1>8. /\ Len(requests[c]) < m => /\ IsPrefix(Append(requests[c], r), Append(assented[c], r))
                                 /\ Len(Append(requests[c], r)) = Len(Append(assented[c], r))
      /\ IsPrefix(requests[c], Append(assented[c], r))
  BY <1>2, <1>3, <1>4, PrefixGrows, AgentAssumption
<1>9. /\ [agent[c] EXCEPT !.stage = "DONE"] \in AgentRecords
      /\ [agent[c] EXCEPT !.stage = "DONE"].stage = "DONE"
  <2>1. agent[c] \in AgentRecords /\ [agent[c] EXCEPT !.stage = "DONE"] \in AgentRecords
    BY AgentRecord
  <2> QED BY <2>1 DEF AgentRecords
<1>10. agent' = [agent EXCEPT ![c] = [agent[c] EXCEPT !.stage = "DONE"]]
  BY DEF Submit, AgentEscalates
<1>11. /\ agent' \in [Calls -> AgentRecords] /\ agent'[c].stage = "DONE"
       /\ \A d \in Calls : d # c => agent'[d] = agent[d]
  BY <1>9, <1>10, AgentWritten
<1>12. \E st \in {"COMPLETED", "ESCALATE"} : AgentReplies(c, st, NoIntent)
  BY DEF Submit, AgentEscalates
<1>13. /\ agentReply' \in [Calls -> AgentAnswers] /\ agentReply'[c].status # "NEEDS_INPUT"
       /\ \A d \in Calls : d # c => agentReply'[d] = agentReply[d]
  BY <1>12, AgentAnswered DEF AgentStatuses
<1>14. SlotsInv(c)'
  BY <1>11, <1>13 DEF SlotsInv, AddressStages, ConfirmationStages
<1>15. proposal' \in [Calls -> Requests \cup {NoRequest}]
  BY DEF AgentsTypeOK
<1>16. /\ requests' \in [Calls -> Seq(Requests)] /\ submissions' \in [Calls -> Nat]
       /\ FiledInv(c)'
       /\ \A d \in Calls : d # c => requests'[d] = requests[d] /\ submissions'[d] = submissions[d]
  <2>1. CASE CanSubmit(c)
    <3>1. /\ requests' = [requests EXCEPT ![c] = Append(@, r)]
          /\ submissions' = [submissions EXCEPT ![c] = @ + 1]
      BY <2>1 DEF Submit, FileRequest, r
    <3>2. /\ requests'[c] = Append(requests[c], r) /\ submissions'[c] = submissions[c] + 1
          /\ requests' \in [Calls -> Seq(Requests)] /\ submissions' \in [Calls -> Nat]
          /\ \A d \in Calls : d # c => requests'[d] = requests[d] /\ submissions'[d] = submissions[d]
      BY <1>3, <1>6, <3>1 DEF AgentsTypeOK
    <3>3. Len(requests[c]) < m
      BY <1>4, <2>1 DEF CanSubmit
    <3>4. /\ IsPrefix(Append(requests[c], r), Append(assented[c], r))
          /\ Len(Append(requests[c], r)) = Len(Append(assented[c], r))
      BY <1>8, <3>3
    <3>5. Len(requests[c]) + 1 <= m
      BY <1>3, <3>3, AgentAssumption
    <3>6. FiledInv(c)'
      BY <1>3, <1>4, <1>6, <1>7, <3>2, <3>4, <3>5 DEF FiledInv
    <3> QED BY <3>2, <3>6
  <2>2. CASE ~CanSubmit(c)
    <3>1. requests' = requests /\ submissions' = submissions
      BY <2>2 DEF Submit
    <3>2. Len(requests[c]) = m
      BY <1>3, <1>4, <2>2, AgentAssumption DEF CanSubmit
    <3>3. FiledInv(c)'
      BY <1>4, <1>7, <1>8, <3>1, <3>2 DEF FiledInv
    <3> QED BY <3>1, <3>3 DEF AgentsTypeOK
  <2> QED BY <2>1, <2>2
<1>17. AgentsTypeOK'
  BY <1>7, <1>11, <1>13, <1>15, <1>16 DEF AgentsTypeOK, AgentRecords, AgentAnswers
<1>18. \A d \in Calls : d # c => SameAgent(d)
  BY <1>7, <1>11, <1>13, <1>16 DEF SameAgent
<1> QED BY <1>14, <1>16, <1>17, <1>18 DEF AgentSound, AgentInv

\* An unclear answer to a confirmation question.
LEMMA RepromptSound ==
    ASSUME AgentsTypeOK, NEW c \in Calls, AgentInv(c), agent[c].stage # "DONE",
           RepromptConfirmation(c), FilesNothing, UNCHANGED proposal
    PROVE  AgentSound(c)
<1> DEFINE n == agent[c].confirm + 1
           asks == [agent[c] EXCEPT !.confirm = n]
           ends == [agent[c] EXCEPT !.confirm = n, !.stage = "DONE"]
<1>1. /\ asks \in AgentRecords /\ ends \in AgentRecords /\ agent[c] \in AgentRecords
      /\ {"ESCALATE"} \subseteq AgentStatuses \ {"NEEDS_INPUT"}
      /\ NoIntent \in Intents \cup {NoIntent}
  BY AgentRecord DEF AgentStatuses
<1>2. /\ asks.stage = agent[c].stage /\ asks.intent = agent[c].intent
      /\ asks.cif = agent[c].cif /\ asks.address = agent[c].address
      /\ ends.stage = "DONE"
  BY <1>1 DEF AgentRecords
<1>3. \/ agent' = [agent EXCEPT ![c] = ends] /\ AgentReplies(c, "ESCALATE", NoIntent)
      \/ agent' = [agent EXCEPT ![c] = asks] /\ AgentReplies(c, "NEEDS_INPUT", NoIntent)
  BY DEF RepromptConfirmation
<1> HIDE DEF asks, ends
<1>4. CASE agent' = [agent EXCEPT ![c] = ends] /\ AgentReplies(c, "ESCALATE", NoIntent)
  BY <1>1, <1>2, <1>4, AgentEnds
<1>5. CASE agent' = [agent EXCEPT ![c] = asks] /\ AgentReplies(c, "NEEDS_INPUT", NoIntent)
  BY <1>1, <1>2, <1>5, AgentAsksAgain
<1> QED BY <1>3, <1>4, <1>5

-----------------------------------------------------------------------------
(***************************************************************************)
(* The operations.                                                         *)
(***************************************************************************)
\* A new registry has filed nothing and has no agent.
LEMMA NewRegistrySound ==
    ASSUME AgentsTypeOK, NEW c \in Calls, NewRegistry(c)
    PROVE  AgentSound(c)
<1>1. /\ FreshAgent(NoIntent, NoCif, "DONE") \in AgentRecords
      /\ FreshAgent(NoIntent, NoCif, "DONE").stage = "DONE"
  BY DEF FreshAgent, AgentRecords, AgentStages
<1>2. /\ agent' \in [Calls -> AgentRecords] /\ agent'[c].stage = "DONE"
      /\ \A d \in Calls : d # c => agent'[d] = agent[d]
  BY <1>1, AgentWritten DEF NewRegistry
<1>3. AgentReplies(c, "NONE", NoIntent) /\ "NONE" \in AgentStatuses
  BY DEF NewRegistry, AgentReplies, AgentStatuses
<1>4. /\ agentReply' \in [Calls -> AgentAnswers] /\ agentReply'[c].status = "NONE"
      /\ \A d \in Calls : d # c => agentReply'[d] = agentReply[d]
  BY <1>3, AgentAnswered
<1> DEFINE e == <<>>
<1>5. /\ e \in Seq(Requests) /\ Len(e) = 0
      /\ requests' = [requests EXCEPT ![c] = e] /\ assented' = [assented EXCEPT ![c] = e]
  BY EmptySeq DEF NewRegistry
<1> HIDE DEF e
<1>6. /\ requests' \in [Calls -> Seq(Requests)] /\ requests'[c] = e
      /\ assented' \in [Calls -> Seq(Requests)] /\ assented'[c] = e
      /\ submissions' \in [Calls -> Nat] /\ submissions'[c] = 0
      /\ proposal' \in [Calls -> Requests \cup {NoRequest}]
      /\ \A d \in Calls : d # c =>
            /\ requests'[d] = requests[d] /\ assented'[d] = assented[d]
            /\ submissions'[d] = submissions[d] /\ proposal'[d] = proposal[d]
  BY <1>5 DEF AgentsTypeOK, NewRegistry
<1>7. AgentsTypeOK'
  BY <1>2, <1>4, <1>6 DEF AgentsTypeOK, AgentRecords, AgentAnswers
<1>8. SlotsInv(c)'
  BY <1>2, <1>4 DEF SlotsInv, AddressStages, ConfirmationStages
<1>9. FiledInv(c)'
  <2>1. IsPrefix(e, e)
    BY <1>5 DEF IsPrefix
  <2> QED BY <1>5, <1>6, <2>1 DEF FiledInv
<1>10. \A d \in Calls : d # c => SameAgent(d)
  BY <1>2, <1>4, <1>6 DEF SameAgent
<1> QED BY <1>7, <1>8, <1>9, <1>10 DEF AgentSound, AgentInv

\* A new agent, for an intent and a customer that the gate let through.
LEMMA StartAgentSound ==
    ASSUME AgentsTypeOK, NEW c \in Calls, AgentInv(c), NEW i \in Intents, NEW k \in Customers,
           StartAgent(c, i, k)
    PROVE  AgentSound(c)
<1>1. FilesNothing
  BY DEF StartAgent, FilesNothing
<1>2. ASSUME NEW s \in AgentStages, NEW st \in AgentStatuses, NEW r \in Requests \cup {NoRequest},
             agent' = [agent EXCEPT ![c] = FreshAgent(i, k, s)],
             AgentReplies(c, st, NoIntent), Propose(c, r),
             s # "DONE" <=> st = "NEEDS_INPUT",
             s # "DONE" => i \in ServiceIntents,
             s \in AddressStages => i = "change_of_address",
             s \in ConfirmationStages => r = [cif |-> k, kind |-> i, address |-> NoAddress]
      PROVE  AgentSound(c)
  <2> DEFINE a == FreshAgent(i, k, s)
  <2>1. /\ a \in AgentRecords /\ a.stage = s /\ a.intent = i /\ a.cif = k /\ a.address = NoAddress
    BY DEF FreshAgent, AgentRecords
  <2>2. agent' = [agent EXCEPT ![c] = a]
    BY <1>2
  <2> HIDE DEF a
  <2>3. /\ agent' \in [Calls -> AgentRecords] /\ agent'[c] = a
        /\ \A d \in Calls : d # c => agent'[d] = agent[d]
    BY <2>1, <2>2, AgentWritten
  <2>4. /\ agentReply' \in [Calls -> AgentAnswers] /\ agentReply'[c].status = st
        /\ \A d \in Calls : d # c => agentReply'[d] = agentReply[d]
    BY <1>2, AgentAnswered
  <2>5. /\ proposal' \in [Calls -> Requests \cup {NoRequest}] /\ proposal'[c] = r
        /\ \A d \in Calls : d # c => proposal'[d] = proposal[d]
    BY <1>2 DEF AgentsTypeOK, Propose
  <2>6. SlotsInv(c)'
    BY <1>2, <2>1, <2>3, <2>4, <2>5 DEF SlotsInv, Drafted
  <2> QED BY <1>1, <2>3, <2>4, <2>5, <2>6, NothingFiled
<1>3. CASE i \in ImmediateIntents /\ agent' = [agent EXCEPT ![c] = FreshAgent(i, k, "DONE")]
  <2>1. AgentReplies(c, "COMPLETED", NoIntent) /\ Propose(c, NoRequest)
    BY <1>3 DEF StartAgent, ImmediateIntents
  <2>2. /\ "DONE" \in AgentStages /\ "COMPLETED" \in AgentStatuses
        /\ "DONE" \notin AddressStages \cup ConfirmationStages
    BY DEF AgentStages, AgentStatuses, AddressStages, ConfirmationStages
  <2> QED BY <1>2, <1>3, <2>1, <2>2
<1>4. CASE i = "change_of_address"
  <2>1. /\ agent' = [agent EXCEPT ![c] = FreshAgent(i, k, "AWAITING_ADDRESS")]
        /\ AgentReplies(c, "NEEDS_INPUT", NoIntent) /\ Propose(c, NoRequest)
    BY <1>4 DEF StartAgent, ImmediateIntents
  <2>2. /\ "AWAITING_ADDRESS" \in AgentStages /\ "NEEDS_INPUT" \in AgentStatuses
        /\ "AWAITING_ADDRESS" \notin ConfirmationStages /\ i \in ServiceIntents
    BY <1>4 DEF AgentStages, AgentStatuses, ConfirmationStages, ServiceIntents
  <2> QED BY <1>2, <1>4, <2>1, <2>2
<1>5. CASE i \in {"cheque_book_request", "kyc_update"}
  <2> DEFINE r == [cif |-> k, kind |-> i, address |-> NoAddress]
  <2>1. /\ agent' = [agent EXCEPT ![c] = FreshAgent(i, k, "AWAITING_TOOL_CONFIRMATION")]
        /\ AgentReplies(c, "NEEDS_INPUT", NoIntent) /\ Propose(c, r)
    BY <1>5 DEF StartAgent, ImmediateIntents
  <2>2. /\ "AWAITING_TOOL_CONFIRMATION" \in AgentStages /\ "NEEDS_INPUT" \in AgentStatuses
        /\ "AWAITING_TOOL_CONFIRMATION" \notin AddressStages /\ i \in ServiceIntents
    BY <1>5 DEF AgentStages, AgentStatuses, AddressStages, ServiceIntents
  <2>3. r \in Requests \cup {NoRequest}
    BY <2>2 DEF Requests
  <2>4. r = [cif |-> k, kind |-> i, address |-> NoAddress]
    OBVIOUS
  <2> HIDE DEF r
  <2> QED BY <1>2, <2>1, <2>2, <2>3, <2>4
<1> QED BY <1>3, <1>4, <1>5 DEF StartAgent

\* An answer that was not caught.
LEMMA NotCaughtSound ==
    ASSUME AgentsTypeOK, NEW c \in Calls, AgentInv(c), NotCaught(c)
    PROVE  AgentSound(c)
<1> DEFINE n == agent[c].soft + 1
           asks == [agent[c] EXCEPT !.soft = n]
           ends == [agent[c] EXCEPT !.soft = n, !.stage = "DONE"]
<1>1. /\ asks \in AgentRecords /\ ends \in AgentRecords /\ agent[c] \in AgentRecords
      /\ "ESCALATE" \in AgentStatuses \ {"NEEDS_INPUT"}
      /\ NoIntent \in Intents \cup {NoIntent}
  BY AgentRecord DEF AgentStatuses
<1>2. /\ asks.stage = agent[c].stage /\ asks.intent = agent[c].intent
      /\ asks.cif = agent[c].cif /\ asks.address = agent[c].address
      /\ ends.stage = "DONE"
  BY <1>1 DEF AgentRecords
<1>3. /\ agent[c].stage # "DONE" /\ FilesNothing /\ UNCHANGED proposal
      /\ \/ agent' = [agent EXCEPT ![c] = ends] /\ AgentReplies(c, "ESCALATE", NoIntent)
         \/ agent' = [agent EXCEPT ![c] = asks] /\ AgentReplies(c, "NEEDS_INPUT", NoIntent)
  BY DEF NotCaught, FilesNothing
<1> HIDE DEF asks, ends
<1>4. CASE agent' = [agent EXCEPT ![c] = ends] /\ AgentReplies(c, "ESCALATE", NoIntent)
  BY <1>1, <1>2, <1>3, <1>4, AgentEnds
<1>5. CASE agent' = [agent EXCEPT ![c] = asks] /\ AgentReplies(c, "NEEDS_INPUT", NoIntent)
  BY <1>1, <1>2, <1>3, <1>5, AgentAsksAgain
<1> QED BY <1>3, <1>4, <1>5

\* An answer to the question for the address: another topic, nothing usable, or
\* an address, which is read back.
LEMMA GiveAddressSound ==
    ASSUME AgentsTypeOK, NEW c \in Calls, AgentInv(c), NEW i \in Intents \cup {NoIntent},
           NEW a \in Addresses \cup {NoAddress}, GiveAddress(c, i, a)
    PROVE  AgentSound(c)
<1> DEFINE n == agent[c].format + 1
           asks == [agent[c] EXCEPT !.format = n]
           ends == [agent[c] EXCEPT !.format = n, !.stage = "DONE"]
           leaves == [agent[c] EXCEPT !.stage = "DONE"]
           reads == [agent[c] EXCEPT !.address = a, !.stage = "AWAITING_ADDRESS_CONFIRMATION"]
           r == [cif |-> agent[c].cif, kind |-> "change_of_address", address |-> a]
<1>1. /\ asks \in AgentRecords /\ ends \in AgentRecords /\ agent[c] \in AgentRecords
      /\ leaves \in AgentRecords
      /\ {"ESCALATE", "NEED_HANDOFF"} \subseteq AgentStatuses \ {"NEEDS_INPUT"}
      /\ "NEEDS_INPUT" \in AgentStatuses
      /\ NoIntent \in Intents \cup {NoIntent}
  BY AgentRecord DEF AgentStatuses
<1>2. reads \in AgentRecords
  BY <1>1 DEF AgentRecords, AgentStages
<1>3. /\ asks.stage = agent[c].stage /\ asks.intent = agent[c].intent
      /\ asks.cif = agent[c].cif /\ asks.address = agent[c].address
      /\ ends.stage = "DONE" /\ leaves.stage = "DONE"
      /\ reads.stage = "AWAITING_ADDRESS_CONFIRMATION" /\ reads.intent = agent[c].intent
      /\ reads.cif = agent[c].cif /\ reads.address = a
  BY <1>1 DEF AgentRecords
<1>4. /\ agent[c].stage = "AWAITING_ADDRESS" /\ FilesNothing
      /\ \/ agent' = [agent EXCEPT ![c] = leaves] /\ AgentReplies(c, "NEED_HANDOFF", i)
            /\ UNCHANGED proposal
         \/ agent' = [agent EXCEPT ![c] = ends] /\ AgentReplies(c, "ESCALATE", NoIntent)
            /\ UNCHANGED proposal
         \/ agent' = [agent EXCEPT ![c] = asks] /\ AgentReplies(c, "NEEDS_INPUT", NoIntent)
            /\ UNCHANGED proposal
         \/ agent' = [agent EXCEPT ![c] = reads] /\ AgentReplies(c, "NEEDS_INPUT", NoIntent)
            /\ Propose(c, r)
  BY DEF GiveAddress, FilesNothing
<1>5. /\ agent[c].cif \in Customers /\ agent[c].intent = "change_of_address"
      /\ agent[c].intent \in ServiceIntents
  BY <1>4 DEF AgentInv, SlotsInv, AddressStages
<1>6. r \in Requests \cup {NoRequest}
  BY <1>5 DEF Requests, ServiceIntents
<1> HIDE DEF asks, ends, leaves, reads
<1>7. CASE agent' = [agent EXCEPT ![c] = leaves] /\ AgentReplies(c, "NEED_HANDOFF", i)
           /\ UNCHANGED proposal
  BY <1>1, <1>3, <1>4, <1>7, AgentEnds
<1>8. CASE agent' = [agent EXCEPT ![c] = ends] /\ AgentReplies(c, "ESCALATE", NoIntent)
           /\ UNCHANGED proposal
  BY <1>1, <1>3, <1>4, <1>8, AgentEnds
<1>9. CASE agent' = [agent EXCEPT ![c] = asks] /\ AgentReplies(c, "NEEDS_INPUT", NoIntent)
           /\ UNCHANGED proposal
  BY <1>1, <1>3, <1>4, <1>9, AgentAsksAgain
<1>10. CASE agent' = [agent EXCEPT ![c] = reads] /\ AgentReplies(c, "NEEDS_INPUT", NoIntent)
            /\ Propose(c, r)
  <2>1. /\ agent' \in [Calls -> AgentRecords] /\ agent'[c] = reads
        /\ \A d \in Calls : d # c => agent'[d] = agent[d]
    BY <1>2, <1>10, AgentWritten
  <2>2. /\ agentReply' \in [Calls -> AgentAnswers] /\ agentReply'[c].status = "NEEDS_INPUT"
        /\ \A d \in Calls : d # c => agentReply'[d] = agentReply[d]
    BY <1>1, <1>10, AgentAnswered
  <2>3. /\ proposal' \in [Calls -> Requests \cup {NoRequest}] /\ proposal'[c] = r
        /\ \A d \in Calls : d # c => proposal'[d] = proposal[d]
    BY <1>6, <1>10 DEF AgentsTypeOK, Propose
  <2>4. SlotsInv(c)'
    BY <1>3, <1>5, <2>1, <2>2, <2>3 DEF SlotsInv, Drafted
  <2> QED BY <1>4, <2>1, <2>2, <2>3, <2>4, NothingFiled
<1> QED BY <1>4, <1>7, <1>8, <1>9, <1>10

\* The answer to a confirmation question, in either of the two stages: what a no
\* does is the only difference.
LEMMA ConfirmAddressSound ==
    ASSUME AgentsTypeOK, NEW c \in Calls, AgentInv(c), NEW answer \in YesNo,
           ConfirmAddress(c, answer)
    PROVE  AgentSound(c)
<1>1. /\ agent[c].stage = "AWAITING_ADDRESS_CONFIRMATION" /\ UNCHANGED proposal
      /\ agent[c].stage \in ConfirmationStages /\ agent[c].stage # "DONE"
  BY DEF ConfirmAddress, ConfirmationStages
<1>2. CASE answer = "unclear"
  <2>1. RepromptConfirmation(c) /\ FilesNothing
    BY <1>2 DEF ConfirmAddress, FilesNothing, Assent
  <2> QED BY <1>1, <2>1, RepromptSound
<1>3. CASE answer = "no"
  <2> DEFINE a == [agent[c] EXCEPT !.stage = "AWAITING_ADDRESS", !.address = NoAddress, !.confirm = 0]
  <2>1. agent[c] \in AgentRecords
    BY AgentRecord
  <2>2. /\ a \in AgentRecords /\ a.stage = "AWAITING_ADDRESS"
        /\ a.intent = agent[c].intent /\ a.cif = agent[c].cif
    BY <2>1 DEF AgentRecords, AgentStages
  <2>3. /\ agent' = [agent EXCEPT ![c] = a] /\ AgentReplies(c, "NEEDS_INPUT", NoIntent)
        /\ FilesNothing
    BY <1>3 DEF ConfirmAddress, FilesNothing, Assent
  <2> HIDE DEF a
  <2>4. /\ agent' \in [Calls -> AgentRecords] /\ agent'[c] = a
        /\ \A d \in Calls : d # c => agent'[d] = agent[d]
    BY <2>2, <2>3, AgentWritten
  <2>5. "NEEDS_INPUT" \in AgentStatuses /\ NoIntent \in Intents \cup {NoIntent}
    BY DEF AgentStatuses
  <2>6. /\ agentReply' \in [Calls -> AgentAnswers] /\ agentReply'[c].status = "NEEDS_INPUT"
        /\ \A d \in Calls : d # c => agentReply'[d] = agentReply[d]
    BY <2>3, <2>5, AgentAnswered
  <2>7. SlotsInv(c)'
    BY <1>1, <2>2, <2>4, <2>6 DEF AgentInv, SlotsInv, AddressStages, ConfirmationStages
  <2>8. proposal' \in [Calls -> Requests \cup {NoRequest}]
    BY <1>1 DEF AgentsTypeOK
  <2> QED BY <1>1, <2>3, <2>4, <2>6, <2>7, <2>8, NothingFiled
<1>4. CASE answer = "yes"
  <2>1. Assent(c, "yes") /\ Submit(c, Drafted(c))
    BY <1>4 DEF ConfirmAddress
  <2> QED BY <1>1, <2>1, SubmitSound
<1> QED BY <1>2, <1>3, <1>4 DEF YesNo

\* Confirming a tool call files what was read back, on a yes only.
LEMMA ConfirmToolSound ==
    ASSUME AgentsTypeOK, NEW c \in Calls, AgentInv(c), NEW answer \in YesNo,
           ConfirmTool(c, answer)
    PROVE  AgentSound(c)
<1>1. /\ UNCHANGED proposal
      /\ agent[c].stage \in ConfirmationStages /\ agent[c].stage # "DONE"
  BY DEF ConfirmTool, ConfirmationStages
<1>2. CASE answer = "unclear"
  <2>1. RepromptConfirmation(c) /\ FilesNothing
    BY <1>2 DEF ConfirmTool, FilesNothing, Assent
  <2> QED BY <1>1, <2>1, RepromptSound
<1>3. CASE answer = "no"
  <2> DEFINE a == [agent[c] EXCEPT !.stage = "DONE"]
  <2>1. agent[c] \in AgentRecords /\ a \in AgentRecords
    BY AgentRecord
  <2>2. a.stage = "DONE"
    BY <2>1 DEF AgentRecords
  <2>3. /\ agent' = [agent EXCEPT ![c] = a] /\ AgentReplies(c, "COMPLETED", NoIntent)
        /\ FilesNothing
    BY <1>3 DEF ConfirmTool, FilesNothing, Assent
  <2> HIDE DEF a
  <2>4. "COMPLETED" \in AgentStatuses \ {"NEEDS_INPUT"} /\ NoIntent \in Intents \cup {NoIntent}
    BY DEF AgentStatuses
  <2> QED BY <1>1, <2>1, <2>2, <2>3, <2>4, AgentEnds
<1>4. CASE answer = "yes"
  <2>1. Assent(c, "yes") /\ Submit(c, Drafted(c))
    BY <1>4 DEF ConfirmTool
  <2> QED BY <1>1, <2>1, SubmitSound
<1> QED BY <1>2, <1>3, <1>4 DEF YesNo

-----------------------------------------------------------------------------
(***************************************************************************)
(* The price of an answer.                                                 *)
(***************************************************************************)
\* An agent that goes on has passed none of its limits.
CountsInv(c) ==
    agent[c].stage # "DONE" =>
        /\ agent[c].soft <= AGENT_SOFT_REPROMPT_MAX
        /\ agent[c].format <= AGENT_SOFT_REPROMPT_MAX
        /\ agent[c].confirm <= AGENT_SOFT_REPROMPT_MAX

\* The four ways an answer leaves an agent open: one of the counts is raised within
\* its limit, an address is given, or one is rejected.
GoesOn(c) ==
    \/ /\ ~(agent[c].soft + 1 > AGENT_SOFT_REPROMPT_MAX)
       /\ agent'[c] = [agent[c] EXCEPT !.soft = agent[c].soft + 1]
    \/ /\ ~(agent[c].format + 1 > AGENT_SOFT_REPROMPT_MAX)
       /\ agent'[c] = [agent[c] EXCEPT !.format = agent[c].format + 1]
    \/ /\ ~(agent[c].confirm + 1 > AGENT_SOFT_REPROMPT_MAX)
       /\ agent'[c] = [agent[c] EXCEPT !.confirm = agent[c].confirm + 1]
    \/ /\ agent[c].stage = "AWAITING_ADDRESS"
       /\ \E a : agent'[c] = [agent[c] EXCEPT !.address = a, !.stage = "AWAITING_ADDRESS_CONFIRMATION"]
    \/ /\ agent[c].stage = "AWAITING_ADDRESS_CONFIRMATION"
       /\ agent'[c] = [agent[c] EXCEPT !.stage = "AWAITING_ADDRESS", !.address = NoAddress, !.confirm = 0]

\* There is no other.
LEMMA OpenGoesOn ==
    ASSUME AgentsTypeOK, NEW c \in Calls, Answered(c), agent'[c].stage # "DONE"
    PROVE  agent[c].stage # "DONE" /\ GoesOn(c)
<1>1. agent \in [Calls -> AgentRecords] /\ agent[c] \in AgentRecords
  BY DEF AgentsTypeOK, AgentRecords
<1>2. ASSUME NEW a, agent' = [agent EXCEPT ![c] = a] PROVE agent'[c] = a
  BY <1>1, <1>2
<1>3. /\ [agent[c] EXCEPT !.stage = "DONE"].stage = "DONE"
      /\ \A n : /\ [agent[c] EXCEPT !.soft = n, !.stage = "DONE"].stage = "DONE"
                /\ [agent[c] EXCEPT !.format = n, !.stage = "DONE"].stage = "DONE"
                /\ [agent[c] EXCEPT !.confirm = n, !.stage = "DONE"].stage = "DONE"
  BY <1>1 DEF AgentRecords
<1>4. PICK s \in AgentInputs : SubmitInput(c, s)
  BY DEF Answered
<1>5. ASSUME NEW r, Submit(c, r) PROVE FALSE
  <2>1. agent' = [agent EXCEPT ![c] = [agent[c] EXCEPT !.stage = "DONE"]]
    BY <1>5 DEF Submit, AgentEscalates
  <2> QED BY <1>2, <1>3, <2>1
<1>6. CASE NotCaught(c)
  <2>1. /\ agent[c].stage # "DONE"
        /\ \/ agent' = [agent EXCEPT ![c] = [agent[c] EXCEPT !.soft = agent[c].soft + 1, !.stage = "DONE"]]
           \/ /\ ~(agent[c].soft + 1 > AGENT_SOFT_REPROMPT_MAX)
              /\ agent' = [agent EXCEPT ![c] = [agent[c] EXCEPT !.soft = agent[c].soft + 1]]
    BY <1>6 DEF NotCaught
  <2>2. /\ ~(agent[c].soft + 1 > AGENT_SOFT_REPROMPT_MAX)
        /\ agent'[c] = [agent[c] EXCEPT !.soft = agent[c].soft + 1]
    BY <1>2, <1>3, <2>1
  <2> QED BY <2>1, <2>2, Zenon DEF GoesOn
<1>7. ASSUME NEW i, NEW a, GiveAddress(c, i, a) PROVE agent[c].stage # "DONE" /\ GoesOn(c)
  <2> DEFINE leaves == [agent[c] EXCEPT !.stage = "DONE"]
             ends == [agent[c] EXCEPT !.format = agent[c].format + 1, !.stage = "DONE"]
             asks == [agent[c] EXCEPT !.format = agent[c].format + 1]
             reads == [agent[c] EXCEPT !.address = a, !.stage = "AWAITING_ADDRESS_CONFIRMATION"]
  <2>1. /\ agent[c].stage = "AWAITING_ADDRESS"
        /\ \/ agent' = [agent EXCEPT ![c] = leaves]
           \/ agent' = [agent EXCEPT ![c] = ends]
           \/ /\ ~(agent[c].format + 1 > AGENT_SOFT_REPROMPT_MAX)
              /\ agent' = [agent EXCEPT ![c] = asks]
           \/ agent' = [agent EXCEPT ![c] = reads]
    BY <1>7 DEF GiveAddress
  <2>2. leaves.stage = "DONE" /\ ends.stage = "DONE"
    BY <1>3
  <2> HIDE DEF leaves, ends, asks, reads
  <2>3. \/ ~(agent[c].format + 1 > AGENT_SOFT_REPROMPT_MAX) /\ agent'[c] = asks
        \/ agent'[c] = reads
    BY <1>2, <2>1, <2>2
  <2> QED BY <2>1, <2>3, Zenon DEF GoesOn, asks, reads
<1>8. ASSUME RepromptConfirmation(c) PROVE GoesOn(c)
  <2>1. \/ agent' = [agent EXCEPT ![c] = [agent[c] EXCEPT !.confirm = agent[c].confirm + 1, !.stage = "DONE"]]
        \/ /\ ~(agent[c].confirm + 1 > AGENT_SOFT_REPROMPT_MAX)
           /\ agent' = [agent EXCEPT ![c] = [agent[c] EXCEPT !.confirm = agent[c].confirm + 1]]
    BY <1>8 DEF RepromptConfirmation
  <2>2. /\ ~(agent[c].confirm + 1 > AGENT_SOFT_REPROMPT_MAX)
        /\ agent'[c] = [agent[c] EXCEPT !.confirm = agent[c].confirm + 1]
    BY <1>2, <1>3, <2>1
  <2> QED BY <2>2, Zenon DEF GoesOn
<1>9. ASSUME NEW answer, ConfirmAddress(c, answer) PROVE agent[c].stage # "DONE" /\ GoesOn(c)
  <2>1. agent[c].stage = "AWAITING_ADDRESS_CONFIRMATION"
    BY <1>9 DEF ConfirmAddress
  <2>2. CASE agent' = [agent EXCEPT ![c].stage = "AWAITING_ADDRESS",
                                    ![c].address = NoAddress, ![c].confirm = 0]
    <3>1. agent'[c] = [agent[c] EXCEPT !.stage = "AWAITING_ADDRESS", !.address = NoAddress, !.confirm = 0]
      BY <1>1, <2>2
    <3> QED BY <2>1, <3>1 DEF GoesOn
  <2> QED BY <1>5, <1>8, <1>9, <2>1, <2>2 DEF ConfirmAddress
<1>10. ASSUME NEW answer, ConfirmTool(c, answer) PROVE agent[c].stage # "DONE" /\ GoesOn(c)
  <2>1. agent[c].stage = "AWAITING_TOOL_CONFIRMATION"
    BY <1>10 DEF ConfirmTool
  <2>2. CASE agent' = [agent EXCEPT ![c].stage = "DONE"]
    <3>1. agent' = [agent EXCEPT ![c] = [agent[c] EXCEPT !.stage = "DONE"]]
      BY <2>2
    <3> QED BY <1>2, <1>3, <3>1
  <2> QED BY <1>5, <1>8, <1>10, <2>1, <2>2 DEF ConfirmTool
<1> QED BY <1>4, <1>6, <1>7, <1>9, <1>10 DEF SubmitInput

\* And in each of them the counts stay within their limits, and some patience is
\* used up, unless an address is rejected.
LEMMA GoingOnCosts ==
    ASSUME AgentsTypeOK, NEW c \in Calls, CountsInv(c), agent[c].stage # "DONE",
           agent'[c].stage # "DONE", GoesOn(c)
    PROVE  /\ CountsInv(c)'
           /\ ~Decline(c) => PatienceLeft(c)' \in 0..PatienceLeft(c) - 1
<1> DEFINE a == agent[c]
           b == agent'[c]
           m == AGENT_SOFT_REPROMPT_MAX
           open(x) == IF x.stage = "AWAITING_ADDRESS" THEN 1 ELSE 0
<1>1. a \in AgentRecords
  BY DEF AgentsTypeOK, AgentRecords
<1>2. a.soft \in 0..m /\ a.format \in 0..m /\ a.confirm \in 0..m /\ m \in Nat
  BY <1>1, AgentAssumption DEF CountsInv, AgentRecords
<1>3. /\ PatienceLeft(c) = (m - a.soft) + (m - a.format) + (m - a.confirm) + open(a)
      /\ PatienceLeft(c)' = (m - b.soft) + (m - b.format) + (m - b.confirm) + open(b)
      /\ open(a) \in 0..1 /\ open(b) \in 0..1
  BY DEF PatienceLeft
<1>4. \/ a.soft + 1 <= m /\ b.soft = a.soft + 1 /\ b.format = a.format /\ b.confirm = a.confirm /\ b.stage = a.stage
      \/ a.format + 1 <= m /\ b.soft = a.soft /\ b.format = a.format + 1 /\ b.confirm = a.confirm /\ b.stage = a.stage
      \/ a.confirm + 1 <= m /\ b.soft = a.soft /\ b.format = a.format /\ b.confirm = a.confirm + 1 /\ b.stage = a.stage
      \/ /\ a.stage = "AWAITING_ADDRESS" /\ b.stage = "AWAITING_ADDRESS_CONFIRMATION"
         /\ b.soft = a.soft /\ b.format = a.format /\ b.confirm = a.confirm
      \/ /\ a.stage = "AWAITING_ADDRESS_CONFIRMATION" /\ b.stage = "AWAITING_ADDRESS"
         /\ b.soft = a.soft /\ b.format = a.format /\ b.confirm = 0
  <2>1. CASE ~(a.soft + 1 > m) /\ b = [a EXCEPT !.soft = a.soft + 1]
    BY <1>1, <1>2, <2>1 DEF AgentRecords
  <2>2. CASE ~(a.format + 1 > m) /\ b = [a EXCEPT !.format = a.format + 1]
    BY <1>1, <1>2, <2>2 DEF AgentRecords
  <2>3. CASE ~(a.confirm + 1 > m) /\ b = [a EXCEPT !.confirm = a.confirm + 1]
    BY <1>1, <1>2, <2>3 DEF AgentRecords
  <2>4. ASSUME a.stage = "AWAITING_ADDRESS",
               NEW x, b = [a EXCEPT !.address = x, !.stage = "AWAITING_ADDRESS_CONFIRMATION"]
        PROVE  /\ b.stage = "AWAITING_ADDRESS_CONFIRMATION"
               /\ b.soft = a.soft /\ b.format = a.format /\ b.confirm = a.confirm
    BY <1>1, <2>4 DEF AgentRecords
  <2>5. CASE /\ a.stage = "AWAITING_ADDRESS_CONFIRMATION"
             /\ b = [a EXCEPT !.stage = "AWAITING_ADDRESS", !.address = NoAddress, !.confirm = 0]
    BY <1>1, <2>5 DEF AgentRecords
  <2> QED BY <2>1, <2>2, <2>3, <2>4, <2>5, Zenon DEF GoesOn
<1>5. b.soft \in 0..m /\ b.format \in 0..m /\ b.confirm \in 0..m
  <2> HIDE DEF a, b, m
  <2> QED BY <1>2, <1>4
<1>6. CountsInv(c)'
  BY <1>5 DEF CountsInv
<1>7. ASSUME ~Decline(c) PROVE PatienceLeft(c)' \in 0..PatienceLeft(c) - 1
  <2>1. ~(a.stage = "AWAITING_ADDRESS_CONFIRMATION" /\ b.stage = "AWAITING_ADDRESS")
    BY <1>7 DEF Decline
  <2>2. b.stage = a.stage => open(b) = open(a)
    OBVIOUS
  <2>3. a.stage = "AWAITING_ADDRESS" /\ b.stage = "AWAITING_ADDRESS_CONFIRMATION" => open(a) = 1 /\ open(b) = 0
    OBVIOUS
  <2> DEFINE p == PatienceLeft(c)
             q == PatienceLeft(c)'
             oa == open(a)
             ob == open(b)
  <2>4. /\ p = (m - a.soft) + (m - a.format) + (m - a.confirm) + oa
        /\ q = (m - b.soft) + (m - b.format) + (m - b.confirm) + ob
        /\ oa \in 0..1 /\ ob \in 0..1
        /\ b.stage = a.stage => ob = oa
        /\ a.stage = "AWAITING_ADDRESS" /\ b.stage = "AWAITING_ADDRESS_CONFIRMATION" => oa = 1 /\ ob = 0
    BY <1>3, <2>2, <2>3
  <2> HIDE DEF a, b, m, p, q, oa, ob
  <2>5. q \in 0..p - 1
    BY <1>2, <1>4, <1>5, <2>1, <2>4
  <2> QED BY <2>5 DEF p, q
<1> QED BY <1>6, <1>7

-----------------------------------------------------------------------------
(***************************************************************************)
(* The theorems.                                                           *)
(***************************************************************************)
\* Initially there is no agent at work and nothing is filed.
LEMMA AgentsInitInv == AgentsInit => AgentsIInv
<1> SUFFICES ASSUME AgentsInit PROVE AgentsIInv
  OBVIOUS
<1> DEFINE e == <<>>
           a == FreshAgent(NoIntent, NoCif, "DONE")
           q == Replied("NONE", NoIntent)
<1>1. e \in Seq(Requests) /\ Len(e) = 0
  BY EmptySeq
<1>2. /\ a \in AgentRecords /\ a.stage = "DONE" /\ q \in AgentAnswers /\ q.status = "NONE"
  BY DEF FreshAgent, AgentRecords, AgentStages, Replied, AgentAnswers, AgentStatuses
<1>3. /\ agent = [c \in Calls |-> a] /\ agentReply = [c \in Calls |-> q]
      /\ submissions = [c \in Calls |-> 0]
      /\ requests = [c \in Calls |-> e] /\ assented = [c \in Calls |-> e]
      /\ proposal = [c \in Calls |-> NoRequest]
  BY DEF AgentsInit
<1> HIDE DEF e, a, q
<1>4. AgentsTypeOK
  BY <1>1, <1>2, <1>3 DEF AgentsTypeOK, AgentRecords, AgentAnswers
<1>5. ASSUME NEW c \in Calls PROVE AgentInv(c)
  <2>1. SlotsInv(c)
    BY <1>2, <1>3 DEF SlotsInv, AddressStages, ConfirmationStages
  <2>2. IsPrefix(e, e)
    BY <1>1 DEF IsPrefix
  <2>3. FiledInv(c)
    BY <1>1, <1>3, <2>2 DEF FiledInv
  <2> QED BY <2>1, <2>3 DEF AgentInv
<1> QED BY <1>4, <1>5 DEF AgentsIInv

\* Every move of a call is sound.
LEMMA AgentMoveSound ==
    ASSUME AgentsIInv, NEW c \in Calls, AgentMove(c)
    PROVE  AgentSound(c)
<1>1. AgentsTypeOK /\ AgentInv(c)
  BY DEF AgentsIInv
<1>2. CASE NewRegistry(c)
  BY <1>1, <1>2, NewRegistrySound
<1>3. CASE \E i \in Intents, k \in Customers : StartAgent(c, i, k)
  BY <1>1, <1>3, StartAgentSound
<1>4. ASSUME NEW s \in AgentInputs, SubmitInput(c, s)
      PROVE  AgentSound(c)
  <2>1. /\ s.intent \in Intents \cup {NoIntent} /\ s.address \in Addresses \cup {NoAddress}
        /\ s.answer \in YesNo
    BY DEF AgentInputs
  <2>2. \/ NotCaught(c) \/ GiveAddress(c, s.intent, s.address)
        \/ ConfirmAddress(c, s.answer) \/ ConfirmTool(c, s.answer)
    BY <1>4 DEF SubmitInput
  <2> QED
    BY <1>1, <2>1, <2>2, NotCaughtSound, GiveAddressSound, ConfirmAddressSound, ConfirmToolSound
<1> QED BY <1>2, <1>3, <1>4 DEF AgentMove, Answered

\* One call's move keeps the invariant of all calls.
LEMMA AgentMoveInv ==
    ASSUME AgentsIInv, NEW c \in Calls, AgentMove(c)
    PROVE  AgentsIInv'
<1>1. AgentsTypeOK /\ (\A d \in Calls : AgentInv(d)) /\ AgentSound(c)
  BY AgentMoveSound DEF AgentsIInv
<1>2. ASSUME NEW d \in Calls, d # c PROVE AgentInv(d)'
  BY <1>1, <1>2, SameAgentInv DEF AgentSound
<1> QED BY <1>1, <1>2 DEF AgentsIInv, AgentSound

\* A step of something else, that leaves all agents alone.
LEMMA AgentsStutter ==
    ASSUME AgentsIInv, UNCHANGED agentVars
    PROVE  AgentsIInv'
<1>1. AgentsTypeOK /\ \A d \in Calls : AgentInv(d)
  BY DEF AgentsIInv
<1>2. AgentsTypeOK'
  BY <1>1 DEF agentVars, AgentsTypeOK
<1>3. ASSUME NEW d \in Calls PROVE AgentInv(d)'
  <2>1. SameAgent(d)
    BY DEF agentVars, SameAgent
  <2> QED BY <1>1, <2>1, SameAgentInv
<1> QED BY <1>2, <1>3 DEF AgentsIInv

\* Every step of the agents keeps their invariant.
LEMMA AgentsStepInv == AgentsIInv /\ [AgentsNext]_agentVars => AgentsIInv'
<1>1. AgentsNext => \E c \in Calls : AgentMove(c)
  BY DEF AgentsNext, CreateAgent, AgentMove
<1> QED BY <1>1, AgentMoveInv, AgentsStutter

\* The inductive invariant holds throughout.
THEOREM AgentsInvariance == AgentsSpec => []AgentsIInv
BY AgentsInitInv, AgentsStepInv, PTL DEF AgentsSpec

\* Every variable of the agents keeps its type; in particular whatever is filed is
\* a service request for a customer, never for nobody.
THEOREM AgentsTypeCorrect == AgentsSpec => []AgentsTypeOK
<1>1. AgentsIInv => AgentsTypeOK
  BY DEF AgentsIInv
<1> QED BY <1>1, AgentsInvariance, PTL

\* Nothing is filed that the caller has not said yes to as it was read back to
\* him, nor in another order, nor twice.
THEOREM FiledIsConfirmed == AgentsSpec => []OnlyConfirmedRequests
<1>1. AgentsIInv => OnlyConfirmedRequests
  BY DEF AgentsIInv, AgentInv, FiledInv, OnlyConfirmedRequests
<1> QED BY <1>1, AgentsInvariance, PTL

\* The limit on requests holds for a session, over all the agents the call is handed to in it.
THEOREM RequestsAreLimited == AgentsSpec => []RequestLimit
<1>1. AgentsIInv => RequestLimit
  BY DEF AgentsIInv, AgentInv, FiledInv, RequestLimit
<1> QED BY <1>1, AgentsInvariance, PTL

\* An agent that asks is one that accepts an answer, and the other way round.
THEOREM AgentAsksWhenOpen == AgentsSpec => []InputIsExpected
<1>1. AgentsIInv => InputIsExpected
  BY DEF AgentsIInv, AgentInv, SlotsInv, InputIsExpected
<1> QED BY <1>1, AgentsInvariance, PTL

\* The counts of the open agents stay within their limits.
LEMMA CountsStay == AgentsSpec => []\A c \in Calls : CountsInv(c)
<1> DEFINE Counts == \A c \in Calls : CountsInv(c)
<1>1. AgentsInit => Counts
  BY DEF AgentsInit, CountsInv, FreshAgent
<1>2. AgentsIInv /\ Counts /\ [AgentsNext]_agentVars => Counts'
  <2> SUFFICES ASSUME AgentsIInv, Counts, [AgentsNext]_agentVars, NEW d \in Calls PROVE CountsInv(d)'
    OBVIOUS
  <2>1. CASE UNCHANGED agentVars
    BY <2>1 DEF agentVars, CountsInv
  <2>2. ASSUME NEW c \in Calls, AgentMove(c) PROVE CountsInv(d)'
    <3>1. CASE d # c
      BY <2>2, <3>1, AgentMoveSound DEF AgentSound, SameAgent, CountsInv
    <3>2. CASE d = c /\ Answered(c)
      BY <3>2, OpenGoesOn, GoingOnCosts DEF AgentsIInv, CountsInv
    <3>3. CASE d = c /\ NewRegistry(c)
      BY <3>3 DEF AgentsIInv, AgentsTypeOK, NewRegistry, FreshAgent, CountsInv
    <3>4. ASSUME d = c, NEW i \in Intents, NEW k \in Customers, StartAgent(c, i, k) PROVE CountsInv(d)'
      <4>1. PICK st : agent' = [agent EXCEPT ![c] = FreshAgent(i, k, st)]
        BY <3>4 DEF StartAgent
      <4>2. agent'[c].soft = 0 /\ agent'[c].format = 0 /\ agent'[c].confirm = 0
        BY <4>1 DEF FreshAgent, AgentsIInv, AgentsTypeOK
      <4> QED BY <3>4, <4>2, AgentAssumption DEF CountsInv
    <3> QED BY <2>2, <3>1, <3>2, <3>3, <3>4 DEF AgentMove
  <2>3. AgentsNext => \E c \in Calls : AgentMove(c)
    BY DEF AgentsNext, CreateAgent, AgentMove
  <2> QED BY <2>1, <2>2, <2>3
<1> QED BY <1>1, <1>2, AgentsInvariance, PTL DEF AgentsSpec

\* Every answer that an agent goes on from uses up some of its patience, which is
\* why no agent can go on for ever unless addresses are rejected for ever.
THEOREM AnswersCost == AgentsSpec => EveryAnswerCosts
<1>1. ASSUME AgentsTypeOK, \A c \in Calls : CountsInv(c)
      PROVE  [\A c \in Calls :
                 agent'[c].stage # "DONE" /\ ~Decline(c) /\ Answered(c)
                    => PatienceLeft(c)' \in 0..PatienceLeft(c) - 1]_agentVars
  BY <1>1, OpenGoesOn, GoingOnCosts
<1> QED BY <1>1, AgentsTypeCorrect, CountsStay, PTL DEF EveryAnswerCosts

-----------------------------------------------------------------------------
(***************************************************************************)
(* What more there is to know of an agent.                                 *)
(***************************************************************************)
\* An agent's reply, read from its record.
LEMMA AgentSays ==
    ASSUME AgentsTypeOK, NEW c \in Calls, NEW st, NEW i, AgentReplies(c, st, i)
    PROVE  agentReply'[c].status = st /\ agentReply'[c].intent = i
BY DEF AgentsTypeOK, AgentReplies, Replied

\* A new registry has no agent at work and nothing filed.
LEMMA RegistrySays ==
    ASSUME AgentsTypeOK, NEW c \in Calls, NewRegistry(c)
    PROVE  /\ agent'[c].stage = "DONE" /\ agentReply'[c].status = "NONE"
           /\ requests'[c] = <<>>
<1>1. /\ agent' = [agent EXCEPT ![c] = FreshAgent(NoIntent, NoCif, "DONE")]
      /\ agentReply' = [agentReply EXCEPT ![c] = Replied("NONE", NoIntent)]
      /\ requests' = [requests EXCEPT ![c] = <<>>]
  BY DEF NewRegistry
<1>2. agent'[c] = FreshAgent(NoIntent, NoCif, "DONE") /\ agentReply'[c] = Replied("NONE", NoIntent)
  BY <1>1 DEF AgentsTypeOK
<1>3. requests'[c] = <<>>
  BY <1>1, Zenon DEF AgentsTypeOK
<1> QED BY <1>2, <1>3 DEF FreshAgent, Replied

\* A fresh agent works on what it was started for, and completes or asks.
LEMMA StartSays ==
    ASSUME AgentsTypeOK, NEW c \in Calls, NEW i, NEW k, StartAgent(c, i, k)
    PROVE  /\ agent'[c].intent = i /\ agent'[c].cif = k
           /\ agentReply'[c].status \in {"COMPLETED", "NEEDS_INPUT"}
<1>1. \E s : agent' = [agent EXCEPT ![c] = FreshAgent(i, k, s)]
  BY DEF StartAgent
<1>2. \E s : agent'[c] = FreshAgent(i, k, s)
  BY <1>1 DEF AgentsTypeOK
<1>3. agentReply'[c].status \in {"COMPLETED", "NEEDS_INPUT"}
  BY AgentSays DEF StartAgent
<1> QED BY <1>2, <1>3 DEF FreshAgent

\* An answer leaves the agent its customer and intent, and if it changes the topic,
\* it names another intent of the catalog.
LEMMA AnswerSays ==
    ASSUME AgentsTypeOK, NEW c \in Calls, Answered(c)
    PROVE  /\ agent'[c].intent = agent[c].intent /\ agent'[c].cif = agent[c].cif
           /\ agentReply'[c].status = "NEED_HANDOFF" =>
                 agentReply'[c].intent \in Intents \ {agent[c].intent}
           /\ agent[c].stage # "DONE"
<1> DEFINE Says == /\ agent'[c].intent = agent[c].intent /\ agent'[c].cif = agent[c].cif
                   /\ agentReply'[c].status = "NEED_HANDOFF" =>
                         agentReply'[c].intent \in Intents \ {agent[c].intent}
           Same == agent'[c].intent = agent[c].intent /\ agent'[c].cif = agent[c].cif
<1>1. agent \in [Calls -> AgentRecords]
  BY DEF AgentsTypeOK, AgentRecords
<1>2. PICK s \in AgentInputs : SubmitInput(c, s)
  BY DEF Answered
<1>3. ASSUME NEW st, st # "NEED_HANDOFF", AgentReplies(c, st, NoIntent), Same PROVE Says
  BY <1>3, AgentSays
<1>4. ASSUME NEW n, \/ agent' = [agent EXCEPT ![c].stage = "DONE"]
                    \/ agent' = [agent EXCEPT ![c].soft = n]
                    \/ agent' = [agent EXCEPT ![c].soft = n, ![c].stage = "DONE"]
                    \/ agent' = [agent EXCEPT ![c].format = n]
                    \/ agent' = [agent EXCEPT ![c].format = n, ![c].stage = "DONE"]
                    \/ agent' = [agent EXCEPT ![c].confirm = n]
                    \/ agent' = [agent EXCEPT ![c].confirm = n, ![c].stage = "DONE"]
                    \/ agent' = [agent EXCEPT ![c].address = n, ![c].stage = "AWAITING_ADDRESS_CONFIRMATION"]
                    \/ agent' = [agent EXCEPT ![c].stage = "AWAITING_ADDRESS", ![c].address = n, ![c].confirm = 0]
      PROVE  Same
  BY <1>1, <1>4 DEF AgentRecords
<1> HIDE DEF Same, Says
<1>5. ASSUME NotCaught(c) PROVE Says
  <2>1. Same
    BY <1>4, <1>5 DEF NotCaught
  <2> QED BY <1>3, <1>5, <2>1 DEF NotCaught
<1>6. ASSUME NEW r, Submit(c, r) PROVE Says
  <2>1. Same
    BY <1>4, <1>6 DEF Submit, AgentEscalates
  <2> QED BY <1>3, <1>6, <2>1 DEF Submit, AgentEscalates
<1>7. ASSUME RepromptConfirmation(c) PROVE Says
  <2>1. Same
    BY <1>4, <1>7 DEF RepromptConfirmation
  <2> QED BY <1>3, <1>7, <2>1 DEF RepromptConfirmation
<1>8. ASSUME GiveAddress(c, s.intent, s.address) PROVE Says
  <2>1. Same
    BY <1>4, <1>8 DEF GiveAddress
  <2>2. CASE s.intent \notin {NoIntent, agent[c].intent} /\ AgentReplies(c, "NEED_HANDOFF", s.intent)
    <3>1. s.intent \in Intents \cup {NoIntent}
      BY DEF AgentInputs
    <3>2. agentReply'[c].intent = s.intent
      BY <2>2, AgentSays
    <3> QED BY <2>1, <2>2, <3>1, <3>2 DEF Says, Same
  <2> QED BY <1>3, <1>8, <2>1, <2>2 DEF GiveAddress
<1>9. ASSUME ConfirmAddress(c, s.answer) PROVE Says
  <2>1. CASE agent' = [agent EXCEPT ![c].stage = "AWAITING_ADDRESS", ![c].address = NoAddress, ![c].confirm = 0]
             /\ AgentReplies(c, "NEEDS_INPUT", NoIntent)
    BY <1>3, <1>4, <2>1
  <2> QED BY <1>6, <1>7, <1>9, <2>1 DEF ConfirmAddress
<1>10. ASSUME ConfirmTool(c, s.answer) PROVE Says
  <2>1. CASE agent' = [agent EXCEPT ![c].stage = "DONE"] /\ AgentReplies(c, "COMPLETED", NoIntent)
    BY <1>3, <1>4, <2>1
  <2> QED BY <1>6, <1>7, <1>10, <2>1 DEF ConfirmTool
<1>11. agent[c].stage # "DONE"
  BY <1>2 DEF SubmitInput, NotCaught, GiveAddress, ConfirmAddress, ConfirmTool
<1> QED BY <1>2, <1>5, <1>8, <1>9, <1>10, <1>11 DEF SubmitInput, Says

\* A step of the agents of call c.
AgentStep(c) == CreateAgent(c) \/ Answered(c) \/ NewRegistry(c)

\* The agents of call c are driven as they allow, or not at all: their invariant holds
\* on, and nothing of the other calls changes.
LEMMA AgentFrame ==
    ASSUME AgentsIInv, NEW c \in Calls, AgentStep(c) \/ UNCHANGED agentVars
    PROVE  AgentsIInv' /\ \A d \in Calls : d # c => SameAgent(d)
<1>1. CASE AgentStep(c)
  <2>1. AgentMove(c)
    BY <1>1 DEF AgentStep, CreateAgent, AgentMove
  <2> QED BY <2>1, AgentMoveInv, AgentMoveSound DEF AgentSound
<1>2. CASE UNCHANGED agentVars
  BY <1>2, AgentsStutter DEF agentVars, SameAgent
<1> QED BY <1>1, <1>2
=============================================================================
