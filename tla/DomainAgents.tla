----------------------------- MODULE DomainAgents -----------------------------
(***************************************************************************)
(* The domain agents a call is handed to: agents/registry.py creates one   *)
(* per intent occurrence, agents/rate_limit.py counts the service requests *)
(* of the whole call, and banking/banking_dummy.py files them. The         *)
(* Accounts and Transaction Agents complete on start; the Service Agent    *)
(* collects and confirms before it submits. What the caller says is a      *)
(* record of what can be found in it: caught or not, a global command, the *)
(* intent the classifier sees in it, a plausible address, and yes, no or   *)
(* neither. No handler looks for the command.                              *)
(***************************************************************************)
EXTENDS Naturals, Sequences, SequencesExt, IntentCatalog

CONSTANTS
    Addresses, NoAddress, \* texts of at least MIN_PLAUSIBLE_ADDRESS_LENGTH, and None
    AGENT_SOFT_REPROMPT_MAX,              \* service_agent.py's SOFT_REPROMPT_MAX
    MAX_SERVICE_REQUESTS_PER_CALL

ImmediateIntents == {"balance_enquiry", "transaction_details", "statement_request"}
ServiceIntents == {"change_of_address", "cheque_book_request", "kyc_update"}

ASSUME AgentAssumption ==
    /\ Intents \subseteq ImmediateIntents \cup ServiceIntents
    /\ NoAddress \notin Addresses
    /\ AGENT_SOFT_REPROMPT_MAX \in Nat
    /\ MAX_SERVICE_REQUESTS_PER_CALL \in Nat

VARIABLES
    agent,                \* the call's agent: its stage, slots and reprompt counts
    agentReply,           \* the AgentState it last returned
    submissions,          \* the limiter's _count
    requests,             \* the service requests filed in this call, in order
    proposal,             \* ghost: what the last confirmation prompt proposed
    assented              \* ghost: the proposals the caller said yes to, in order

agentVars == <<agent, agentReply, submissions, requests, proposal, assented>>

AgentStages == {"AWAITING_ADDRESS", "AWAITING_ADDRESS_CONFIRMATION",
                "AWAITING_TOOL_CONFIRMATION", "DONE"}
AgentStatuses == {"NONE", "COMPLETED", "NEEDS_INPUT", "NEED_HANDOFF", "ESCALATE"}
Replied(st, i) == [status |-> st, intent |-> i]

Requests == [cif : Customers, kind : ServiceIntents, address : Addresses \cup {NoAddress}]
NoRequest == [cif |-> NoCif, kind |-> NoIntent, address |-> NoAddress]

AgentsTypeOK ==
    /\ agent \in [Calls -> [stage : AgentStages, intent : Intents \cup {NoIntent},
                            cif : Customers \cup {NoCif}, address : Addresses \cup {NoAddress},
                            soft : Nat, format : Nat, confirm : Nat]]
    /\ agentReply \in [Calls -> [status : AgentStatuses, intent : Intents \cup {NoIntent}]]
    /\ submissions \in [Calls -> Nat]
    /\ requests \in [Calls -> Seq(Requests)]
    /\ proposal \in [Calls -> Requests \cup {NoRequest}]
    /\ assented \in [Calls -> Seq(Requests)]

FreshAgent(i, k, s) ==
    [stage |-> s, intent |-> i, cif |-> k, address |-> NoAddress,
     soft |-> 0, format |-> 0, confirm |-> 0]

AgentsInit ==
    /\ agent = [c \in Calls |-> FreshAgent(NoIntent, NoCif, "DONE")]
    /\ agentReply = [c \in Calls |-> Replied("NONE", NoIntent)]
    /\ submissions = [c \in Calls |-> 0]
    /\ requests = [c \in Calls |-> <<>>]
    /\ proposal = [c \in Calls |-> NoRequest]
    /\ assented = [c \in Calls |-> <<>>]

-----------------------------------------------------------------------------
(***************************************************************************)
(* Helpers.                                                                *)
(***************************************************************************)
AgentReplies(c, st, i) == agentReply' = [agentReply EXCEPT ![c] = Replied(st, i)]

\* Plausible bug: the request is filed under the intent of the last reply.
MislabelledDrafted(c) ==
    [cif |-> agent[c].cif, kind |-> agentReply[c].intent, address |-> agent[c].address]

\* The request the agent's slots amount to; only an address change has a detail.
Drafted(c) == [cif |-> agent[c].cif, kind |-> agent[c].intent, address |-> agent[c].address]

Propose(c, r) == proposal' = [proposal EXCEPT ![c] = r]

\* _escalate
AgentEscalates(c) ==
    /\ agent' = [agent EXCEPT ![c].stage = "DONE"]
    /\ AgentReplies(c, "ESCALATE", NoIntent)

\* Plausible bug: the limit itself is let through.
LaxCanSubmit(c) == submissions[c] <= MAX_SERVICE_REQUESTS_PER_CALL

\* ServiceRequestLimiter.can_submit
CanSubmit(c) == submissions[c] < MAX_SERVICE_REQUESTS_PER_CALL

\* submit_service_request, and record_submission.
FileRequest(c, r) ==
    /\ requests' = [requests EXCEPT ![c] = Append(@, r)]
    /\ submissions' = [submissions EXCEPT ![c] = @ + 1]

\* _check_rate_limit, and what follows: r is what the code passes on.
Submit(c, r) ==
    IF CanSubmit(c)
    THEN /\ FileRequest(c, r)
         /\ agent' = [agent EXCEPT ![c].stage = "DONE"]
         /\ AgentReplies(c, "COMPLETED", NoIntent)
    ELSE /\ AgentEscalates(c)
         /\ UNCHANGED <<requests, submissions>>

\* _reprompt_confirmation
RepromptConfirmation(c) ==
    LET count == agent[c].confirm + 1 IN
    IF count > AGENT_SOFT_REPROMPT_MAX
    THEN /\ agent' = [agent EXCEPT ![c].confirm = count, ![c].stage = "DONE"]
         /\ AgentReplies(c, "ESCALATE", NoIntent)
    ELSE /\ agent' = [agent EXCEPT ![c].confirm = count]
         /\ AgentReplies(c, "NEEDS_INPUT", NoIntent)

-----------------------------------------------------------------------------
(***************************************************************************)
(* The operations.                                                         *)
(***************************************************************************)
\* A new AgentRegistry, for a new call: no request is counted yet.
NewRegistry(c) ==
    /\ agent' = [agent EXCEPT ![c] = FreshAgent(NoIntent, NoCif, "DONE")]
    /\ agentReply' = [agentReply EXCEPT ![c] = Replied("NONE", NoIntent)]
    /\ submissions' = [submissions EXCEPT ![c] = 0]
    /\ requests' = [requests EXCEPT ![c] = <<>>]
    /\ proposal' = [proposal EXCEPT ![c] = NoRequest]
    /\ assented' = [assented EXCEPT ![c] = <<>>]

\* Plausible bug: an agent that has nothing to ask hands the intent back.
BouncingStartAgent(c, i, k) ==
    /\ agent' = [agent EXCEPT ![c] = FreshAgent(i, k, "DONE")]
    /\ AgentReplies(c, "NEED_HANDOFF", i)
    /\ Propose(c, NoRequest)
    /\ UNCHANGED <<submissions, requests, assented>>

\* registry.create(agent_id) and the fresh agent's start(intent, cif).
StartAgent(c, i, k) ==
    /\ \/ /\ i \in ImmediateIntents
          /\ agent' = [agent EXCEPT ![c] = FreshAgent(i, k, "DONE")]
          /\ AgentReplies(c, "COMPLETED", NoIntent)
          /\ Propose(c, NoRequest)
       \/ /\ i = "change_of_address"
          /\ agent' = [agent EXCEPT ![c] = FreshAgent(i, k, "AWAITING_ADDRESS")]
          /\ AgentReplies(c, "NEEDS_INPUT", NoIntent)
          /\ Propose(c, NoRequest)
       \/ /\ i \in {"cheque_book_request", "kyc_update"}
          /\ agent' = [agent EXCEPT ![c] = FreshAgent(i, k, "AWAITING_TOOL_CONFIRMATION")]
          /\ AgentReplies(c, "NEEDS_INPUT", NoIntent)
          /\ Propose(c, [cif |-> k, kind |-> i, address |-> NoAddress])
    /\ UNCHANGED <<submissions, requests, assented>>

\* Plausible bug: too many reprompts start the count again instead of escalating.
PatientNotCaught(c) ==
    LET count == agent[c].soft + 1 IN
    /\ agent[c].stage # "DONE"
    /\ agent' = [agent EXCEPT ![c].soft = IF count > AGENT_SOFT_REPROMPT_MAX THEN 0 ELSE count]
    /\ AgentReplies(c, "NEEDS_INPUT", NoIntent)
    /\ UNCHANGED <<submissions, requests, proposal, assented>>

\* submit_input below the confidence threshold, in any stage.
NotCaught(c) ==
    LET count == agent[c].soft + 1 IN
    /\ agent[c].stage # "DONE"
    /\ IF count > AGENT_SOFT_REPROMPT_MAX
       THEN /\ agent' = [agent EXCEPT ![c].soft = count, ![c].stage = "DONE"]
            /\ AgentReplies(c, "ESCALATE", NoIntent)
       ELSE /\ agent' = [agent EXCEPT ![c].soft = count]
            /\ AgentReplies(c, "NEEDS_INPUT", NoIntent)
    /\ UNCHANGED <<submissions, requests, proposal, assented>>

\* Plausible bug: the stage is left open when the caller changes the topic.
OpenGiveAddress(c, i, a) ==
    /\ agent[c].stage = "AWAITING_ADDRESS"
    /\ i \notin {NoIntent, agent[c].intent}
    /\ AgentReplies(c, "NEED_HANDOFF", i)
    /\ UNCHANGED <<agent, submissions, requests, proposal, assented>>

\* _handle_address_input: i is what the classifier makes of it, a the address,
\* NoAddress when it is too short to be one.
GiveAddress(c, i, a) ==
    LET count == agent[c].format + 1
        switched == i \notin {NoIntent, agent[c].intent}
    IN
    /\ agent[c].stage = "AWAITING_ADDRESS"
    /\ \/ /\ switched
          /\ agent' = [agent EXCEPT ![c].stage = "DONE"]
          /\ AgentReplies(c, "NEED_HANDOFF", i)
          /\ UNCHANGED proposal
       \/ /\ ~switched /\ a = NoAddress
          /\ IF count > AGENT_SOFT_REPROMPT_MAX
             THEN /\ agent' = [agent EXCEPT ![c].format = count, ![c].stage = "DONE"]
                  /\ AgentReplies(c, "ESCALATE", NoIntent)
             ELSE /\ agent' = [agent EXCEPT ![c].format = count]
                  /\ AgentReplies(c, "NEEDS_INPUT", NoIntent)
          /\ UNCHANGED proposal
       \/ /\ ~switched /\ a # NoAddress
          /\ agent' = [agent EXCEPT ![c].address = a, ![c].stage = "AWAITING_ADDRESS_CONFIRMATION"]
          /\ AgentReplies(c, "NEEDS_INPUT", NoIntent)
          /\ Propose(c, [cif |-> agent[c].cif, kind |-> "change_of_address", address |-> a])
    /\ UNCHANGED <<submissions, requests, assented>>

\* Ghost bookkeeping: a yes assents to what was last proposed.
Assent(c, answer) ==
    assented' = IF answer = "yes" THEN [assented EXCEPT ![c] = Append(@, proposal[c])] ELSE assented

\* Plausible bug: anything but a clear no is taken for a yes.
EagerConfirmAddress(c, answer) ==
    /\ agent[c].stage = "AWAITING_ADDRESS_CONFIRMATION"
    /\ Assent(c, answer)
    /\ Submit(c, Drafted(c))
    /\ UNCHANGED proposal

\* _handle_address_confirmation; a no lets the caller say the address again.
ConfirmAddress(c, answer) ==
    /\ agent[c].stage = "AWAITING_ADDRESS_CONFIRMATION"
    /\ Assent(c, answer)
    /\ \/ /\ answer = "unclear"
          /\ RepromptConfirmation(c)
          /\ UNCHANGED <<submissions, requests>>
       \/ /\ answer = "no"
          /\ agent' = [agent EXCEPT ![c].stage = "AWAITING_ADDRESS",
                                    ![c].address = NoAddress, ![c].confirm = 0]
          /\ AgentReplies(c, "NEEDS_INPUT", NoIntent)
          /\ UNCHANGED <<submissions, requests>>
       \/ /\ answer = "yes"
          /\ Submit(c, Drafted(c))
    /\ UNCHANGED proposal

\* _handle_tool_confirmation; a no cancels.
ConfirmTool(c, answer) ==
    /\ agent[c].stage = "AWAITING_TOOL_CONFIRMATION"
    /\ Assent(c, answer)
    /\ \/ /\ answer = "unclear"
          /\ RepromptConfirmation(c)
          /\ UNCHANGED <<submissions, requests>>
       \/ /\ answer = "no"
          /\ agent' = [agent EXCEPT ![c].stage = "DONE"]
          /\ AgentReplies(c, "COMPLETED", NoIntent)
          /\ UNCHANGED <<submissions, requests>>
       \/ /\ answer = "yes"
          /\ Submit(c, Drafted(c))
    /\ UNCHANGED proposal

YesNo == {"yes", "no", "unclear"}

\* All that may be found in what the caller says to an agent. A command is a word
\* among others, and may come with any of it; one stands for all three.
AgentInputs ==
    {s \in [caught : BOOLEAN, command : {"ESCALATE_TO_CSR", "NONE"},
            intent : Intents \cup {NoIntent}, address : Addresses \cup {NoAddress}, answer : YesNo] :
        ~s.caught => s.intent = NoIntent /\ s.address = NoAddress /\ s.answer = "unclear"}

\* submit_input
SubmitInput(c, s) ==
    \/ ~s.caught /\ NotCaught(c)
    \/ s.caught /\ GiveAddress(c, s.intent, s.address)
    \/ s.caught /\ ConfirmAddress(c, s.answer)
    \/ s.caught /\ ConfirmTool(c, s.answer)

Answered(c) == \E s \in AgentInputs : SubmitInput(c, s)

-----------------------------------------------------------------------------
\* The agents alone: one at a time, for any intent and customer, until one
\* escalates, which ends the call; and a new call may come at any time.
CreateAgent(c) ==
    /\ agent[c].stage = "DONE" /\ agentReply[c].status # "ESCALATE"
    /\ \E i \in Intents, k \in Customers : StartAgent(c, i, k)

AgentsNext ==
    \E c \in Calls :
        \/ CreateAgent(c)
        \/ Answered(c)
        \/ NewRegistry(c)

AgentsSpec == AgentsInit /\ [][AgentsNext]_agentVars

FairAgentsSpec == AgentsSpec /\ \A c \in Calls : WF_agentVars(Answered(c))

-----------------------------------------------------------------------------
(***************************************************************************)
(* Properties.                                                             *)
(***************************************************************************)
\* Confirm before commit: the requests filed are, one for one and in order, the
\* proposals read back to the caller that he said yes to, with the very address
\* and customer read back, after any number of corrections, unclear answers and
\* topic switches; a yes beyond the limit files nothing.
OnlyConfirmedRequests ==
    \A c \in Calls :
        /\ IsPrefix(requests[c], assented[c])
        /\ Len(requests[c]) < Len(assented[c]) =>
              Len(requests[c]) = MAX_SERVICE_REQUESTS_PER_CALL

\* No call files more requests in a session than its limit, over all the agents it is
\* handed to, each a fresh object; the limiter's count is the number of requests filed (rate_limit.py 19-23).
RequestLimit ==
    \A c \in Calls :
        /\ Len(requests[c]) <= MAX_SERVICE_REQUESTS_PER_CALL
        /\ submissions[c] = Len(requests[c])

\* An agent asks for input exactly while one of its stages is open, so the layer
\* that keeps it as active agent never reaches submit_input's RuntimeError.
InputIsExpected ==
    \A c \in Calls : agent[c].stage # "DONE" <=> agentReply[c].status = "NEEDS_INPUT"

\* The caller rejects the address that was read back.
Decline(c) == agent[c].stage = "AWAITING_ADDRESS_CONFIRMATION"
              /\ agent'[c].stage = "AWAITING_ADDRESS"

\* What an agent still puts up with: the reprompts left of each kind, and the
\* address it has not been given yet.
PatienceLeft(c) ==
    LET left(n) == AGENT_SOFT_REPROMPT_MAX - n IN
    left(agent[c].soft) + left(agent[c].format) + left(agent[c].confirm)
        + (IF agent[c].stage = "AWAITING_ADDRESS" THEN 1 ELSE 0)

\* Every answer that an agent does not conclude on uses up some of its patience,
\* and the three counts, each kept by another handler, never pass their limit while
\* it goes on: so between two rejections of an address an agent asks at most
\* 3 * AGENT_SOFT_REPROMPT_MAX + 2 times (service_agent.py 104-118, 122-169, 205-209).
EveryAnswerCosts ==
    [][\A c \in Calls :
          agent'[c].stage # "DONE" /\ ~Decline(c) /\ Answered(c)
             => PatienceLeft(c)' \in 0..PatienceLeft(c) - 1]_agentVars

\* Unless the caller goes on rejecting addresses for ever, an agent that asks for
\* input is done eventually: silence, mumbling, unclear answers and implausible
\* addresses are all limited, though one counter is reset by every rejection.
AgentConcludes ==
    \A c \in Calls :
        \/ []<><<Decline(c)>>_agentVars
        \/ agent[c].stage # "DONE" ~> agent[c].stage = "DONE"
=============================================================================
