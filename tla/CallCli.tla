------------------------------- MODULE CallCli -------------------------------
(***************************************************************************)
(* scripts/call_auth_cli.py: the terminal harness drives the coordinator   *)
(* by the status of its last reply, with no session of its own. Each turn  *)
(* of run_call's loop is a step, and each turn of drive_agent's.           *)
(***************************************************************************)
EXTENDS Coordinator, DomainAgents, ServedCatalog

VARIABLES
    running,              \* call -> run_call is in its loop
    crashed,              \* call -> run_call raised AssertionError
    driving               \* call -> drive_agent is in its loop

cliVars == <<callVars, agentVars, running, crashed, driving>>

CliInit ==
    /\ CallInit
    /\ AgentsInit
    /\ running = [c \in Calls |-> FALSE]
    /\ crashed = [c \in Calls |-> FALSE]
    /\ driving = [c \in Calls |-> FALSE]

\* main: fresh objects, then run_call.
RunCall(c) ==
    /\ ~running[c] /\ ~crashed[c]
    /\ \E a \in Reachable \cup {NoCif} : StartCall(c, a)
    /\ NewRegistry(c)
    /\ running' = [running EXCEPT ![c] = TRUE]
    /\ UNCHANGED <<crashed, driving>>

\* The factor typed is the one the status names; with '~' it is not heard.
TypeFactor(c) ==
    /\ reply[c].status \in Asking \ {"NEEDS_REPEAT"}
    /\ SubmitFactor(c)
    /\ UNCHANGED <<agentVars, running, crashed, driving>>

TypeUtterance(c) ==
    /\ reply[c].status = "NEEDS_INTENT"
    /\ \E u \in Utterances : SubmitUtterance(c, u)
    /\ UNCHANGED <<agentVars, running, crashed, driving>>

CreateAndStart(c) ==
    /\ reply[c].status = "READY_FOR_HANDOFF" /\ ~driving[c]
    /\ StartAgent(c, reply[c].intent, reply[c].cif)
    /\ driving' = [driving EXCEPT ![c] = TRUE]
    /\ UNCHANGED <<callVars, running, crashed>>

\* drive_agent: ask on, or report the agent's result to the coordinator.
DriveAgent(c) ==
    /\ driving[c]
    /\ \/ /\ Answered(c)
          /\ UNCHANGED <<callVars, driving>>
       \/ /\ \/ agentReply[c].status = "COMPLETED" /\ MarkTaskCompleted(c)
             \/ agentReply[c].status = "NEED_HANDOFF" /\ RouteIntent(c, agentReply[c].intent)
             \/ agentReply[c].status = "ESCALATE" /\ EscalateFromAgent(c)
          /\ driving' = [driving EXCEPT ![c] = FALSE]
          /\ UNCHANGED agentVars
    /\ UNCHANGED <<running, crashed>>

LeaveLoop(c) ==
    /\ running' = [running EXCEPT ![c] = FALSE]
    /\ crashed' = [crashed EXCEPT ![c] = reply[c].status \notin Final]
    /\ UNCHANGED <<callVars, agentVars, driving>>

\* run_call returns on a final status, and raises on one it does not know.
CallOver(c) == reply[c].status \in Final /\ LeaveLoop(c)
UnhandledStatus(c) == reply[c].status = "NEEDS_REPEAT" /\ LeaveLoop(c)

CliNext ==
    \E c \in Calls :
        \/ RunCall(c)
        \/ Expire(c) /\ UNCHANGED <<bankVars, flowVars, coordinatorVars, agentVars,
                                    running, crashed, driving>>
        \/ /\ running[c]
           /\ \/ TypeFactor(c)
              \/ TypeUtterance(c)
              \/ CreateAndStart(c)
              \/ DriveAgent(c)
              \/ CallOver(c)
              \/ UnhandledStatus(c)

CliSpec == CliInit /\ [][CliNext]_cliVars

\* Claimed by call_auth_cli.py's own prompt_input: "Prefix your answer with '~' to
\* simulate a low-confidence ASR capture, e.g. '~4321'". No answer, such a one
\* included, ends in the AssertionError of run_call.
HarnessSurvives == \A c \in Calls : ~crashed[c]
=============================================================================
