------------------------------ MODULE CallBudget ------------------------------
(***************************************************************************)
(* What a whole call may use up. AuthFlow counts resends in an object that *)
(* the coordinator replaces at every gate; the history variable resent     *)
(* counts them for the call.                                               *)
(***************************************************************************)
EXTENDS Coordinator

VARIABLE resent           \* resends granted in the call, by all its flows

budgetVars == <<callVars, resent>>

BudgetInit == CallInit /\ resent = [c \in Calls |-> 0]

\* CallNext of Coordinator, with the count kept beside it.
BudgetNext ==
    \E c \in Calls :
        \/ /\ \E a \in Reachable \cup {NoCif} : StartCall(c, a)
           /\ resent' = [resent EXCEPT ![c] = 0]
        \/ /\ SubmitFactor(c)
           /\ resent' = [resent EXCEPT ![c] = @ + (resends'[c] - resends[c])]
        \/ /\ Speak(c) \/ AgentReturns(c)
           /\ UNCHANGED resent

BudgetSpec == BudgetInit /\ [][BudgetNext]_budgetVars

\* Claimed by authentication-flow.md 7: "3 resends per call".
ResendsPerCall == \A c \in Calls : resent[c] <= OTP_MAX_RESENDS
=============================================================================
