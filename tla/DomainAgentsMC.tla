---------------------------- MODULE DomainAgentsMC ----------------------------
(***************************************************************************)
(* One call of one customer through every kind of agent: a read-only one,  *)
(* the address change with two addresses to tell apart, and a confirmation. *)
(***************************************************************************)
EXTENDS DomainAgents

CONSTANTS asha, bharat, lake, hill

RealTiers == [i \in {"balance_enquiry", "change_of_address", "kyc_update"} |-> 1]
=============================================================================
