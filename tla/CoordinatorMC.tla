---------------------------- MODULE CoordinatorMC ----------------------------
(***************************************************************************)
(* A small call for Coordinator: an intent of each tier (the catalog of    *)
(* tests/conftest.py), an ordinary customer and a flagged one.             *)
(***************************************************************************)
EXTENDS Coordinator

CONSTANTS ordinary, neighbour, flagged, home, other

CallMobileOf == [k \in {ordinary, neighbour, flagged} |-> IF k = ordinary THEN home ELSE other]

CatalogTiers == [i \in {"branch_hours", "balance_enquiry", "hotlist_card"} |->
                    CASE i = "branch_hours" -> 0
                      [] i = "balance_enquiry" -> 1
                      [] i = "hotlist_card" -> 2]
=============================================================================
