------------------------------- MODULE Parties -------------------------------
(***************************************************************************)
(* Who takes part: the phone calls, each with objects of its own, and the  *)
(* customers of the bank, named by their CIF; and the authentication tiers *)
(* of auth/models.py.                                                      *)
(***************************************************************************)
EXTENDS Naturals

CONSTANTS
    Calls,
    Customers,            \* CIFs of the customer table
    NoCif                 \* None, where the code holds an optional CIF

Tiers == 0..2

ASSUME PartiesAssumption == NoCif \notin Customers
=============================================================================
