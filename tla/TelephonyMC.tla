----------------------------- MODULE TelephonyMC -----------------------------
(***************************************************************************)
(* One phone call of either of two customers, with intents of the real     *)
(* catalog (config/intent_tier_map.yaml), the address change raised to     *)
(* tier 2 so that a call may have to step up.                              *)
(***************************************************************************)
EXTENDS Telephony

CONSTANTS asha, bharat, home, other, lake, hill

LineMobileOf == [k \in {asha, bharat} |-> IF k = asha THEN home ELSE other]

LineTiers == [i \in {"balance_enquiry", "change_of_address"} |->
                 IF i = "change_of_address" THEN 2 ELSE 1]

\* The shipped catalog's tier, for a call that only wants its address changed.
AddressTier == [i \in {"change_of_address"} |-> 1]
=============================================================================
