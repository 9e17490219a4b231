------------------------------ MODULE CallCliMC ------------------------------
(***************************************************************************)
(* The bank and the catalog of TelephonyMC, for CallCli.                   *)
(***************************************************************************)
EXTENDS CallCli

CONSTANTS asha, bharat, home, other, lake, hill

LineMobileOf == [k \in {asha, bharat} |-> IF k = asha THEN home ELSE other]

LineTiers == [i \in {"balance_enquiry", "change_of_address"} |-> 1]
=============================================================================
