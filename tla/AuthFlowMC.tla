----------------------------- MODULE AuthFlowMC -----------------------------
(***************************************************************************)
(* Small banks for AuthFlow: an ordinary customer, one whose account is    *)
(* flagged, and one with no registered mobile whose MPIN is already locked *)
(* (cbs_dummy.py's _default_customers has one of each kind).               *)
(***************************************************************************)
EXTENDS AuthFlow

CONSTANTS ordinary, flagged, unreached, home, other

SmallMobileOf == [k \in {ordinary, flagged, unreached} |->
                     IF k = ordinary THEN home ELSE IF k = flagged THEN other ELSE NoMobile]

OneMobileOf == [k \in {ordinary} |-> home]
=============================================================================
