------------------------------ MODULE OtpGateway ------------------------------
(***************************************************************************)
(* The OTP gateway of auth/otp_dummy.py. An issued code is reachable only  *)
(* through the reference send_otp returned, each reference is fresh        *)
(* (uuid4), and an AuthFlow keeps one reference at a time: so the gateway's *)
(* dictionary is modelled by the entry each call's flow still refers to.   *)
(* Entries whose reference was overwritten can never be presented again    *)
(* and are dropped. The clock only turns live codes into expired ones.     *)
(***************************************************************************)
EXTENDS Parties           \* each call has one AuthFlow at a time

VARIABLES
    otpTo,                \* call -> the number its current code was sent to
    otpState              \* call -> what the gateway holds under its reference

gatewayVars == <<otpTo, otpState>>

OtpStates == {"unsent", "live", "expired", "consumed"}

\* numbers: what send_otp may be given.
GatewayTypeOK(numbers) ==
    /\ otpTo \in [Calls -> numbers]
    /\ otpState \in [Calls -> OtpStates]

\* send_otp: a new entry under a new reference.
SendOtp(c, mobile) ==
    /\ otpTo' = [otpTo EXCEPT ![c] = mobile]
    /\ otpState' = [otpState EXCEPT ![c] = "live"]

\* validate_otp's answer for the digits the caller spoke.
OtpAnswer(c, right) ==
    IF otpState[c] \in {"unsent", "consumed"} THEN "NOT_FOUND"
    ELSE IF otpState[c] = "expired" THEN "EXPIRED"
    ELSE IF ~right THEN "INCORRECT"
    ELSE "CORRECT"

\* validate_otp's effect: a right code is used up.
ValidateOtp(c, right) ==
    /\ otpState' = IF OtpAnswer(c, right) = "CORRECT"
                   THEN [otpState EXCEPT ![c] = "consumed"]
                   ELSE otpState
    /\ UNCHANGED otpTo

\* More than ttl_seconds have passed since the code was issued.
Expire(c) ==
    /\ otpState[c] = "live"
    /\ otpState' = [otpState EXCEPT ![c] = "expired"]
    /\ UNCHANGED otpTo
=============================================================================
