------------------------------- MODULE AuthFlow -------------------------------
(***************************************************************************)
(* auth/flow.py: the tiered caller-authentication flow. Each call owns at  *)
(* most one AuthFlow object at a time; all of them talk to one CBS and one *)
(* OTP gateway, so calls interleave on the shared MPIN lockout records. A  *)
(* method runs to completion inside one webhook request, hence one action  *)
(* per method. What the caller says is an input: the digits are right or   *)
(* wrong, and a confidence below ASR_CONFIDENCE_THRESHOLD is NotHeard.     *)
(***************************************************************************)
EXTENDS Integers, CoreBanking, OtpGateway

CONSTANTS
    MPIN_MAX_ATTEMPTS,
    OTP_MAX_VERIFY_ATTEMPTS,
    OTP_MAX_RESENDS,
    IDENTIFICATION_MAX_ATTEMPTS,
    SOFT_REPROMPT_MAX

ASSUME CeilingAssumption ==
    /\ MPIN_MAX_ATTEMPTS \in Nat \ {0}
    /\ OTP_MAX_VERIFY_ATTEMPTS \in Nat \ {0}
    /\ OTP_MAX_RESENDS \in Nat
    /\ IDENTIFICATION_MAX_ATTEMPTS \in Nat \ {0}
    /\ SOFT_REPROMPT_MAX \in Nat

VARIABLES
    stage,                \* _stage
    tierRequired,         \* _tier_required
    cif,                  \* _cif
    idAttempts, mpinAttempts, otpAttempts, resends, soft,    \* _retries
    status, tier, reason, \* the AuthState last returned
    vouched,              \* ghost: factor -> customer it was confirmed for
    otpMisses             \* ghost: wrong codes the gateway has judged in this flow

retries == <<idAttempts, mpinAttempts, otpAttempts, resends, soft>>
answer == <<stage, status, tier, reason>>
flowVars == <<answer, tierRequired, cif, retries, vouched, otpMisses>>
vars == <<bankVars, gatewayVars, flowVars>>

NoTier == -1

MpinStages == {"AWAITING_MPIN_PRIMARY", "AWAITING_MPIN_AFTER_OTP"}
OtpStages == {"AWAITING_OTP_FALLBACK", "AWAITING_OTP_STEPUP", "AWAITING_OTP_SECOND_FACTOR"}
OpenStages == {"AWAITING_IDENTIFICATION"} \cup MpinStages \cup OtpStages
Stages == OpenStages \cup {"DONE"}

Asking == {"NEEDS_IDENTIFICATION", "NEEDS_MPIN", "NEEDS_OTP", "NEEDS_REPEAT"}
Statuses == Asking \cup {"NONE", "NO_AUTH_REQUIRED", "AUTHENTICATED", "ESCALATED"}

Reasons == {"CANNOT_IDENTIFY_CALLER", "NO_REGISTERED_MOBILE", "OTP_FAILED", "MPIN_FAILED",
            "MPIN_LOCKED", "ACCOUNT_FLAGGED", "LOW_CONFIDENCE_EXCEEDED"}
NoReason == "NONE"

Factors == {"cli", "identity", "mpin", "otp"}

AnswerTypeOK ==
    /\ stage \in [Calls -> Stages]
    /\ status \in [Calls -> Statuses]
    /\ tier \in [Calls -> Tiers \cup {NoTier}]
    /\ reason \in [Calls -> Reasons \cup {NoReason}]

RetriesTypeOK ==
    /\ idAttempts \in [Calls -> Nat]
    /\ mpinAttempts \in [Calls -> Nat]
    /\ otpAttempts \in [Calls -> Nat]
    /\ resends \in [Calls -> Nat]
    /\ soft \in [Calls -> [OpenStages -> Nat]]

TypeOK ==
    /\ BankTypeOK
    /\ GatewayTypeOK(Mobiles \cup {NoMobile})
    /\ AnswerTypeOK
    /\ RetriesTypeOK
    /\ tierRequired \in [Calls -> Tiers]
    /\ cif \in [Calls -> Customers \cup {NoCif}]
    /\ vouched \in [Calls -> [Factors -> Customers \cup {NoCif}]]
    /\ otpMisses \in [Calls -> Nat]

Init ==
    /\ BankInit
    /\ otpTo = [c \in Calls |-> NoMobile]
    /\ otpState = [c \in Calls |-> "unsent"]
    /\ stage = [c \in Calls |-> "DONE"]
    /\ tierRequired = [c \in Calls |-> 0]
    /\ cif = [c \in Calls |-> NoCif]
    /\ idAttempts = [c \in Calls |-> 0]
    /\ mpinAttempts = [c \in Calls |-> 0]
    /\ otpAttempts = [c \in Calls |-> 0]
    /\ resends = [c \in Calls |-> 0]
    /\ soft = [c \in Calls |-> [s \in OpenStages |-> 0]]
    /\ status = [c \in Calls |-> "NONE"]
    /\ tier = [c \in Calls |-> NoTier]
    /\ reason = [c \in Calls |-> NoReason]
    /\ vouched = [c \in Calls |-> [f \in Factors |-> NoCif]]
    /\ otpMisses = [c \in Calls |-> 0]

-----------------------------------------------------------------------------
(***************************************************************************)
(* How a method ends: the next stage and the AuthState it returns.         *)
(***************************************************************************)
Return(c, s, st, t, r) ==
    /\ stage' = [stage EXCEPT ![c] = s]
    /\ status' = [status EXCEPT ![c] = st]
    /\ tier' = [tier EXCEPT ![c] = t]
    /\ reason' = [reason EXCEPT ![c] = r]

Ask(c, s, st) == Return(c, s, st, tier[c], NoReason)

Authenticated(c, t) == Return(c, "DONE", "AUTHENTICATED", t, NoReason)

Escalate(c, r) == Return(c, "DONE", "ESCALATED", tier[c], r)

\* Ghost bookkeeping: the bank or the gateway confirmed factor f for customer k.
Vouch(c, f, k) == vouched' = [vouched EXCEPT ![c][f] = k]

\* Plausible bug: the None check on the registered mobile is missing.
UncheckedDispatchOtp(c, k, s) == SendOtp(c, MobileOf[k]) /\ Ask(c, s, "NEEDS_OTP")

\* The three _dispatch_otp_* methods: they differ in the stage they lead to.
DispatchOtp(c, k, s) ==
    IF MobileOf[k] = NoMobile
    THEN Escalate(c, "NO_REGISTERED_MOBILE") /\ UNCHANGED gatewayVars
    ELSE SendOtp(c, MobileOf[k]) /\ Ask(c, s, "NEEDS_OTP")

-----------------------------------------------------------------------------
(***************************************************************************)
(* AuthFlow(...).start(ani, intent): a fresh object, then the CLI match.   *)
(* ani is the customer the calling number resolves to, NoCif when it is    *)
(* withheld or unknown; t is the tier of the intent.                       *)
(***************************************************************************)
Start(c, ani, t) ==
    LET matched == IF t = 0 THEN NoCif ELSE ani IN
    /\ tierRequired' = [tierRequired EXCEPT ![c] = t]
    /\ cif' = [cif EXCEPT ![c] = matched]
    /\ otpTo' = [otpTo EXCEPT ![c] = NoMobile]
    /\ otpState' = [otpState EXCEPT ![c] = "unsent"]
    /\ idAttempts' = [idAttempts EXCEPT ![c] = 0]
    /\ mpinAttempts' = [mpinAttempts EXCEPT ![c] = 0]
    /\ otpAttempts' = [otpAttempts EXCEPT ![c] = 0]
    /\ resends' = [resends EXCEPT ![c] = 0]
    /\ soft' = [soft EXCEPT ![c] = [s \in OpenStages |-> 0]]
    /\ vouched' = [vouched EXCEPT ![c] = [f \in Factors |-> IF f = "cli" THEN matched ELSE NoCif]]
    /\ otpMisses' = [otpMisses EXCEPT ![c] = 0]
    /\ \/ t = 0 /\ Return(c, "DONE", "NO_AUTH_REQUIRED", 0, NoReason)
       \/ t # 0 /\ matched = NoCif
          /\ Return(c, "AWAITING_IDENTIFICATION", "NEEDS_IDENTIFICATION", NoTier, NoReason)
       \/ matched # NoCif /\ AccountFlags(matched)
          /\ Return(c, "DONE", "ESCALATED", NoTier, "ACCOUNT_FLAGGED")
       \/ matched # NoCif /\ ~AccountFlags(matched)
          /\ Return(c, "AWAITING_MPIN_PRIMARY", "NEEDS_MPIN", NoTier, NoReason)
    /\ UNCHANGED bankVars

\* Plausible bug: the soft reprompt is not counted, so it repeats without end.
UncountedNotHeard(c) ==
    /\ stage[c] \in OpenStages
    /\ Ask(c, stage[c], "NEEDS_REPEAT")
    /\ UNCHANGED <<bankVars, gatewayVars, tierRequired, cif, retries, vouched, otpMisses>>

\* Plausible bug: the last soft reprompt escalates but leaves the stage open.
OpenNotHeard(c) ==
    LET count == soft[c][stage[c]] + 1 IN
    /\ stage[c] \in OpenStages
    /\ soft' = [soft EXCEPT ![c][stage[c]] = count]
    /\ IF count > SOFT_REPROMPT_MAX
       THEN Return(c, stage[c], "ESCALATED", tier[c], "LOW_CONFIDENCE_EXCEEDED")
       ELSE Ask(c, stage[c], "NEEDS_REPEAT")
    /\ UNCHANGED <<bankVars, gatewayVars, tierRequired, cif, idAttempts, mpinAttempts,
                   otpAttempts, resends, vouched, otpMisses>>

\* _guard_confidence rejecting a submit_*: counted per stage, never as an attempt.
NotHeard(c) ==
    LET count == soft[c][stage[c]] + 1 IN
    /\ stage[c] \in OpenStages
    /\ soft' = [soft EXCEPT ![c][stage[c]] = count]
    /\ IF count > SOFT_REPROMPT_MAX
       THEN Escalate(c, "LOW_CONFIDENCE_EXCEEDED")
       ELSE Ask(c, stage[c], "NEEDS_REPEAT")
    /\ UNCHANGED <<bankVars, gatewayVars, tierRequired, cif, idAttempts, mpinAttempts,
                   otpAttempts, resends, vouched, otpMisses>>

\* submit_identification; k is whom the account and card digits resolve to.
SubmitIdentification(c, k) ==
    /\ stage[c] = "AWAITING_IDENTIFICATION"
    /\ idAttempts' = [idAttempts EXCEPT ![c] = @ + 1]
    /\ \/ /\ k = NoCif
          /\ IF idAttempts[c] + 1 >= IDENTIFICATION_MAX_ATTEMPTS
             THEN Escalate(c, "CANNOT_IDENTIFY_CALLER")
             ELSE Ask(c, stage[c], "NEEDS_IDENTIFICATION")
          /\ UNCHANGED <<gatewayVars, cif, vouched>>
       \/ /\ k # NoCif
          /\ cif' = [cif EXCEPT ![c] = k]
          /\ Vouch(c, "identity", k)
          /\ IF AccountFlags(k)
             THEN Escalate(c, "ACCOUNT_FLAGGED") /\ UNCHANGED gatewayVars
             ELSE DispatchOtp(c, k, "AWAITING_OTP_STEPUP")
    /\ UNCHANGED <<bankVars, tierRequired, mpinAttempts, otpAttempts, resends, soft, otpMisses>>

\* submit_mpin: one attempt, judged by the bank, whose lockout decides first.
SubmitMpin(c, right) ==
    LET verdict == MpinAnswer(cif[c], right) IN
    /\ stage[c] \in MpinStages
    /\ mpinAttempts' = [mpinAttempts EXCEPT ![c] = @ + 1]
    /\ ValidateMpin(cif[c], right)
    /\ \/ /\ verdict = "LOCKED"
          /\ Escalate(c, "MPIN_LOCKED")
          /\ UNCHANGED <<gatewayVars, vouched>>
       \/ /\ verdict = "CORRECT"
          /\ Vouch(c, "mpin", cif[c])
          /\ IF stage[c] = "AWAITING_MPIN_AFTER_OTP"
             THEN Authenticated(c, 2) /\ UNCHANGED gatewayVars
             ELSE IF tierRequired[c] = 1
             THEN Authenticated(c, 1) /\ UNCHANGED gatewayVars
             ELSE DispatchOtp(c, cif[c], "AWAITING_OTP_SECOND_FACTOR")
       \/ /\ verdict = "INCORRECT"
          /\ IF mpinAttempts[c] + 1 < MPIN_MAX_ATTEMPTS
             THEN Ask(c, stage[c], "NEEDS_MPIN") /\ UNCHANGED gatewayVars
             ELSE IF stage[c] = "AWAITING_MPIN_PRIMARY" /\ tierRequired[c] = 1
             THEN DispatchOtp(c, cif[c], "AWAITING_OTP_FALLBACK")
             ELSE Escalate(c, "MPIN_FAILED") /\ UNCHANGED gatewayVars
          /\ UNCHANGED vouched
    /\ UNCHANGED <<tierRequired, cif, idAttempts, otpAttempts, resends, soft, otpMisses>>

\* Plausible bug: the step-up code alone is taken for the required tier.
EagerOnOtpCorrect(c) ==
    /\ Vouch(c, "otp", IF otpTo[c] = MobileOf[cif[c]] THEN cif[c] ELSE NoCif)
    /\ Authenticated(c, tierRequired[c])
    /\ UNCHANGED mpinAttempts

\* _on_otp_correct: the code completes a tier, or leads on to the MPIN.
OnOtpCorrect(c) ==
    /\ Vouch(c, "otp", IF otpTo[c] = MobileOf[cif[c]] THEN cif[c] ELSE NoCif)
    /\ \/ /\ stage[c] = "AWAITING_OTP_FALLBACK"
          /\ Authenticated(c, 1)
          /\ UNCHANGED mpinAttempts
       \/ /\ stage[c] = "AWAITING_OTP_SECOND_FACTOR"
          /\ Authenticated(c, 2)
          /\ UNCHANGED mpinAttempts
       \/ /\ stage[c] = "AWAITING_OTP_STEPUP" /\ tierRequired[c] = 1
          /\ Authenticated(c, 1)
          /\ UNCHANGED mpinAttempts
       \/ /\ stage[c] = "AWAITING_OTP_STEPUP" /\ tierRequired[c] # 1
          /\ Ask(c, "AWAITING_MPIN_AFTER_OTP", "NEEDS_MPIN")
          /\ mpinAttempts' = [mpinAttempts EXCEPT ![c] = 0]

\* submit_otp: any answer but CORRECT, a stale code included, uses an attempt.
SubmitOtp(c, right) ==
    LET verdict == OtpAnswer(c, right) IN
    /\ stage[c] \in OtpStages
    /\ ValidateOtp(c, right)
    /\ \/ /\ verdict = "CORRECT"
          /\ OnOtpCorrect(c)
          /\ UNCHANGED <<otpAttempts, otpMisses>>
       \/ /\ verdict # "CORRECT"
          /\ otpAttempts' = [otpAttempts EXCEPT ![c] = @ + 1]
          /\ otpMisses' = [otpMisses EXCEPT ![c] = @ + 1]
          /\ IF otpAttempts[c] + 1 >= OTP_MAX_VERIFY_ATTEMPTS
             THEN Escalate(c, "OTP_FAILED")
             ELSE Ask(c, stage[c], "NEEDS_OTP")
          /\ UNCHANGED <<mpinAttempts, vouched>>
    /\ UNCHANGED <<bankVars, tierRequired, cif, idAttempts, resends, soft>>

\* Plausible bug: the resend ceiling is compared with > instead of >=.
GenerousRequestOtpResend(c) ==
    /\ stage[c] \in OtpStages
    /\ resends[c] <= OTP_MAX_RESENDS
    /\ resends' = [resends EXCEPT ![c] = @ + 1]
    /\ otpAttempts' = [otpAttempts EXCEPT ![c] = 0]
    /\ SendOtp(c, MobileOf[cif[c]])
    /\ Ask(c, stage[c], "NEEDS_OTP")
    /\ UNCHANGED <<bankVars, tierRequired, cif, idAttempts, mpinAttempts, soft, vouched, otpMisses>>

\* Plausible bug: a resend is free.
FreeRequestOtpResend(c) ==
    /\ stage[c] \in OtpStages
    /\ otpAttempts' = [otpAttempts EXCEPT ![c] = 0]
    /\ SendOtp(c, MobileOf[cif[c]])
    /\ Ask(c, stage[c], "NEEDS_OTP")
    /\ UNCHANGED <<bankVars, tierRequired, cif, idAttempts, mpinAttempts, resends, soft, vouched,
                   otpMisses>>

\* Plausible bug: the resends left are counted down, past zero.
DrainingRequestOtpResend(c) ==
    /\ stage[c] \in OtpStages
    /\ resends' = [resends EXCEPT ![c] = @ - 1]
    /\ otpAttempts' = [otpAttempts EXCEPT ![c] = 0]
    /\ SendOtp(c, MobileOf[cif[c]])
    /\ Ask(c, stage[c], "NEEDS_OTP")
    /\ UNCHANGED <<bankVars, tierRequired, cif, idAttempts, mpinAttempts, soft, vouched, otpMisses>>

\* request_otp_resend: a new code and a new verification allowance.
RequestOtpResend(c) ==
    /\ stage[c] \in OtpStages
    /\ \/ /\ resends[c] >= OTP_MAX_RESENDS
          /\ Escalate(c, "OTP_FAILED")
          /\ UNCHANGED <<gatewayVars, otpAttempts, resends>>
       \/ /\ resends[c] < OTP_MAX_RESENDS
          /\ resends' = [resends EXCEPT ![c] = @ + 1]
          /\ otpAttempts' = [otpAttempts EXCEPT ![c] = 0]
          /\ SendOtp(c, MobileOf[cif[c]])
          /\ Ask(c, stage[c], "NEEDS_OTP")
    /\ UNCHANGED <<bankVars, tierRequired, cif, idAttempts, mpinAttempts, soft, vouched, otpMisses>>

-----------------------------------------------------------------------------
\* One answer of call c's caller to the question the flow is asking.
Turn(c) ==
    \/ NotHeard(c)
    \/ \E k \in Customers \cup {NoCif} : SubmitIdentification(c, k)
    \/ \E right \in BOOLEAN : SubmitMpin(c, right)
    \/ \E right \in BOOLEAN : SubmitOtp(c, right)
    \/ RequestOtpResend(c)

\* The owner of the flow drops a finished one and starts another.
Begin(c) ==
    /\ stage[c] = "DONE"
    /\ \E ani \in Reachable \cup {NoCif}, t \in Tiers : Start(c, ani, t)

Next ==
    \E c \in Calls :
        \/ Begin(c)
        \/ Turn(c)
        \/ Expire(c) /\ UNCHANGED <<bankVars, flowVars>>

Spec == Init /\ [][Next]_vars

\* Every question is eventually answered: a silent gather is posted as well, as
\* a turn of confidence 0 (app.py's _gather_response).
Fairness == \A c \in Calls : WF_vars(Turn(c))

FairSpec == Spec /\ Fairness

-----------------------------------------------------------------------------
(***************************************************************************)
(* Properties.                                                             *)
(***************************************************************************)
\* The factors the bank and the gateway themselves confirmed for customer k.
Evidence(c, k) == {f \in Factors : vouched[c][f] = k}

\* The abstract specification AuthPolicy, read off a flow's state. A flow that
\* has settled on no customer has confirmed nothing.
Policy == INSTANCE AuthPolicy WITH
    open <- [c \in Calls |-> stage[c] # "DONE"],
    required <- tierRequired,
    subject <- cif,
    evidence <- [c \in Calls |-> IF cif[c] = NoCif THEN {} ELSE Evidence(c, cif[c])],
    granted <- [c \in Calls |-> IF status[c] \in {"AUTHENTICATED", "NO_AUTH_REQUIRED"}
                                THEN tier[c] ELSE NoTier]

\* A flow reports AUTHENTICATED only for the tier that was required, for one
\* customer whose record carries no flag, after the bank and the gateway have
\* confirmed enough factors for that very customer, by whichever path the
\* caller came (flow.py 151-203, 262-295).
Earned(c) ==
    status[c] = "AUTHENTICATED" =>
        /\ tier[c] = tierRequired[c]
        /\ cif[c] \in Customers \ Flagged
        /\ Policy!Sufficient(tier[c], Evidence(c, cif[c]))

EarnedTier == \A c \in Calls : Earned(c)

\* While a secret is being asked for, the flow has settled on a customer who is
\* not flagged, and a code being waited for went to that customer's own number:
\* no dispatch or resend ever sends to a missing or to another number.
ChallengeFitsCustomer ==
    \A c \in Calls :
        /\ stage[c] \in MpinStages \cup OtpStages => cif[c] \in Customers \ Flagged
        /\ stage[c] \in OtpStages => otpTo[c] = MobileOf[cif[c]] /\ otpTo[c] \in Mobiles

\* A resend grants a new verification allowance (flow.py 213), so the ceiling
\* of OTP_MAX_VERIFY_ATTEMPTS alone bounds nothing: over a whole flow, the
\* number of wrong codes judged stays within what resends can buy.
OtpGuessBudget ==
    \A c \in Calls :
        otpMisses[c] <= OTP_MAX_VERIFY_ATTEMPTS
                          + OTP_MAX_RESENDS * (OTP_MAX_VERIFY_ATTEMPTS - 1)

\* What the caller is asked to say is what the flow accepts next; only a
\* NEEDS_REPEAT leaves it open, and a final answer is never given too early.
\* The telephony layer chooses the next submit_* call by the status alone.
PromptMatches(c) ==
    /\ stage[c] = "DONE" <=> status[c] \notin Asking
    /\ status[c] = "NEEDS_IDENTIFICATION" => stage[c] = "AWAITING_IDENTIFICATION"
    /\ status[c] = "NEEDS_MPIN" => stage[c] \in MpinStages
    /\ status[c] = "NEEDS_OTP" => stage[c] \in OtpStages
    /\ status[c] = "ESCALATED" <=> reason[c] # NoReason

PromptMatchesStage == \A c \in Calls : PromptMatches(c)

\* Why EarnedTier holds: each stage a flow can be in tells which factors must
\* have been confirmed to get there, and for which tiers the path is taken.
\* This is the inductive invariant of AuthFlowProofs.
PathInvariant(c) ==
    /\ \A f \in Factors : vouched[c][f] \in {NoCif, cif[c]}
    /\ stage[c] # "DONE" => tierRequired[c] \in {1, 2} /\ tier[c] = NoTier
    /\ stage[c] = "AWAITING_IDENTIFICATION" => cif[c] = NoCif
    /\ stage[c] \in MpinStages \cup OtpStages => cif[c] \in Customers \ Flagged
    /\ stage[c] \in OtpStages => otpTo[c] = MobileOf[cif[c]] /\ otpTo[c] \in Mobiles
    /\ stage[c] \in {"AWAITING_MPIN_PRIMARY", "AWAITING_OTP_FALLBACK", "AWAITING_OTP_SECOND_FACTOR"}
           => vouched[c]["cli"] = cif[c]
    /\ stage[c] \in {"AWAITING_OTP_STEPUP", "AWAITING_MPIN_AFTER_OTP"}
           => vouched[c]["identity"] = cif[c]
    /\ stage[c] = "AWAITING_OTP_FALLBACK" => tierRequired[c] = 1
    /\ stage[c] = "AWAITING_OTP_SECOND_FACTOR" => tierRequired[c] = 2 /\ vouched[c]["mpin"] = cif[c]
    /\ stage[c] = "AWAITING_MPIN_AFTER_OTP" => tierRequired[c] = 2 /\ vouched[c]["otp"] = cif[c]

\* The turns still to be had in one stage: the reprompts left, the attempts left, and
\* in a stage that waits for a code an allowance of attempts for each resend left.
TurnsForId(heard, n) == (SOFT_REPROMPT_MAX - heard) + (IDENTIFICATION_MAX_ATTEMPTS - n)

TurnsForMpin(heard, n) == (SOFT_REPROMPT_MAX - heard) + (MPIN_MAX_ATTEMPTS - n)

TurnsForOtp(heard, n, r) ==
    (SOFT_REPROMPT_MAX - heard) + (OTP_MAX_VERIFY_ATTEMPTS - n)
        + (OTP_MAX_RESENDS - r) * OTP_MAX_VERIFY_ATTEMPTS

\* The turns that the flow of call c can still take, this stage and those after it.
TurnsLeft(c) ==
    LET heard == soft[c][stage[c]] IN
    CASE stage[c] = "AWAITING_IDENTIFICATION" ->
             TurnsForId(heard, idAttempts[c]) + TurnsForOtp(0, 0, 0) + TurnsForMpin(0, 0)
      [] stage[c] = "AWAITING_MPIN_PRIMARY" ->
             TurnsForMpin(heard, mpinAttempts[c]) + TurnsForOtp(0, 0, 0)
      [] stage[c] = "AWAITING_OTP_STEPUP" ->
             TurnsForOtp(heard, otpAttempts[c], resends[c]) + TurnsForMpin(0, 0)
      [] stage[c] \in {"AWAITING_OTP_FALLBACK", "AWAITING_OTP_SECOND_FACTOR"} ->
             TurnsForOtp(heard, otpAttempts[c], resends[c])
      [] stage[c] = "AWAITING_MPIN_AFTER_OTP" -> TurnsForMpin(heard, mpinAttempts[c])
      [] stage[c] = "DONE" -> 0

\* No turn is free, one that repeats the same question included: whatever the caller
\* says, and although two counters are reset on the way, every turn lowers the number
\* of turns the flow can still take, which is finite from the start and never negative.
\* With the ceilings of the code that is 23 (flow.py 128-216, 262-290).
EveryTurnSpends ==
    [][\A c \in Calls : Turn(c) => TurnsLeft(c)' \in 0..TurnsLeft(c) - 1]_vars

\* A lock set by any call is final for all of them: even a call that was asked
\* for the MPIN before the lock cannot have it confirmed afterwards, and no
\* right answer clears the lock (cbs_dummy.py 115-126 under interleaved calls).
LockIsFinal ==
    [][\A k \in Customers : mpinLocked[k] =>
          /\ mpinLocked'[k]
          /\ \A c \in Calls : vouched'[c]["mpin"] = k => vouched[c]["mpin"] = k]_vars

\* Claimed by authentication-flow.md 7: an OTP is "single-use, invalidated by a
\* newer OTP or a resend". No two calls hold live codes for the same number.
NewerOtpInvalidates ==
    \A c, d \in Calls :
        c # d /\ otpState[c] = "live" /\ otpState[d] = "live" => otpTo[c] # otpTo[d]

\* The flow implements the policy: attempts, prompts, resends and lockouts are
\* all stutters or refusals of it, and nothing else is ever granted.
ImplementsPolicy == Policy!Spec

\* A caller who keeps answering, in whatever way, is eventually either
\* authenticated or handed to a person.
EveryFlowConcludes == \A c \in Calls : stage[c] # "DONE" ~> stage[c] = "DONE"
=============================================================================
