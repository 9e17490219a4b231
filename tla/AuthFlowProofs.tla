---------------------------- MODULE AuthFlowProofs ----------------------------
(***************************************************************************)
(* Theorems about AuthFlow for every set of calls, every customer table    *)
(* and every value of the ceilings.                                        *)
(***************************************************************************)
EXTENDS AuthFlow, TLAPS

USE PartiesAssumption, BankAssumption, CeilingAssumption

Numbers == Mobiles \cup {NoMobile}

-----------------------------------------------------------------------------
(***************************************************************************)
(* What the shared steps of the handlers preserve.                         *)
(***************************************************************************)
\* Ending a method well typed keeps the answer variables well typed.
LEMMA ReturnType ==
    ASSUME AnswerTypeOK, NEW c \in Calls, NEW s \in Stages, NEW st \in Statuses,
           NEW t \in Tiers \cup {NoTier}, NEW r \in Reasons \cup {NoReason},
           Return(c, s, st, t, r)
    PROVE  AnswerTypeOK'
BY DEF AnswerTypeOK, Return

\* Asking a question again or the next one.
LEMMA AskType ==
    ASSUME AnswerTypeOK, NEW c \in Calls, NEW s \in OpenStages, NEW st \in Asking,
           Ask(c, s, st)
    PROVE  AnswerTypeOK'
<1>1. /\ s \in Stages /\ st \in Statuses /\ NoReason \in Reasons \cup {NoReason}
      /\ tier[c] \in Tiers \cup {NoTier}
  BY DEF Stages, Statuses, AnswerTypeOK
<1>2. Return(c, s, st, tier[c], NoReason)
  BY DEF Ask
<1> QED BY <1>1, <1>2, ReturnType

\* Escalating for one of the listed reasons.
LEMMA EscalateType ==
    ASSUME AnswerTypeOK, NEW c \in Calls, NEW r \in Reasons, Escalate(c, r)
    PROVE  AnswerTypeOK'
<1>1. /\ "DONE" \in Stages /\ "ESCALATED" \in Statuses /\ r \in Reasons \cup {NoReason}
      /\ tier[c] \in Tiers \cup {NoTier}
  BY DEF Stages, Statuses, AnswerTypeOK
<1>2. Return(c, "DONE", "ESCALATED", tier[c], r)
  BY DEF Escalate
<1> QED BY <1>1, <1>2, ReturnType

\* Granting a tier.
LEMMA AuthenticatedType ==
    ASSUME AnswerTypeOK, NEW c \in Calls, NEW t \in Tiers, Authenticated(c, t)
    PROVE  AnswerTypeOK'
<1>1. /\ "DONE" \in Stages /\ "AUTHENTICATED" \in Statuses /\ t \in Tiers \cup {NoTier}
      /\ NoReason \in Reasons \cup {NoReason}
  BY DEF Stages, Statuses
<1>2. Return(c, "DONE", "AUTHENTICATED", t, NoReason)
  BY DEF Authenticated
<1> QED BY <1>1, <1>2, ReturnType

\* Sending a code to any number, and judging what the caller says of it.
LEMMA GatewayType ==
    ASSUME GatewayTypeOK(Numbers), NEW c \in Calls, NEW m \in Numbers, NEW right \in BOOLEAN,
           SendOtp(c, m) \/ ValidateOtp(c, right) \/ Expire(c) \/ UNCHANGED gatewayVars
    PROVE  GatewayTypeOK(Numbers)'
<1>1. CASE SendOtp(c, m)
  BY <1>1 DEF GatewayTypeOK, SendOtp, OtpStates
<1>2. CASE ValidateOtp(c, right)
  BY <1>2 DEF GatewayTypeOK, ValidateOtp, OtpStates
<1>3. CASE Expire(c)
  BY <1>3 DEF GatewayTypeOK, Expire, OtpStates
<1>4. CASE UNCHANGED gatewayVars
  BY <1>4 DEF GatewayTypeOK, gatewayVars
<1> QED BY <1>1, <1>2, <1>3, <1>4

\* Dispatching a code to a customer, with or without a number on file.
LEMMA DispatchType ==
    ASSUME AnswerTypeOK, GatewayTypeOK(Numbers),
           NEW c \in Calls, NEW k \in Customers, NEW s \in OtpStages, DispatchOtp(c, k, s)
    PROVE  AnswerTypeOK' /\ GatewayTypeOK(Numbers)'
<1>1. CASE MobileOf[k] = NoMobile
  <2>1. Escalate(c, "NO_REGISTERED_MOBILE") /\ UNCHANGED gatewayVars
    BY <1>1 DEF DispatchOtp
  <2>2. "NO_REGISTERED_MOBILE" \in Reasons
    BY DEF Reasons
  <2>3. NoMobile \in Numbers /\ TRUE \in BOOLEAN
    BY DEF Numbers
  <2> QED BY <2>1, <2>2, <2>3, EscalateType, GatewayType
<1>2. CASE MobileOf[k] # NoMobile
  <2>1. SendOtp(c, MobileOf[k]) /\ Ask(c, s, "NEEDS_OTP")
    BY <1>2 DEF DispatchOtp
  <2>2. /\ s \in OpenStages /\ "NEEDS_OTP" \in Asking
        /\ MobileOf[k] \in Numbers /\ TRUE \in BOOLEAN
    BY DEF OpenStages, Asking, Numbers
  <2> QED BY <2>1, <2>2, AskType, GatewayType
<1> QED BY <1>1, <1>2

\* The bank's lockout record after one validation.
LEMMA ValidateMpinType ==
    ASSUME BankTypeOK, NEW k \in Customers, NEW right \in BOOLEAN, ValidateMpin(k, right)
    PROVE  BankTypeOK'
<1>1. CASE mpinLocked[k]
  BY <1>1 DEF BankTypeOK, ValidateMpin, bankVars
<1>2. CASE ~mpinLocked[k]
  <2>1. mpinFails' \in [Customers -> Nat]
    BY <1>2 DEF BankTypeOK, ValidateMpin
  <2>2. mpinLocked' \in [Customers -> BOOLEAN]
    <3> DEFINE b == MpinAnswer(k, right) = "LOCKED"
    <3>1. b \in BOOLEAN
      OBVIOUS
    <3>2. mpinLocked' = [mpinLocked EXCEPT ![k] = b]
      BY <1>2 DEF ValidateMpin
    <3> HIDE DEF b
    <3> QED BY <3>1, <3>2, Zenon DEF BankTypeOK
  <2> QED BY <2>1, <2>2 DEF BankTypeOK
<1> QED BY <1>1, <1>2

\* Recording a confirmed factor.
LEMMA VouchType ==
    ASSUME vouched \in [Calls -> [Factors -> Customers \cup {NoCif}]],
           NEW c \in Calls, NEW f \in Factors, NEW k \in Customers \cup {NoCif}, Vouch(c, f, k)
    PROVE  vouched' \in [Calls -> [Factors -> Customers \cup {NoCif}]]
BY DEF Vouch

-----------------------------------------------------------------------------
(***************************************************************************)
(* Every handler preserves the types. Those that use the customer on file  *)
(* need to know that there is one, which PathInvariant says.               *)
(***************************************************************************)
\* start keeps the types, whatever number calls and whatever tier is required.
LEMMA StartType ==
    ASSUME TypeOK, NEW c \in Calls, NEW a \in Reachable \cup {NoCif}, NEW t \in Tiers,
           Start(c, a, t)
    PROVE  TypeOK'
<1>1. a \in Customers \cup {NoCif}
  BY DEF Reachable
<1>2. AnswerTypeOK'
  <2>1. \/ Return(c, "DONE", "NO_AUTH_REQUIRED", 0, NoReason)
        \/ Return(c, "AWAITING_IDENTIFICATION", "NEEDS_IDENTIFICATION", NoTier, NoReason)
        \/ Return(c, "DONE", "ESCALATED", NoTier, "ACCOUNT_FLAGGED")
        \/ Return(c, "AWAITING_MPIN_PRIMARY", "NEEDS_MPIN", NoTier, NoReason)
    BY DEF Start
  <2>2. /\ {"DONE", "AWAITING_IDENTIFICATION", "AWAITING_MPIN_PRIMARY"} \subseteq Stages
        /\ {"NO_AUTH_REQUIRED", "NEEDS_IDENTIFICATION", "ESCALATED", "NEEDS_MPIN"} \subseteq Statuses
        /\ "ACCOUNT_FLAGGED" \in Reasons /\ 0 \in Tiers /\ AnswerTypeOK
    BY DEF Stages, OpenStages, MpinStages, Statuses, Asking, Tiers, Reasons, TypeOK
  <2> QED
    BY <2>1, <2>2, ReturnType
<1>3. GatewayTypeOK(Numbers)'
  BY DEF Start, TypeOK, GatewayTypeOK, Numbers, OtpStates
<1>4. RetriesTypeOK'
  BY DEF Start, TypeOK, RetriesTypeOK
<1>5. BankTypeOK'
  BY DEF Start, TypeOK, BankTypeOK, bankVars
<1>6. /\ tierRequired' \in [Calls -> Tiers]
      /\ otpMisses' \in [Calls -> Nat]
  BY DEF Start, TypeOK
<1>7. cif' \in [Calls -> Customers \cup {NoCif}]
  BY <1>1 DEF Start, TypeOK
<1>8. vouched' \in [Calls -> [Factors -> Customers \cup {NoCif}]]
  BY <1>1 DEF Start, TypeOK
<1> QED
  BY <1>2, <1>3, <1>4, <1>5, <1>6, <1>7, <1>8 DEF TypeOK, Numbers

\* An answer of rejected confidence, which spends a soft reprompt or escalates,
\* keeps the types.
LEMMA NotHeardType ==
    ASSUME TypeOK, NEW c \in Calls, NotHeard(c)
    PROVE  TypeOK'
<1>1. /\ stage[c] \in OpenStages
      /\ \/ Escalate(c, "LOW_CONFIDENCE_EXCEEDED")
         \/ Ask(c, stage[c], "NEEDS_REPEAT")
  BY DEF NotHeard
<1>2. AnswerTypeOK'
  <2>1. "LOW_CONFIDENCE_EXCEEDED" \in Reasons /\ "NEEDS_REPEAT" \in Asking /\ AnswerTypeOK
    BY DEF Reasons, Asking, TypeOK
  <2> QED BY <1>1, <2>1, EscalateType, AskType
<1>3. soft' \in [Calls -> [OpenStages -> Nat]]
  BY <1>1 DEF NotHeard, TypeOK, RetriesTypeOK
<1> QED
  BY <1>2, <1>3 DEF NotHeard, TypeOK, RetriesTypeOK, BankTypeOK, GatewayTypeOK, bankVars, gatewayVars

\* submit_identification keeps the types, whomever the digits resolve to.
LEMMA SubmitIdentificationType ==
    ASSUME TypeOK, NEW c \in Calls, NEW k \in Customers \cup {NoCif}, SubmitIdentification(c, k)
    PROVE  TypeOK'
<1>1. stage[c] \in OpenStages /\ AnswerTypeOK /\ GatewayTypeOK(Numbers)
  BY DEF SubmitIdentification, OpenStages, TypeOK, Numbers
<1>2. /\ RetriesTypeOK' /\ BankTypeOK' /\ tierRequired' \in [Calls -> Tiers]
      /\ otpMisses' \in [Calls -> Nat]
  BY DEF SubmitIdentification, TypeOK, RetriesTypeOK, BankTypeOK, bankVars
<1>3. /\ cif' \in [Calls -> Customers \cup {NoCif}]
      /\ vouched' \in [Calls -> [Factors -> Customers \cup {NoCif}]]
  <2>1. \/ UNCHANGED <<cif, vouched>>
        \/ cif' = [cif EXCEPT ![c] = k] /\ Vouch(c, "identity", k)
    BY DEF SubmitIdentification
  <2>2. CASE UNCHANGED <<cif, vouched>>
    BY <2>2 DEF TypeOK
  <2>3. CASE cif' = [cif EXCEPT ![c] = k] /\ Vouch(c, "identity", k)
    BY <2>3, VouchType DEF TypeOK, Factors
  <2> QED BY <2>1, <2>2, <2>3
<1>4. AnswerTypeOK' /\ GatewayTypeOK(Numbers)'
  <2>1. /\ {"CANNOT_IDENTIFY_CALLER", "ACCOUNT_FLAGGED"} \subseteq Reasons
        /\ "NEEDS_IDENTIFICATION" \in Asking /\ "AWAITING_OTP_STEPUP" \in OtpStages
        /\ NoMobile \in Numbers /\ TRUE \in BOOLEAN
    BY DEF Reasons, Asking, OtpStages, Numbers
  <2>2. CASE k = NoCif
    <3>1. /\ UNCHANGED gatewayVars
          /\ \/ Escalate(c, "CANNOT_IDENTIFY_CALLER")
             \/ Ask(c, stage[c], "NEEDS_IDENTIFICATION")
      BY <2>2 DEF SubmitIdentification
    <3> QED BY <1>1, <2>1, <3>1, EscalateType, AskType, GatewayType
  <2>3. CASE k # NoCif
    <3>1. \/ Escalate(c, "ACCOUNT_FLAGGED") /\ UNCHANGED gatewayVars
          \/ DispatchOtp(c, k, "AWAITING_OTP_STEPUP")
      BY <2>3 DEF SubmitIdentification
    <3>2. k \in Customers
      BY <2>3
    <3> QED BY <1>1, <2>1, <3>1, <3>2, EscalateType, DispatchType, GatewayType
  <2> QED BY <2>2, <2>3
<1> QED
  BY <1>2, <1>3, <1>4 DEF TypeOK, Numbers

\* submit_mpin keeps the types of flow, lockout record and gateway, given the
\* customer on file whose MPIN the bank is asked about.
LEMMA SubmitMpinType ==
    ASSUME TypeOK, NEW c \in Calls, cif[c] \in Customers, NEW right \in BOOLEAN,
           SubmitMpin(c, right)
    PROVE  TypeOK'
<1>1. stage[c] \in OpenStages /\ AnswerTypeOK /\ GatewayTypeOK(Numbers)
  BY DEF SubmitMpin, OpenStages, TypeOK, Numbers
<1>2. BankTypeOK'
  BY ValidateMpinType DEF SubmitMpin, TypeOK
<1>3. /\ RetriesTypeOK' /\ tierRequired' \in [Calls -> Tiers] /\ otpMisses' \in [Calls -> Nat]
      /\ cif' \in [Calls -> Customers \cup {NoCif}]
  BY DEF SubmitMpin, TypeOK, RetriesTypeOK
<1>4. vouched' \in [Calls -> [Factors -> Customers \cup {NoCif}]]
  BY DEF SubmitMpin, TypeOK, Vouch, Factors
<1>5. AnswerTypeOK' /\ GatewayTypeOK(Numbers)'
  <2>1. /\ {"MPIN_LOCKED", "MPIN_FAILED"} \subseteq Reasons
        /\ "NEEDS_MPIN" \in Asking /\ {1, 2} \subseteq Tiers
        /\ {"AWAITING_OTP_SECOND_FACTOR", "AWAITING_OTP_FALLBACK"} \subseteq OtpStages
        /\ NoMobile \in Numbers /\ TRUE \in BOOLEAN
    BY DEF Reasons, Asking, Tiers, OtpStages, Numbers
  <2>2. \/ /\ UNCHANGED gatewayVars
           /\ \/ \E r \in {"MPIN_LOCKED", "MPIN_FAILED"} : Escalate(c, r)
              \/ \E t \in {1, 2} : Authenticated(c, t)
              \/ Ask(c, stage[c], "NEEDS_MPIN")
        \/ \E s \in {"AWAITING_OTP_SECOND_FACTOR", "AWAITING_OTP_FALLBACK"} :
              DispatchOtp(c, cif[c], s)
    BY DEF SubmitMpin
  <2>3. CASE \E s \in {"AWAITING_OTP_SECOND_FACTOR", "AWAITING_OTP_FALLBACK"} :
                DispatchOtp(c, cif[c], s)
    BY <1>1, <2>1, <2>3, DispatchType
  <2>4. CASE UNCHANGED gatewayVars
    <3>1. GatewayTypeOK(Numbers)'
      BY <1>1, <2>1, <2>4, GatewayType
    <3>2. CASE \E s \in {"AWAITING_OTP_SECOND_FACTOR", "AWAITING_OTP_FALLBACK"} :
                  DispatchOtp(c, cif[c], s)
      BY <2>3, <3>2
    <3>3. CASE \E r \in {"MPIN_LOCKED", "MPIN_FAILED"} : Escalate(c, r)
      BY <1>1, <2>1, <3>1, <3>3, EscalateType
    <3>4. CASE \E t \in {1, 2} : Authenticated(c, t)
      BY <1>1, <2>1, <3>1, <3>4, AuthenticatedType
    <3>5. CASE Ask(c, stage[c], "NEEDS_MPIN")
      BY <1>1, <2>1, <3>1, <3>5, AskType
    <3> QED BY <2>2, <3>2, <3>3, <3>4, <3>5
  <2> QED BY <2>2, <2>3, <2>4
<1> QED
  BY <1>2, <1>3, <1>4, <1>5 DEF TypeOK, Numbers

\* submit_otp keeps the types, whatever the gateway says of the code.
LEMMA SubmitOtpType ==
    ASSUME TypeOK, NEW c \in Calls, NEW right \in BOOLEAN, SubmitOtp(c, right)
    PROVE  TypeOK'
<1>1. stage[c] \in OpenStages /\ AnswerTypeOK /\ GatewayTypeOK(Numbers)
  BY DEF SubmitOtp, OpenStages, TypeOK, Numbers
<1>2. GatewayTypeOK(Numbers)'
  <2>1. NoMobile \in Numbers
    BY DEF Numbers
  <2> QED BY <1>1, <2>1, GatewayType DEF SubmitOtp
<1>3. /\ BankTypeOK' /\ tierRequired' \in [Calls -> Tiers]
      /\ cif' \in [Calls -> Customers \cup {NoCif}]
      /\ otpMisses' \in [Calls -> Nat]
  BY DEF SubmitOtp, TypeOK, BankTypeOK, bankVars
<1>4. RetriesTypeOK'
  <2>1. UNCHANGED mpinAttempts \/ mpinAttempts' = [mpinAttempts EXCEPT ![c] = 0]
    <3>1. OnOtpCorrect(c) \/ UNCHANGED mpinAttempts
      BY DEF SubmitOtp
    <3> QED BY <3>1 DEF OnOtpCorrect
  <2>2. UNCHANGED otpAttempts \/ otpAttempts' = [otpAttempts EXCEPT ![c] = @ + 1]
    BY Zenon DEF SubmitOtp
  <2>3. UNCHANGED <<idAttempts, resends, soft>>
    BY DEF SubmitOtp
  <2>4. mpinAttempts' \in [Calls -> Nat]
    BY <2>1 DEF TypeOK, RetriesTypeOK
  <2>5. otpAttempts' \in [Calls -> Nat]
    <3>1. otpAttempts \in [Calls -> Nat] /\ otpAttempts[c] + 1 \in Nat
      BY DEF TypeOK, RetriesTypeOK
    <3>2. CASE UNCHANGED otpAttempts
      BY <3>1, <3>2
    <3>3. CASE otpAttempts' = [otpAttempts EXCEPT ![c] = @ + 1]
      BY <3>1, <3>3
    <3> QED BY <2>2, <3>2, <3>3
  <2> QED BY <2>3, <2>4, <2>5 DEF TypeOK, RetriesTypeOK
<1>5. vouched' \in [Calls -> [Factors -> Customers \cup {NoCif}]]
  <2> DEFINE k == IF otpTo[c] = MobileOf[cif[c]] THEN cif[c] ELSE NoCif
  <2>1. UNCHANGED vouched \/ Vouch(c, "otp", k)
    BY DEF SubmitOtp, OnOtpCorrect
  <2>2. k \in Customers \cup {NoCif}
    BY DEF TypeOK
  <2> HIDE DEF k
  <2> QED BY <2>1, <2>2, VouchType DEF TypeOK, Factors
<1>6. AnswerTypeOK'
  <2>1. /\ "OTP_FAILED" \in Reasons /\ {"NEEDS_OTP", "NEEDS_MPIN"} \subseteq Asking
        /\ "AWAITING_MPIN_AFTER_OTP" \in OpenStages /\ {1, 2} \subseteq Tiers
    BY DEF Reasons, Asking, OpenStages, MpinStages, Tiers
  <2>2. \/ Escalate(c, "OTP_FAILED")
        \/ Ask(c, stage[c], "NEEDS_OTP")
        \/ Ask(c, "AWAITING_MPIN_AFTER_OTP", "NEEDS_MPIN")
        \/ Authenticated(c, 1)
        \/ Authenticated(c, 2)
    BY DEF SubmitOtp, OnOtpCorrect
  <2> QED BY <1>1, <2>1, <2>2, EscalateType, AskType, AuthenticatedType
<1> QED
  BY <1>2, <1>3, <1>4, <1>5, <1>6 DEF TypeOK, Numbers

\* request_otp_resend keeps the types, given the customer on file whose number
\* it sends to without a check.
LEMMA RequestOtpResendType ==
    ASSUME TypeOK, NEW c \in Calls, cif[c] \in Customers, RequestOtpResend(c)
    PROVE  TypeOK'
<1>1. stage[c] \in OpenStages /\ AnswerTypeOK /\ GatewayTypeOK(Numbers)
  BY DEF RequestOtpResend, OpenStages, TypeOK, Numbers
<1>2. \/ Escalate(c, "OTP_FAILED") /\ UNCHANGED gatewayVars
      \/ SendOtp(c, MobileOf[cif[c]]) /\ Ask(c, stage[c], "NEEDS_OTP")
  BY DEF RequestOtpResend
<1>3. /\ "OTP_FAILED" \in Reasons /\ "NEEDS_OTP" \in Asking
      /\ MobileOf[cif[c]] \in Numbers /\ TRUE \in BOOLEAN
  BY DEF Reasons, Asking, Numbers
<1>4. AnswerTypeOK' /\ GatewayTypeOK(Numbers)'
  BY <1>1, <1>2, <1>3, EscalateType, AskType, GatewayType
<1>5. RetriesTypeOK'
  BY DEF RequestOtpResend, TypeOK, RetriesTypeOK
<1> QED
  BY <1>4, <1>5 DEF RequestOtpResend, TypeOK, BankTypeOK, bankVars, Numbers

-----------------------------------------------------------------------------
(***************************************************************************)
(* The inductive invariant, one call at a time.                            *)
(***************************************************************************)
CallInv(c) == PathInvariant(c) /\ Earned(c) /\ PromptMatches(c)

IInv == TypeOK /\ \A c \in Calls : CallInv(c)

\* Call c's flow moves: its caller answers, its owner starts a flow, whatever
\* became of the one before, or its code runs out. More than Next allows, which
\* starts a flow only after one that is done; the coordinator does not wait.
Move(c) ==
    \/ Turn(c)
    \/ \E a \in Reachable \cup {NoCif}, t \in Tiers : Start(c, a, t)
    \/ Expire(c) /\ UNCHANGED <<bankVars, flowVars>>

\* A step of one call leaves what the invariant says of another alone.
Untouched(d) ==
    /\ stage'[d] = stage[d] /\ status'[d] = status[d]
    /\ tier'[d] = tier[d] /\ reason'[d] = reason[d]
    /\ tierRequired'[d] = tierRequired[d] /\ cif'[d] = cif[d]
    /\ vouched'[d] = vouched[d] /\ otpTo'[d] = otpTo[d]

\* A call none of whose attributes change keeps its invariant.
LEMMA UntouchedInv ==
    ASSUME NEW d \in Calls, Untouched(d), CallInv(d)
    PROVE  CallInv(d)'
<1>1. PathInvariant(d)'
  BY DEF Untouched, CallInv, PathInvariant
<1>2. Earned(d)'
  BY DEF Untouched, CallInv, Earned, Evidence, Policy!Sufficient
<1>3. PromptMatches(d)'
  BY DEF Untouched, CallInv, PromptMatches
<1> QED BY <1>1, <1>2, <1>3 DEF CallInv

\* Ending a handler writes stage and result of its own flow only.
LEMMA ReturnFrame ==
    ASSUME AnswerTypeOK, NEW c \in Calls, NEW d \in Calls, d # c,
           NEW s, NEW st, NEW t, NEW r, Return(c, s, st, t, r)
    PROVE  /\ stage'[d] = stage[d] /\ status'[d] = status[d]
           /\ tier'[d] = tier[d] /\ reason'[d] = reason[d]
BY DEF AnswerTypeOK, Return

\* Dispatching a code, sent or escalated, writes to its own call only.
LEMMA DispatchFrame ==
    ASSUME AnswerTypeOK, GatewayTypeOK(Numbers), NEW c \in Calls, NEW d \in Calls, d # c,
           NEW k, NEW s, DispatchOtp(c, k, s)
    PROVE  /\ stage'[d] = stage[d] /\ status'[d] = status[d]
           /\ tier'[d] = tier[d] /\ reason'[d] = reason[d] /\ otpTo'[d] = otpTo[d]
<1>1. CASE MobileOf[k] = NoMobile
  BY <1>1, ReturnFrame DEF DispatchOtp, Escalate, gatewayVars
<1>2. CASE MobileOf[k] # NoMobile
  BY <1>2, ReturnFrame DEF DispatchOtp, SendOtp, Ask, GatewayTypeOK
<1> QED BY <1>1, <1>2

\* Noting a confirmed factor leaves the evidence of other calls alone.
LEMMA VouchFrame ==
    ASSUME vouched \in [Calls -> [Factors -> Customers \cup {NoCif}]],
           NEW c \in Calls, NEW d \in Calls, d # c, NEW f, NEW k, Vouch(c, f, k)
    PROVE  vouched'[d] = vouched[d]
BY DEF Vouch

\* Every action of call c leaves every other call untouched.
LEMMA Frame ==
    ASSUME TypeOK, NEW c \in Calls, NEW d \in Calls, d # c,
           Move(c)
    PROVE  Untouched(d)
<1>1. AnswerTypeOK /\ GatewayTypeOK(Numbers)
  BY DEF TypeOK, Numbers
<1>2. /\ vouched \in [Calls -> [Factors -> Customers \cup {NoCif}]]
      /\ tierRequired \in [Calls -> Tiers]
      /\ cif \in [Calls -> Customers \cup {NoCif}]
  BY DEF TypeOK
<1>3. CASE Expire(c) /\ UNCHANGED <<bankVars, flowVars>>
  BY <1>3 DEF Expire, Untouched, flowVars, answer
<1>4. ASSUME NEW a, NEW t, Start(c, a, t)
      PROVE  Untouched(d)
  <2>1. \E s, st, u, r : Return(c, s, st, u, r)
    BY <1>4 DEF Start
  <2>2. /\ stage'[d] = stage[d] /\ status'[d] = status[d]
        /\ tier'[d] = tier[d] /\ reason'[d] = reason[d]
    BY <1>1, <2>1, ReturnFrame
  <2>3. otpTo'[d] = otpTo[d]
    BY <1>1, <1>4 DEF Start, GatewayTypeOK
  <2>4. tierRequired'[d] = tierRequired[d] /\ cif'[d] = cif[d] /\ vouched'[d] = vouched[d]
    BY <1>2, <1>4 DEF Start
  <2> QED BY <2>2, <2>3, <2>4 DEF Untouched
<1>5. CASE NotHeard(c)
  BY <1>1, <1>5, ReturnFrame DEF NotHeard, Escalate, Ask, gatewayVars, Untouched
<1>6. ASSUME NEW k, SubmitIdentification(c, k)
      PROVE  Untouched(d)
  <2>1. cif'[d] = cif[d] /\ vouched'[d] = vouched[d] /\ tierRequired'[d] = tierRequired[d]
    BY <1>2, <1>6, VouchFrame DEF SubmitIdentification
  <2>2. \/ UNCHANGED gatewayVars /\ \E s, st, u, r : Return(c, s, st, u, r)
        \/ DispatchOtp(c, k, "AWAITING_OTP_STEPUP")
    BY <1>6 DEF SubmitIdentification, Escalate, Ask
  <2> QED BY <1>1, <2>1, <2>2, ReturnFrame, DispatchFrame DEF Untouched, gatewayVars
<1>7. ASSUME NEW right, SubmitMpin(c, right)
      PROVE  Untouched(d)
  <2>1. cif'[d] = cif[d] /\ vouched'[d] = vouched[d] /\ tierRequired'[d] = tierRequired[d]
    BY <1>2, <1>7, VouchFrame DEF SubmitMpin
  <2>2. \/ UNCHANGED gatewayVars /\ \E s, st, u, r : Return(c, s, st, u, r)
        \/ \E s : DispatchOtp(c, cif[c], s)
    BY <1>7 DEF SubmitMpin, Escalate, Ask, Authenticated
  <2> QED BY <1>1, <2>1, <2>2, ReturnFrame, DispatchFrame DEF Untouched, gatewayVars
<1>8. ASSUME NEW right, SubmitOtp(c, right)
      PROVE  Untouched(d)
  <2>1. cif'[d] = cif[d] /\ tierRequired'[d] = tierRequired[d] /\ otpTo'[d] = otpTo[d]
    BY <1>8 DEF SubmitOtp, ValidateOtp
  <2>2. OnOtpCorrect(c) \/ UNCHANGED vouched
    BY <1>8 DEF SubmitOtp
  <2>3. vouched'[d] = vouched[d]
    BY <1>2, <2>2, VouchFrame DEF OnOtpCorrect
  <2>4. \E s, st, u, r : Return(c, s, st, u, r)
    BY <1>8 DEF SubmitOtp, OnOtpCorrect, Escalate, Ask, Authenticated
  <2> QED BY <1>1, <2>1, <2>3, <2>4, ReturnFrame DEF Untouched
<1>9. CASE RequestOtpResend(c)
  <2>1. cif'[d] = cif[d] /\ vouched'[d] = vouched[d] /\ tierRequired'[d] = tierRequired[d]
    BY <1>9 DEF RequestOtpResend
  <2>2. otpTo'[d] = otpTo[d]
    BY <1>1, <1>9 DEF RequestOtpResend, SendOtp, GatewayTypeOK, gatewayVars
  <2>3. \E s, st, u, r : Return(c, s, st, u, r)
    BY <1>9 DEF RequestOtpResend, Escalate, Ask
  <2> QED BY <1>1, <2>1, <2>2, <2>3, ReturnFrame DEF Untouched
<1> QED
  BY <1>3, <1>4, <1>5, <1>6, <1>7, <1>8, <1>9 DEF Move, Turn

-----------------------------------------------------------------------------
(***************************************************************************)
(* The call that moves: what each way of ending a handler establishes.     *)
(***************************************************************************)
Settled(c) == \A f \in Factors : vouched[c][f] \in {NoCif, cif[c]}

\* Ending a handler gives its own flow the stage and the result it names.
LEMMA ReturnValues ==
    ASSUME AnswerTypeOK, NEW c \in Calls, NEW s, NEW st, NEW t, NEW r, Return(c, s, st, t, r)
    PROVE  stage'[c] = s /\ status'[c] = st /\ tier'[c] = t /\ reason'[c] = r
BY DEF AnswerTypeOK, Return

\* A handler that escalates leaves nothing to prove but the settled subject.
LEMMA EscalateInv ==
    ASSUME AnswerTypeOK, NEW c \in Calls, NEW r \in Reasons, Escalate(c, r), Settled(c)'
    PROVE  CallInv(c)'
<1>1. stage'[c] = "DONE" /\ status'[c] = "ESCALATED" /\ reason'[c] = r
  BY ReturnValues DEF Escalate
<1>2. PathInvariant(c)'
  BY <1>1 DEF PathInvariant, Settled, MpinStages, OtpStages
<1>3. Earned(c)'
  BY <1>1 DEF Earned
<1>4. PromptMatches(c)'
  BY <1>1 DEF PromptMatches, Asking, Reasons, NoReason
<1> QED BY <1>2, <1>3, <1>4 DEF CallInv

\* A handler that grants a tier must have the evidence for it.
LEMMA AuthenticatedInv ==
    ASSUME AnswerTypeOK, NEW c \in Calls, NEW t, Authenticated(c, t), Settled(c)',
           t = tierRequired'[c], cif'[c] \in Customers \ Flagged,
           Policy!Sufficient(t, Evidence(c, cif[c])')
    PROVE  CallInv(c)'
<1>1. stage'[c] = "DONE" /\ status'[c] = "AUTHENTICATED" /\ tier'[c] = t /\ reason'[c] = NoReason
  BY ReturnValues DEF Authenticated
<1>2. PathInvariant(c)'
  BY <1>1 DEF PathInvariant, Settled, MpinStages, OtpStages
<1>3. Earned(c)'
  BY <1>1 DEF Earned
<1>4. PromptMatches(c)'
  BY <1>1 DEF PromptMatches, Asking
<1> QED BY <1>2, <1>3, <1>4 DEF CallInv

\* A handler that asks again or asks on must have kept to the paths.
LEMMA AskInv ==
    ASSUME AnswerTypeOK, NEW c \in Calls, NEW s \in OpenStages, NEW st \in Asking, Ask(c, s, st),
           PathInvariant(c)',
           st = "NEEDS_IDENTIFICATION" => s = "AWAITING_IDENTIFICATION",
           st = "NEEDS_MPIN" => s \in MpinStages,
           st = "NEEDS_OTP" => s \in OtpStages
    PROVE  CallInv(c)'
<1>1. stage'[c] = s /\ status'[c] = st /\ reason'[c] = NoReason
  BY ReturnValues DEF Ask
<1>2. Earned(c)'
  BY <1>1 DEF Earned, Asking
<1>3. PromptMatches(c)'
  BY <1>1 DEF PromptMatches, Asking, OpenStages, MpinStages, OtpStages
<1> QED BY <1>2, <1>3 DEF CallInv

\* Dispatching a code for customer k, already on file after the step.
LEMMA DispatchInv ==
    ASSUME TypeOK, NEW c \in Calls, NEW k \in Customers \ Flagged, NEW s \in OtpStages,
           DispatchOtp(c, k, s), Settled(c)', cif'[c] = k, tierRequired'[c] \in {1, 2},
           tier[c] = NoTier,
           s = "AWAITING_OTP_FALLBACK" => tierRequired'[c] = 1,
           s = "AWAITING_OTP_STEPUP" => vouched'[c]["identity"] = k,
           s # "AWAITING_OTP_STEPUP" => vouched'[c]["cli"] = k,
           s = "AWAITING_OTP_SECOND_FACTOR" => tierRequired'[c] = 2 /\ vouched'[c]["mpin"] = k
    PROVE  CallInv(c)'
<1>1. AnswerTypeOK /\ GatewayTypeOK(Numbers)
  BY DEF TypeOK, Numbers
<1>2. CASE MobileOf[k] = NoMobile
  BY <1>1, <1>2, EscalateInv DEF DispatchOtp, Reasons
<1>3. CASE MobileOf[k] # NoMobile
  <2>1. SendOtp(c, MobileOf[k]) /\ Ask(c, s, "NEEDS_OTP")
    BY <1>3 DEF DispatchOtp
  <2>2. otpTo'[c] = MobileOf[k] /\ MobileOf[k] \in Mobiles
    BY <1>1, <1>3, <2>1 DEF SendOtp, GatewayTypeOK
  <2>3. stage'[c] = s /\ tier'[c] = NoTier
    BY <1>1, <2>1, ReturnValues DEF Ask
  <2>4. PathInvariant(c)'
    BY <2>2, <2>3 DEF PathInvariant, Settled, OtpStages, MpinStages
  <2>5. s \in OpenStages /\ "NEEDS_OTP" \in Asking
    BY DEF OpenStages, Asking
  <2> QED BY <1>1, <2>1, <2>4, <2>5, AskInv
<1> QED BY <1>2, <1>3

-----------------------------------------------------------------------------
(***************************************************************************)
(* Each handler establishes the invariant of its own call.                 *)
(***************************************************************************)
\* A flow that starts is on the path of its tier: nothing required, a number
\* matched to a customer without flags, or identification to be asked for.
LEMMA StartInv ==
    ASSUME TypeOK, NEW c \in Calls, NEW a \in Reachable \cup {NoCif}, NEW t \in Tiers,
           Start(c, a, t)
    PROVE  CallInv(c)'
<1> DEFINE matched == IF t = 0 THEN NoCif ELSE a
<1>1. AnswerTypeOK
  BY DEF TypeOK
<1>2. matched \in Customers \cup {NoCif}
  BY DEF Reachable
<1>3. /\ tierRequired'[c] = t /\ cif'[c] = matched
      /\ vouched'[c] = [f \in Factors |-> IF f = "cli" THEN matched ELSE NoCif]
  BY DEF Start, TypeOK
<1>4. Settled(c)' /\ vouched'[c]["cli"] = matched
  BY <1>3 DEF Settled, Factors
<1>5. \/ t = 0 /\ Return(c, "DONE", "NO_AUTH_REQUIRED", 0, NoReason)
      \/ /\ t # 0 /\ matched = NoCif
         /\ Return(c, "AWAITING_IDENTIFICATION", "NEEDS_IDENTIFICATION", NoTier, NoReason)
      \/ Return(c, "DONE", "ESCALATED", NoTier, "ACCOUNT_FLAGGED")
      \/ /\ matched # NoCif /\ matched \notin Flagged
         /\ Return(c, "AWAITING_MPIN_PRIMARY", "NEEDS_MPIN", NoTier, NoReason)
  BY DEF Start, AccountFlags
<1> HIDE DEF matched
<1>6. CASE Return(c, "DONE", "NO_AUTH_REQUIRED", 0, NoReason)
  <2>1. stage'[c] = "DONE" /\ status'[c] = "NO_AUTH_REQUIRED" /\ reason'[c] = NoReason
    BY <1>1, <1>6, ReturnValues
  <2> QED
    BY <1>4, <2>1 DEF CallInv, PathInvariant, Earned, PromptMatches, Settled, MpinStages, OtpStages,
                      Asking
<1>7. CASE Return(c, "DONE", "ESCALATED", NoTier, "ACCOUNT_FLAGGED")
  <2>1. stage'[c] = "DONE" /\ status'[c] = "ESCALATED" /\ reason'[c] = "ACCOUNT_FLAGGED"
    BY <1>1, <1>7, ReturnValues
  <2> QED
    BY <1>4, <2>1 DEF CallInv, PathInvariant, Earned, PromptMatches, Settled, MpinStages, OtpStages,
                      Asking, NoReason
<1>8. CASE /\ t # 0 /\ matched = NoCif
           /\ Return(c, "AWAITING_IDENTIFICATION", "NEEDS_IDENTIFICATION", NoTier, NoReason)
  <2>1. /\ stage'[c] = "AWAITING_IDENTIFICATION" /\ status'[c] = "NEEDS_IDENTIFICATION"
        /\ tier'[c] = NoTier /\ reason'[c] = NoReason
    BY <1>1, <1>8, ReturnValues
  <2>2. PathInvariant(c)'
    BY <1>3, <1>4, <1>8, <2>1 DEF PathInvariant, Settled, MpinStages, OtpStages, Tiers
  <2> QED
    BY <2>1, <2>2 DEF CallInv, Earned, PromptMatches, Asking
<1>9. CASE /\ matched # NoCif /\ matched \notin Flagged
           /\ Return(c, "AWAITING_MPIN_PRIMARY", "NEEDS_MPIN", NoTier, NoReason)
  <2>1. /\ stage'[c] = "AWAITING_MPIN_PRIMARY" /\ status'[c] = "NEEDS_MPIN"
        /\ tier'[c] = NoTier /\ reason'[c] = NoReason
    BY <1>1, <1>9, ReturnValues
  <2>2. t # 0
    BY <1>9 DEF matched
  <2>3. PathInvariant(c)'
    BY <1>2, <1>3, <1>4, <1>9, <2>1, <2>2 DEF PathInvariant, Settled, MpinStages, OtpStages, Tiers
  <2> QED
    BY <2>1, <2>3 DEF CallInv, Earned, PromptMatches, Asking, MpinStages
<1> QED BY <1>5, <1>6, <1>7, <1>8, <1>9

\* An answer of rejected confidence confirms nothing: the flow stays where it
\* was, or escalates.
LEMMA NotHeardInv ==
    ASSUME TypeOK, NEW c \in Calls, CallInv(c), NotHeard(c)
    PROVE  CallInv(c)'
<1>1. AnswerTypeOK /\ UNCHANGED <<cif, vouched, tierRequired, otpTo>>
  BY DEF TypeOK, NotHeard, gatewayVars
<1>2. Settled(c)'
  BY <1>1 DEF Settled, CallInv, PathInvariant
<1>3. CASE Escalate(c, "LOW_CONFIDENCE_EXCEEDED")
  BY <1>1, <1>2, <1>3, EscalateInv DEF Reasons
<1>4. CASE Ask(c, stage[c], "NEEDS_REPEAT")
  <2>1. stage'[c] = stage[c] /\ tier'[c] = tier[c] /\ stage[c] \in OpenStages
    BY <1>1, <1>4, ReturnValues DEF Ask, NotHeard
  <2>2. PathInvariant(c)'
    BY <1>1, <2>1 DEF CallInv, PathInvariant
  <2> QED BY <1>1, <1>4, <2>1, <2>2, AskInv DEF Asking
<1> QED BY <1>3, <1>4 DEF NotHeard

\* Identification settles the subject of the flow, and only a customer without
\* flags and with a number gets as far as a code.
LEMMA SubmitIdentificationInv ==
    ASSUME TypeOK, NEW c \in Calls, CallInv(c), NEW k \in Customers \cup {NoCif},
           SubmitIdentification(c, k)
    PROVE  CallInv(c)'
<1>1. /\ AnswerTypeOK /\ UNCHANGED tierRequired
      /\ stage[c] = "AWAITING_IDENTIFICATION"
  BY DEF TypeOK, SubmitIdentification
<1>2. /\ cif[c] = NoCif /\ tier[c] = NoTier /\ tierRequired[c] \in {1, 2}
      /\ \A f \in Factors : vouched[c][f] = NoCif
  BY <1>1 DEF CallInv, PathInvariant
<1>3. CASE k = NoCif
  <2>1. /\ UNCHANGED <<gatewayVars, cif, vouched>>
        /\ \/ Escalate(c, "CANNOT_IDENTIFY_CALLER")
           \/ Ask(c, stage[c], "NEEDS_IDENTIFICATION")
    BY <1>3 DEF SubmitIdentification
  <2>2. Settled(c)'
    BY <1>2, <2>1 DEF Settled
  <2>3. CASE Escalate(c, "CANNOT_IDENTIFY_CALLER")
    BY <1>1, <2>2, <2>3, EscalateInv DEF Reasons
  <2>4. CASE Ask(c, stage[c], "NEEDS_IDENTIFICATION")
    <3>1. stage'[c] = stage[c] /\ tier'[c] = tier[c]
      BY <1>1, <2>4, ReturnValues DEF Ask
    <3>2. PathInvariant(c)'
      BY <1>1, <2>1, <3>1 DEF CallInv, PathInvariant, gatewayVars
    <3> QED BY <1>1, <2>4, <3>2, AskInv DEF Asking, OpenStages
  <2> QED BY <2>1, <2>3, <2>4
<1>4. CASE k # NoCif
  <2>1. cif'[c] = k /\ vouched'[c] = [vouched[c] EXCEPT !["identity"] = k]
    BY <1>4 DEF SubmitIdentification, Vouch, TypeOK
  <2>2. Settled(c)' /\ vouched'[c]["identity"] = k
    BY <1>2, <2>1 DEF Settled, TypeOK, Factors
  <2>3. CASE k \in Flagged
    <3>1. Escalate(c, "ACCOUNT_FLAGGED")
      BY <1>4, <2>3 DEF SubmitIdentification, AccountFlags
    <3> QED BY <1>1, <2>2, <3>1, EscalateInv DEF Reasons
  <2>4. CASE k \notin Flagged
    <3>1. DispatchOtp(c, k, "AWAITING_OTP_STEPUP")
      BY <1>4, <2>4 DEF SubmitIdentification, AccountFlags
    <3>2. k \in Customers \ Flagged /\ "AWAITING_OTP_STEPUP" \in OtpStages
      BY <1>4, <2>4 DEF OtpStages
    <3> QED BY <1>1, <1>2, <2>1, <2>2, <3>1, <3>2, DispatchInv
  <2> QED BY <2>3, <2>4
<1> QED BY <1>3, <1>4

\* A right MPIN leads on only with the factors already confirmed for the same
\* customer; a wrong one repeats, falls back to a code, or escalates.
LEMMA SubmitMpinInv ==
    ASSUME TypeOK, NEW c \in Calls, CallInv(c), NEW right \in BOOLEAN, SubmitMpin(c, right)
    PROVE  CallInv(c)'
<1>1. /\ AnswerTypeOK /\ UNCHANGED <<tierRequired, cif>> /\ stage[c] \in MpinStages
  BY DEF TypeOK, SubmitMpin
<1>2. /\ cif[c] \in Customers \ Flagged /\ tier[c] = NoTier /\ tierRequired[c] \in {1, 2}
      /\ Settled(c)
      /\ stage[c] = "AWAITING_MPIN_PRIMARY" => vouched[c]["cli"] = cif[c]
      /\ stage[c] = "AWAITING_MPIN_AFTER_OTP" =>
            /\ tierRequired[c] = 2
            /\ vouched[c]["identity"] = cif[c] /\ vouched[c]["otp"] = cif[c]
  BY <1>1 DEF CallInv, PathInvariant, Settled, OpenStages, MpinStages
<1>3. MpinAnswer(cif[c], right) \in {"LOCKED", "CORRECT", "INCORRECT"}
  BY DEF MpinAnswer
<1>4. CASE MpinAnswer(cif[c], right) = "LOCKED"
  <2>1. Escalate(c, "MPIN_LOCKED") /\ UNCHANGED vouched
    BY <1>4 DEF SubmitMpin
  <2>2. Settled(c)'
    BY <1>1, <1>2, <2>1 DEF Settled
  <2> QED BY <1>1, <2>1, <2>2, EscalateInv DEF Reasons
<1>5. CASE MpinAnswer(cif[c], right) = "CORRECT"
  <2>1. vouched'[c] = [vouched[c] EXCEPT !["mpin"] = cif[c]]
    BY <1>5 DEF SubmitMpin, Vouch, TypeOK
  <2>2. /\ Settled(c)' /\ vouched'[c]["mpin"] = cif[c]
        /\ \A f \in Factors : vouched[c][f] = cif[c] => vouched'[c][f] = cif[c]
    BY <1>1, <1>2, <2>1 DEF Settled, TypeOK, Factors
  <2>3. CASE stage[c] = "AWAITING_MPIN_AFTER_OTP"
    <3>1. Authenticated(c, 2)
      BY <1>5, <2>3 DEF SubmitMpin
    <3>2. {"identity", "otp", "mpin"} \subseteq Evidence(c, cif[c])'
      BY <1>1, <1>2, <2>2, <2>3 DEF Evidence, Factors
    <3>3. Policy!Sufficient(2, Evidence(c, cif[c])')
      BY <3>2 DEF Policy!Sufficient
    <3> QED BY <1>1, <1>2, <2>2, <2>3, <3>1, <3>3, AuthenticatedInv
  <2>4. CASE stage[c] = "AWAITING_MPIN_PRIMARY" /\ tierRequired[c] = 1
    <3>1. Authenticated(c, 1)
      BY <1>5, <2>4 DEF SubmitMpin
    <3>2. {"cli", "mpin"} \subseteq Evidence(c, cif[c])'
      BY <1>1, <1>2, <2>2, <2>4 DEF Evidence, Factors
    <3>3. Policy!Sufficient(1, Evidence(c, cif[c])')
      BY <3>2 DEF Policy!Sufficient
    <3> QED BY <1>1, <1>2, <2>2, <2>4, <3>1, <3>3, AuthenticatedInv
  <2>5. CASE stage[c] = "AWAITING_MPIN_PRIMARY" /\ tierRequired[c] # 1
    <3>1. DispatchOtp(c, cif[c], "AWAITING_OTP_SECOND_FACTOR")
      BY <1>5, <2>5 DEF SubmitMpin
    <3>2. "AWAITING_OTP_SECOND_FACTOR" \in OtpStages /\ vouched'[c]["cli"] = cif[c]
      BY <1>2, <2>2, <2>5 DEF OtpStages, Factors
    <3> QED BY <1>1, <1>2, <2>2, <2>5, <3>1, <3>2, DispatchInv
  <2> QED BY <1>1, <2>3, <2>4, <2>5 DEF MpinStages
<1>6. CASE MpinAnswer(cif[c], right) = "INCORRECT"
  <2>1. UNCHANGED vouched
    BY <1>6 DEF SubmitMpin
  <2>2. Settled(c)'
    BY <1>1, <1>2, <2>1 DEF Settled
  <2>3. \/ Ask(c, stage[c], "NEEDS_MPIN") /\ UNCHANGED gatewayVars
        \/ /\ stage[c] = "AWAITING_MPIN_PRIMARY" /\ tierRequired[c] = 1
           /\ DispatchOtp(c, cif[c], "AWAITING_OTP_FALLBACK")
        \/ Escalate(c, "MPIN_FAILED")
    BY <1>6 DEF SubmitMpin
  <2>4. CASE Ask(c, stage[c], "NEEDS_MPIN") /\ UNCHANGED gatewayVars
    <3>1. stage'[c] = stage[c] /\ tier'[c] = tier[c]
      BY <1>1, <2>4, ReturnValues DEF Ask
    <3>2. PathInvariant(c)'
      BY <1>1, <2>1, <2>4, <3>1 DEF CallInv, PathInvariant, gatewayVars
    <3>3. stage[c] \in OpenStages /\ "NEEDS_MPIN" \in Asking
      BY <1>1 DEF OpenStages, Asking
    <3> QED BY <1>1, <2>4, <3>2, <3>3, AskInv
  <2>5. CASE /\ stage[c] = "AWAITING_MPIN_PRIMARY" /\ tierRequired[c] = 1
             /\ DispatchOtp(c, cif[c], "AWAITING_OTP_FALLBACK")
    <3>1. "AWAITING_OTP_FALLBACK" \in OtpStages
      BY DEF OtpStages
    <3> QED BY <1>1, <1>2, <2>1, <2>2, <2>5, <3>1, DispatchInv
  <2>6. CASE Escalate(c, "MPIN_FAILED")
    BY <1>1, <2>2, <2>6, EscalateInv DEF Reasons
  <2> QED BY <2>3, <2>4, <2>5, <2>6
<1> QED BY <1>3, <1>4, <1>5, <1>6

\* A right code leads to the MPIN for tier 2 after identification, and to the
\* required tier otherwise; a wrong one repeats or escalates.
LEMMA SubmitOtpInv ==
    ASSUME TypeOK, NEW c \in Calls, CallInv(c), NEW right \in BOOLEAN, SubmitOtp(c, right)
    PROVE  CallInv(c)'
<1>1. /\ AnswerTypeOK /\ UNCHANGED <<tierRequired, cif, otpTo>> /\ stage[c] \in OtpStages
  BY DEF TypeOK, SubmitOtp, ValidateOtp
<1>2. /\ cif[c] \in Customers \ Flagged /\ tier[c] = NoTier /\ tierRequired[c] \in {1, 2}
      /\ Settled(c) /\ otpTo[c] = MobileOf[cif[c]]
  BY <1>1 DEF CallInv, PathInvariant, Settled, OtpStages
<1>3. CASE OtpAnswer(c, right) = "CORRECT"
  <2>1. OnOtpCorrect(c)
    BY <1>3 DEF SubmitOtp
  <2>2. vouched'[c] = [vouched[c] EXCEPT !["otp"] = cif[c]]
    BY <1>2, <2>1 DEF OnOtpCorrect, Vouch, TypeOK
  <2>3. /\ Settled(c)' /\ vouched'[c]["otp"] = cif[c]
        /\ \A f \in Factors : vouched[c][f] = cif[c] => vouched'[c][f] = cif[c]
    BY <1>1, <1>2, <2>2 DEF Settled, TypeOK, Factors
  <2>4. CASE stage[c] = "AWAITING_OTP_FALLBACK"
    <3>1. Authenticated(c, 1) /\ tierRequired[c] = 1 /\ vouched[c]["cli"] = cif[c]
      BY <2>1, <2>4 DEF OnOtpCorrect, CallInv, PathInvariant
    <3>2. {"cli", "otp"} \subseteq Evidence(c, cif[c])'
      BY <1>1, <2>3, <3>1 DEF Evidence, Factors
    <3>3. Policy!Sufficient(1, Evidence(c, cif[c])')
      BY <3>2 DEF Policy!Sufficient
    <3> QED BY <1>1, <1>2, <2>3, <3>1, <3>3, AuthenticatedInv
  <2>5. CASE stage[c] = "AWAITING_OTP_SECOND_FACTOR"
    <3>1. /\ Authenticated(c, 2) /\ tierRequired[c] = 2
          /\ vouched[c]["cli"] = cif[c] /\ vouched[c]["mpin"] = cif[c]
      BY <2>1, <2>5 DEF OnOtpCorrect, CallInv, PathInvariant
    <3>2. {"cli", "mpin", "otp"} \subseteq Evidence(c, cif[c])'
      BY <1>1, <2>3, <3>1 DEF Evidence, Factors
    <3>3. Policy!Sufficient(2, Evidence(c, cif[c])')
      BY <3>2 DEF Policy!Sufficient
    <3> QED BY <1>1, <1>2, <2>3, <3>1, <3>3, AuthenticatedInv
  <2>6. CASE stage[c] = "AWAITING_OTP_STEPUP" /\ tierRequired[c] = 1
    <3>1. Authenticated(c, 1) /\ vouched[c]["identity"] = cif[c]
      BY <2>1, <2>6 DEF OnOtpCorrect, CallInv, PathInvariant
    <3>2. {"identity", "otp"} \subseteq Evidence(c, cif[c])'
      BY <1>1, <2>3, <3>1 DEF Evidence, Factors
    <3>3. Policy!Sufficient(1, Evidence(c, cif[c])')
      BY <3>2 DEF Policy!Sufficient
    <3> QED BY <1>1, <1>2, <2>3, <2>6, <3>1, <3>3, AuthenticatedInv
  <2>7. CASE stage[c] = "AWAITING_OTP_STEPUP" /\ tierRequired[c] # 1
    <3>1. Ask(c, "AWAITING_MPIN_AFTER_OTP", "NEEDS_MPIN") /\ vouched[c]["identity"] = cif[c]
      BY <2>1, <2>7 DEF OnOtpCorrect, CallInv, PathInvariant
    <3>2. stage'[c] = "AWAITING_MPIN_AFTER_OTP" /\ tier'[c] = tier[c]
      BY <1>1, <3>1, ReturnValues DEF Ask
    <3>3. tierRequired'[c] = 2 /\ cif'[c] \in Customers \ Flagged
      BY <1>1, <1>2, <2>7
    <3>4. vouched'[c]["identity"] = cif'[c] /\ vouched'[c]["otp"] = cif'[c] /\ tier'[c] = NoTier
      BY <1>1, <1>2, <2>3, <3>1, <3>2 DEF Factors
    <3>5. PathInvariant(c)'
      BY <2>3, <3>2, <3>3, <3>4 DEF PathInvariant, Settled, MpinStages, OtpStages
    <3> QED BY <1>1, <3>1, <3>5, AskInv DEF Asking, OpenStages, MpinStages
  <2> QED BY <1>1, <2>4, <2>5, <2>6, <2>7 DEF OtpStages
<1>4. CASE OtpAnswer(c, right) # "CORRECT"
  <2>1. /\ UNCHANGED vouched
        /\ Escalate(c, "OTP_FAILED") \/ Ask(c, stage[c], "NEEDS_OTP")
    BY <1>4 DEF SubmitOtp
  <2>2. Settled(c)'
    BY <1>1, <1>2, <2>1 DEF Settled
  <2>3. CASE Escalate(c, "OTP_FAILED")
    BY <1>1, <2>2, <2>3, EscalateInv DEF Reasons
  <2>4. CASE Ask(c, stage[c], "NEEDS_OTP")
    <3>1. stage'[c] = stage[c] /\ tier'[c] = tier[c]
      BY <1>1, <2>4, ReturnValues DEF Ask
    <3>2. PathInvariant(c)'
      BY <1>1, <2>1, <3>1 DEF CallInv, PathInvariant
    <3>3. stage[c] \in OpenStages /\ "NEEDS_OTP" \in Asking
      BY <1>1 DEF OpenStages, Asking
    <3> QED BY <1>1, <2>4, <3>2, <3>3, AskInv
  <2> QED BY <2>1, <2>3, <2>4
<1> QED BY <1>3, <1>4

\* A resend goes to the number of the customer the flow is about.
LEMMA RequestOtpResendInv ==
    ASSUME TypeOK, NEW c \in Calls, CallInv(c), RequestOtpResend(c)
    PROVE  CallInv(c)'
<1>1. /\ AnswerTypeOK /\ GatewayTypeOK(Numbers)
      /\ UNCHANGED <<tierRequired, cif, vouched>> /\ stage[c] \in OtpStages
  BY DEF TypeOK, RequestOtpResend, Numbers
<1>2. Settled(c)' /\ otpTo[c] = MobileOf[cif[c]]
  BY <1>1 DEF CallInv, PathInvariant, Settled
<1>3. CASE Escalate(c, "OTP_FAILED")
  BY <1>1, <1>2, <1>3, EscalateInv DEF Reasons
<1>4. CASE SendOtp(c, MobileOf[cif[c]]) /\ Ask(c, stage[c], "NEEDS_OTP")
  <2>1. stage'[c] = stage[c] /\ tier'[c] = tier[c]
    BY <1>1, <1>4, ReturnValues DEF Ask
  <2>2. otpTo'[c] = otpTo[c]
    BY <1>1, <1>2, <1>4 DEF SendOtp, GatewayTypeOK
  <2>3. PathInvariant(c)'
    BY <1>1, <2>1, <2>2 DEF CallInv, PathInvariant
  <2>4. stage[c] \in OpenStages /\ "NEEDS_OTP" \in Asking
    BY <1>1 DEF OpenStages, Asking
  <2> QED BY <1>1, <1>4, <2>3, <2>4, AskInv
<1> QED BY <1>3, <1>4 DEF RequestOtpResend

\* A code that expires changes nothing the invariant speaks of.
LEMMA ExpireInv ==
    ASSUME TypeOK, NEW c \in Calls, CallInv(c), Expire(c), UNCHANGED <<bankVars, flowVars>>
    PROVE  TypeOK' /\ CallInv(c)'
<1>1. TypeOK'
  <2>1. GatewayTypeOK(Numbers)'
    BY DEF Expire, TypeOK, GatewayTypeOK, OtpStates, Numbers
  <2> QED
    BY <2>1 DEF TypeOK, AnswerTypeOK, RetriesTypeOK, BankTypeOK, bankVars, flowVars, answer, retries,
                Numbers
<1>2. Untouched(c)
  BY DEF Expire, Untouched, flowVars, answer
<1> QED BY <1>1, <1>2, UntouchedInv

-----------------------------------------------------------------------------
(***************************************************************************)
(* What the owner of a flow learns from its answer.                        *)
(***************************************************************************)
\* A flow that lets the caller through at once was asked for tier 0.
LEMMA StartAnswer ==
    ASSUME TypeOK, NEW c \in Calls, NEW a, NEW t \in Tiers, Start(c, a, t)
    PROVE  /\ tierRequired'[c] = t
           /\ status'[c] = "NO_AUTH_REQUIRED" => tier'[c] = t
<1>1. AnswerTypeOK
  BY DEF TypeOK
<1>2. tierRequired'[c] = t
  BY DEF Start, TypeOK
<1>3. \/ t = 0 /\ Return(c, "DONE", "NO_AUTH_REQUIRED", 0, NoReason)
      \/ Return(c, "AWAITING_IDENTIFICATION", "NEEDS_IDENTIFICATION", NoTier, NoReason)
      \/ Return(c, "DONE", "ESCALATED", NoTier, "ACCOUNT_FLAGGED")
      \/ Return(c, "AWAITING_MPIN_PRIMARY", "NEEDS_MPIN", NoTier, NoReason)
  BY DEF Start
<1>4. status'[c] = "NO_AUTH_REQUIRED" => tier'[c] = t
  BY <1>1, <1>3, ReturnValues
<1> QED BY <1>2, <1>4

\* A turn asks, grants or refuses, and never changes what is required.
LEMMA TurnAnswer ==
    ASSUME TypeOK, NEW c \in Calls, Turn(c)
    PROVE  /\ tierRequired'[c] = tierRequired[c]
           /\ status'[c] \in Asking \cup {"AUTHENTICATED", "ESCALATED"}
<1> DEFINE Said == status'[c] \in Asking \cup {"AUTHENTICATED", "ESCALATED"}
<1>1. AnswerTypeOK
  BY DEF TypeOK
<1>2. ASSUME NEW s, NEW st, NEW t, NEW r, Return(c, s, st, t, r)
      PROVE  status'[c] = st
  BY <1>1, <1>2, ReturnValues
<1>3. ASSUME NEW r, Escalate(c, r) PROVE Said
  BY <1>2, <1>3 DEF Escalate
<1>4. ASSUME NEW t, Authenticated(c, t) PROVE Said
  BY <1>2, <1>4 DEF Authenticated
<1>5. ASSUME NEW s, NEW st \in Asking, Ask(c, s, st) PROVE Said
  BY <1>2, <1>5 DEF Ask, Asking
<1>6. ASSUME NEW k, NEW s, DispatchOtp(c, k, s) PROVE Said
  BY <1>3, <1>5, <1>6 DEF DispatchOtp, Asking
<1>7. {"NEEDS_IDENTIFICATION", "NEEDS_MPIN", "NEEDS_OTP", "NEEDS_REPEAT"} \subseteq Asking
  BY DEF Asking
<1>8. CASE NotHeard(c)
  BY <1>3, <1>5, <1>7, <1>8 DEF NotHeard
<1>9. CASE \E k \in Customers \cup {NoCif} : SubmitIdentification(c, k)
  BY <1>3, <1>5, <1>6, <1>7, <1>9 DEF SubmitIdentification
<1>10. CASE \E right \in BOOLEAN : SubmitMpin(c, right)
  BY <1>3, <1>4, <1>5, <1>6, <1>7, <1>10 DEF SubmitMpin
<1>11. CASE \E right \in BOOLEAN : SubmitOtp(c, right)
  BY <1>3, <1>4, <1>5, <1>7, <1>11 DEF SubmitOtp, OnOtpCorrect
<1>12. CASE RequestOtpResend(c)
  BY <1>3, <1>5, <1>7, <1>12 DEF RequestOtpResend
<1> QED BY <1>8, <1>9, <1>10, <1>11, <1>12 DEF Turn

-----------------------------------------------------------------------------
(***************************************************************************)
(* The theorems.                                                           *)
(***************************************************************************)
\* Initially every flow is over, with nothing confirmed and nothing granted.
LEMMA InitInv == Init => IInv
<1> SUFFICES ASSUME Init PROVE IInv
  OBVIOUS
<1>1. BankTypeOK
  <2>1. mpinLocked \in [Customers -> BOOLEAN]
    <3>1. mpinLocked = [k \in Customers |-> k \in LockedAtStart]
      BY DEF Init, BankInit
    <3>2. ASSUME NEW k \in Customers PROVE (k \in LockedAtStart) \in BOOLEAN
      OBVIOUS
    <3> QED BY <3>1, <3>2, SMT
  <2>2. mpinFails \in [Customers -> Nat]
    <3>1. BankInit /\ MPIN_LOCK_THRESHOLD \in Nat /\ 0 \in Nat
      BY DEF Init
    <3>2. \A k \in Customers : (IF k \in LockedAtStart THEN MPIN_LOCK_THRESHOLD ELSE 0) \in Nat
      BY <3>1
    <3> QED BY <3>1, <3>2, Zenon DEF BankInit
  <2> QED BY <2>1, <2>2 DEF BankTypeOK
<1>2. AnswerTypeOK /\ RetriesTypeOK /\ GatewayTypeOK(Numbers)
  BY DEF Init, AnswerTypeOK, RetriesTypeOK, GatewayTypeOK, Numbers, OtpStates, Stages, Statuses
<1>3. TypeOK
  BY <1>1, <1>2 DEF Init, TypeOK, Tiers, Numbers
<1>4. ASSUME NEW c \in Calls PROVE CallInv(c)
  BY DEF Init, CallInv, PathInvariant, Earned, PromptMatches, MpinStages, OtpStages, Asking, NoReason
<1> QED BY <1>3, <1>4 DEF IInv

\* What Next allows is one call's move.
LEMMA NextMoves == Next => \E c \in Calls : Move(c)
BY DEF Next, Begin, Move

\* One call's move keeps the invariant of all calls.
LEMMA MoveInv ==
    ASSUME IInv, NEW c \in Calls,
           Move(c)
    PROVE  IInv'
<1>1. TypeOK /\ \A d \in Calls : CallInv(d)
  BY DEF IInv
<1>2. stage[c] \in MpinStages \cup OtpStages => cif[c] \in Customers
  BY <1>1 DEF CallInv, PathInvariant
<1>3. TypeOK' /\ CallInv(c)'
  <2>1. CASE \E a \in Reachable \cup {NoCif}, t \in Tiers : Start(c, a, t)
    BY <1>1, <2>1, StartType, StartInv
  <2>2. CASE NotHeard(c)
    BY <1>1, <2>2, NotHeardType, NotHeardInv
  <2>3. CASE \E k \in Customers \cup {NoCif} : SubmitIdentification(c, k)
    BY <1>1, <2>3, SubmitIdentificationType, SubmitIdentificationInv
  <2>4. CASE \E right \in BOOLEAN : SubmitMpin(c, right)
    <3>1. cif[c] \in Customers
      BY <1>2, <2>4 DEF SubmitMpin
    <3> QED BY <1>1, <2>4, <3>1, SubmitMpinType, SubmitMpinInv
  <2>5. CASE \E right \in BOOLEAN : SubmitOtp(c, right)
    BY <1>1, <2>5, SubmitOtpType, SubmitOtpInv
  <2>6. CASE RequestOtpResend(c)
    <3>1. cif[c] \in Customers
      BY <1>2, <2>6 DEF RequestOtpResend
    <3> QED BY <1>1, <2>6, <3>1, RequestOtpResendType, RequestOtpResendInv
  <2>7. CASE Expire(c) /\ UNCHANGED <<bankVars, flowVars>>
    BY <1>1, <2>7, ExpireInv
  <2> QED BY <2>1, <2>2, <2>3, <2>4, <2>5, <2>6, <2>7 DEF Move, Turn
<1>4. ASSUME NEW d \in Calls, d # c PROVE CallInv(d)'
  BY <1>1, <1>4, Frame, UntouchedInv
<1> QED BY <1>3, <1>4 DEF IInv

\* A step of something else, that leaves bank, gateway and flows alone.
LEMMA StutterInv ==
    ASSUME IInv, UNCHANGED vars
    PROVE  IInv'
<1>1. TypeOK /\ \A c \in Calls : CallInv(c)
  BY DEF IInv
<1>2. TypeOK'
  <2>1. /\ UNCHANGED <<mpinFails, mpinLocked, otpTo, otpState, stage, status, tier, reason>>
        /\ UNCHANGED <<tierRequired, cif, idAttempts, mpinAttempts, otpAttempts, resends, soft>>
        /\ UNCHANGED <<vouched, otpMisses>>
    BY DEF vars, bankVars, gatewayVars, flowVars, answer, retries
  <2>2. BankTypeOK' /\ GatewayTypeOK(Numbers)' /\ AnswerTypeOK' /\ RetriesTypeOK'
    BY <1>1, <2>1 DEF TypeOK, BankTypeOK, GatewayTypeOK, AnswerTypeOK, RetriesTypeOK, Numbers
  <2> QED BY <1>1, <2>1, <2>2 DEF TypeOK, Numbers
<1>3. ASSUME NEW d \in Calls PROVE CallInv(d)'
  <2>1. Untouched(d)
    BY DEF vars, gatewayVars, flowVars, answer, Untouched
  <2> QED BY <1>1, <2>1, UntouchedInv
<1> QED BY <1>2, <1>3 DEF IInv

\* Every step, of whichever call, keeps the inductive invariant.
LEMMA StepInv == IInv /\ [Next]_vars => IInv'
<1> SUFFICES ASSUME IInv, [Next]_vars PROVE IInv'
  OBVIOUS
<1>1. CASE \E c \in Calls : Move(c)
  BY <1>1, MoveInv
<1>2. CASE UNCHANGED vars
  BY <1>2, StutterInv
<1> QED BY <1>1, <1>2, NextMoves

\* The inductive invariant holds throughout.
THEOREM Invariance == Spec => []IInv
BY InitInv, StepInv, PTL DEF Spec

\* Every variable of the flow, the bank and the gateway keeps its type.
THEOREM TypeCorrect == Spec => []TypeOK
<1>1. IInv => TypeOK
  BY DEF IInv
<1> QED BY <1>1, Invariance, PTL

\* No flow reports a tier its caller has not earned for an unflagged customer,
\* however many calls share the bank and whatever the ceilings are.
THEOREM TierIsEarned == Spec => []EarnedTier
<1>1. IInv => EarnedTier
  BY DEF IInv, CallInv, EarnedTier
<1> QED BY <1>1, Invariance, PTL

\* A secret is asked for only of an unflagged customer, and a code only goes
\* to the number on file for the customer the flow is about.
THEOREM ChallengeIsFitting == Spec => []ChallengeFitsCustomer
<1>1. IInv => ChallengeFitsCustomer
  BY DEF IInv, CallInv, PathInvariant, ChallengeFitsCustomer
<1> QED BY <1>1, Invariance, PTL

\* The status a flow returns always says what it will accept next.
THEOREM PromptIsMatched == Spec => []PromptMatchesStage
<1>1. IInv => PromptMatchesStage
  BY DEF IInv, CallInv, PromptMatchesStage
<1> QED BY <1>1, Invariance, PTL

-----------------------------------------------------------------------------
(***************************************************************************)
(* The lockout of the bank, whatever calls share it.                       *)
(***************************************************************************)
\* A step either leaves the bank alone or is the judging of one MPIN of a
\* customer; and only that, with a right MPIN, confirms the factor.
BankStepped ==
    \/ /\ UNCHANGED bankVars
       /\ \A d \in Calls, k \in Customers : vouched'[d]["mpin"] = k => vouched[d]["mpin"] = k
    \/ \E c \in Calls, right \in BOOLEAN :
          /\ cif[c] \in Customers
          /\ ValidateMpin(cif[c], right)
          /\ \/ UNCHANGED vouched
             \/ MpinAnswer(cif[c], right) = "CORRECT" /\ Vouch(c, "mpin", cif[c])

\* Every move of every call is such a step.
LEMMA BankStep ==
    ASSUME IInv, (\E c \in Calls : Move(c)) \/ UNCHANGED vars
    PROVE  BankStepped
<1>1. TypeOK /\ \A c \in Calls : CallInv(c)
  BY DEF IInv
<1>2. vouched \in [Calls -> [Factors -> Customers \cup {NoCif}]] /\ "mpin" \in Factors
  BY <1>1 DEF TypeOK, Factors
<1>3. CASE UNCHANGED vars
  BY <1>3 DEF vars, flowVars, BankStepped
<1>4. ASSUME NEW c \in Calls, Expire(c), UNCHANGED <<bankVars, flowVars>>
      PROVE  UNCHANGED <<bankVars, vouched>>
  BY <1>4 DEF flowVars
<1>5. ASSUME NEW c \in Calls, NEW a \in Reachable \cup {NoCif}, NEW t \in Tiers, Start(c, a, t)
      PROVE  /\ UNCHANGED bankVars
             /\ \A d \in Calls, k \in Customers :
                   vouched'[d]["mpin"] = k => vouched[d]["mpin"] = k
  <2>1. UNCHANGED bankVars
    BY <1>5 DEF Start
  <2>2. \E m : vouched' = [vouched EXCEPT ![c] =
                              [f \in Factors |-> IF f = "cli" THEN m ELSE NoCif]]
    BY <1>5 DEF Start
  <2>3. vouched'[c]["mpin"] = NoCif
    BY <1>2, <2>2
  <2>4. \A d \in Calls : d # c => vouched'[d] = vouched[d]
    BY <1>2, <2>2
  <2> QED BY <2>1, <2>3, <2>4
<1>6. ASSUME NEW c \in Calls, NotHeard(c) \/ RequestOtpResend(c)
      PROVE  UNCHANGED <<bankVars, vouched>>
  BY <1>6 DEF NotHeard, RequestOtpResend
<1>7. ASSUME NEW c \in Calls, NEW f \in Factors \ {"mpin"}, NEW x, Vouch(c, f, x)
      PROVE  \A d \in Calls : vouched'[d]["mpin"] = vouched[d]["mpin"]
  BY <1>2, <1>7 DEF Vouch
<1>8. ASSUME NEW c \in Calls, NEW k \in Customers \cup {NoCif}, SubmitIdentification(c, k)
      PROVE  /\ UNCHANGED bankVars
             /\ \A d \in Calls : vouched'[d]["mpin"] = vouched[d]["mpin"]
  <2>1. /\ UNCHANGED bankVars
        /\ UNCHANGED vouched \/ Vouch(c, "identity", k)
    BY <1>8 DEF SubmitIdentification
  <2> QED BY <1>7, <2>1 DEF Factors
<1>9. ASSUME NEW c \in Calls, NEW right \in BOOLEAN, SubmitOtp(c, right)
      PROVE  /\ UNCHANGED bankVars
             /\ \A d \in Calls : vouched'[d]["mpin"] = vouched[d]["mpin"]
  <2>1. /\ UNCHANGED bankVars
        /\ UNCHANGED vouched \/ \E x : Vouch(c, "otp", x)
    BY <1>9 DEF SubmitOtp, OnOtpCorrect
  <2> QED BY <1>7, <2>1 DEF Factors
<1>10. ASSUME NEW c \in Calls, NEW right \in BOOLEAN, SubmitMpin(c, right)
       PROVE  /\ cif[c] \in Customers
              /\ ValidateMpin(cif[c], right)
              /\ \/ UNCHANGED vouched
                 \/ MpinAnswer(cif[c], right) = "CORRECT" /\ Vouch(c, "mpin", cif[c])
  <2>1. stage[c] \in MpinStages /\ ValidateMpin(cif[c], right)
    BY <1>10 DEF SubmitMpin
  <2>2. cif[c] \in Customers
    BY <1>1, <2>1 DEF CallInv, PathInvariant
  <2>3. \/ UNCHANGED vouched
        \/ MpinAnswer(cif[c], right) = "CORRECT" /\ Vouch(c, "mpin", cif[c])
    BY <1>10 DEF SubmitMpin
  <2> QED BY <2>1, <2>2, <2>3
<1> QED
  BY <1>3, <1>4, <1>5, <1>6, <1>8, <1>9, <1>10 DEF Move, Turn, BankStepped

\* At the start, the locked records are the ones with a full count.
LEMMA LockInit == Init => LockAtThreshold
<1> SUFFICES ASSUME BankInit, NEW k \in Customers
             PROVE  /\ mpinFails[k] <= MPIN_LOCK_THRESHOLD
                    /\ mpinLocked[k] <=> mpinFails[k] = MPIN_LOCK_THRESHOLD
  BY DEF Init, LockAtThreshold
<1>1. mpinLocked[k] <=> k \in LockedAtStart
  BY Zenon DEF BankInit
<1>2. mpinFails[k] = IF k \in LockedAtStart THEN MPIN_LOCK_THRESHOLD ELSE 0
  BY DEF BankInit
<1> QED BY <1>1, <1>2

\* One step of the bank, whoever caused it.
LEMMA LockStep ==
    ASSUME TypeOK, LockAtThreshold, BankStepped
    PROVE  LockAtThreshold'
<1>1. CASE UNCHANGED bankVars
  BY <1>1 DEF bankVars, LockAtThreshold
<1>2. ASSUME NEW k \in Customers, NEW right \in BOOLEAN, ValidateMpin(k, right)
      PROVE  LockAtThreshold'
  <2>1. BankTypeOK
    BY DEF TypeOK
  <2>2. CASE mpinLocked[k]
    BY <1>2, <2>2 DEF ValidateMpin, bankVars, LockAtThreshold
  <2>3. CASE ~mpinLocked[k]
    <3>1. /\ mpinFails' = [mpinFails EXCEPT ![k] = IF right THEN 0 ELSE @ + 1]
          /\ mpinLocked' = [mpinLocked EXCEPT ![k] = MpinAnswer(k, right) = "LOCKED"]
      BY <1>2, <2>3 DEF ValidateMpin
    <3>2. /\ mpinFails[k] \in Nat /\ mpinFails[k] < MPIN_LOCK_THRESHOLD
          /\ MPIN_LOCK_THRESHOLD \in Nat \ {0}
      BY <2>1, <2>3 DEF BankTypeOK, LockAtThreshold
    <3>3. /\ mpinFails'[k] = IF right THEN 0 ELSE mpinFails[k] + 1
          /\ mpinLocked'[k] <=> MpinAnswer(k, right) = "LOCKED"
      BY <2>1, <3>1 DEF BankTypeOK
    <3>4. mpinLocked'[k] <=> ~right /\ mpinFails[k] + 1 >= MPIN_LOCK_THRESHOLD
      BY <2>3, <3>3 DEF MpinAnswer
    <3>5. /\ mpinFails'[k] <= MPIN_LOCK_THRESHOLD
          /\ mpinLocked'[k] <=> mpinFails'[k] = MPIN_LOCK_THRESHOLD
      BY <3>2, <3>3, <3>4
    <3>6. \A j \in Customers : j # k =>
             mpinFails'[j] = mpinFails[j] /\ (mpinLocked'[j] <=> mpinLocked[j])
      BY <2>1, <3>1 DEF BankTypeOK
    <3> QED BY <3>5, <3>6 DEF LockAtThreshold
  <2> QED BY <2>2, <2>3
<1> QED BY <1>1, <1>2 DEF BankStepped

\* One step of the bank does not undo a lock or confirm a locked MPIN.
LEMMA LockFinal ==
    ASSUME TypeOK, BankStepped, NEW k \in Customers, mpinLocked[k]
    PROVE  /\ mpinLocked'[k]
           /\ \A c \in Calls : vouched'[c]["mpin"] = k => vouched[c]["mpin"] = k
<1>1. CASE /\ UNCHANGED bankVars
           /\ \A d \in Calls, j \in Customers :
                 vouched'[d]["mpin"] = j => vouched[d]["mpin"] = j
  BY <1>1 DEF bankVars
<1>2. ASSUME NEW c \in Calls, NEW right \in BOOLEAN, cif[c] \in Customers,
             ValidateMpin(cif[c], right),
             \/ UNCHANGED vouched
             \/ MpinAnswer(cif[c], right) = "CORRECT" /\ Vouch(c, "mpin", cif[c])
      PROVE  /\ mpinLocked'[k]
             /\ \A d \in Calls : vouched'[d]["mpin"] = k => vouched[d]["mpin"] = k
  <2>1. BankTypeOK /\ vouched \in [Calls -> [Factors -> Customers \cup {NoCif}]]
    BY DEF TypeOK
  <2>2. mpinLocked'[k]
    BY <1>2, <2>1 DEF ValidateMpin, bankVars, BankTypeOK
  <2>3. CASE UNCHANGED vouched
    BY <2>2, <2>3
  <2>4. CASE MpinAnswer(cif[c], right) = "CORRECT" /\ Vouch(c, "mpin", cif[c])
    <3>1. cif[c] # k
      BY <2>4 DEF MpinAnswer
    <3>2. \A d \in Calls : vouched'[d]["mpin"] = k => vouched[d]["mpin"] = k
      BY <2>1, <2>4, <3>1 DEF Vouch, Factors
    <3> QED BY <2>2, <3>2
  <2> QED BY <1>2, <2>3, <2>4
<1> QED BY <1>1, <1>2 DEF BankStepped

\* A record is locked exactly when its count of consecutive wrong guesses has
\* reached the threshold, for any number of calls guessing at once.
THEOREM LockIsAtThreshold == Spec => []LockAtThreshold
<1>1. IInv /\ LockAtThreshold /\ [Next]_vars => LockAtThreshold'
  BY NextMoves, BankStep, LockStep DEF IInv
<1> QED BY <1>1, LockInit, Invariance, PTL DEF Spec

\* No call can have an MPIN confirmed once any call has locked it, and nothing
\* unlocks it.
THEOREM LockStays == Spec => LockIsFinal
<1>1. IInv /\ [Next]_vars =>
         [\A k \in Customers : mpinLocked[k] =>
             /\ mpinLocked'[k]
             /\ \A c \in Calls : vouched'[c]["mpin"] = k => vouched[c]["mpin"] = k]_vars
  BY NextMoves, BankStep, LockFinal DEF IInv
<1> QED BY <1>1, Invariance, PTL DEF Spec, LockIsFinal

-----------------------------------------------------------------------------
(***************************************************************************)
(* The number of wrong codes judged in one flow.                           *)
(***************************************************************************)
\* The wrong codes that n resends can buy, besides the last allowance.
Bought(n) == n * (OTP_MAX_VERIFY_ATTEMPTS - 1)

\* Before a resend at most OTP_MAX_VERIFY_ATTEMPTS - 1 codes were wrong, or the
\* flow would be over: so much each resend has added to the attempts now counted.
BudgetInv(c) ==
    /\ resends[c] <= OTP_MAX_RESENDS
    /\ otpMisses[c] <= OTP_MAX_VERIFY_ATTEMPTS + Bought(OTP_MAX_RESENDS)
    /\ stage[c] # "DONE" =>
          /\ otpAttempts[c] < OTP_MAX_VERIFY_ATTEMPTS
          /\ otpMisses[c] <= Bought(resends[c]) + otpAttempts[c]

\* One more resend buys one more allowance but one; more resends buy no less.
LEMMA BoughtGrows ==
    /\ Bought(0) = 0
    /\ \A n \in Nat : Bought(n) \in Nat
    /\ \A n \in Nat : Bought(n + 1) = Bought(n) + OTP_MAX_VERIFY_ATTEMPTS - 1
    /\ \A n \in Nat : n <= OTP_MAX_RESENDS => Bought(n) <= Bought(OTP_MAX_RESENDS)
<1> DEFINE w == OTP_MAX_VERIFY_ATTEMPTS - 1
<1>1. w \in Nat /\ OTP_MAX_VERIFY_ATTEMPTS \in Nat
  BY CeilingAssumption
<1>2. \A n \in Nat : Bought(n) = n * w
  BY DEF Bought
<1> HIDE DEF w
<1>3. \A n \in Nat : n * w \in Nat /\ (n + 1) * w = n * w + w
  BY <1>1
<1>4. \A n, m \in Nat : n <= m => n * w <= m * w
  BY <1>1
<1>5. OTP_MAX_RESENDS \in Nat /\ 0 * w = 0
  BY <1>1, CeilingAssumption
<1>6. \A n \in Nat : Bought(n + 1) = Bought(n) + w
  BY <1>2, <1>3
<1>7. Bought(0) = 0 /\ \A n \in Nat : Bought(n) \in Nat
  BY <1>2, <1>3, <1>5
<1>8. \A n \in Nat : n <= OTP_MAX_RESENDS => Bought(n) <= Bought(OTP_MAX_RESENDS)
  BY <1>2, <1>4, <1>5
<1>9. \A n \in Nat : Bought(n + 1) = Bought(n) + OTP_MAX_VERIFY_ATTEMPTS - 1
  <2>1. \A n \in Nat : Bought(n) + w = Bought(n) + OTP_MAX_VERIFY_ATTEMPTS - 1
    BY <1>1, <1>7 DEF w
  <2> QED BY <1>6, <2>1
<1> QED BY <1>7, <1>8, <1>9

\* The counters of call d are left as they are.
SameBudget(d) ==
    /\ otpAttempts'[d] = otpAttempts[d] /\ resends'[d] = resends[d] /\ otpMisses'[d] = otpMisses[d]

\* A step that leaves the counters alone keeps the budget, whether the flow stays
\* open or ends.
LEMMA SameBudgetInv ==
    ASSUME NEW c \in Calls, BudgetInv(c), SameBudget(c), stage'[c] = "DONE" \/ stage[c] # "DONE"
    PROVE  BudgetInv(c)'
BY DEF BudgetInv, SameBudget, Bought

\* A move of one call leaves the counters of the others alone.
LEMMA BudgetFrame ==
    ASSUME TypeOK, NEW c \in Calls, NEW d \in Calls, d # c, Move(c)
    PROVE  SameBudget(d)
<1>1. /\ otpAttempts \in [Calls -> Nat] /\ resends \in [Calls -> Nat]
      /\ otpMisses \in [Calls -> Nat]
  BY DEF TypeOK, RetriesTypeOK
<1>2. CASE \E a \in Reachable \cup {NoCif}, t \in Tiers : Start(c, a, t)
  BY <1>1, <1>2 DEF Start, SameBudget
<1>3. CASE Expire(c) /\ UNCHANGED <<bankVars, flowVars>>
  BY <1>3 DEF flowVars, retries, SameBudget
<1>4. CASE NotHeard(c)
  BY <1>4 DEF NotHeard, SameBudget
<1>5. CASE \E k \in Customers \cup {NoCif} : SubmitIdentification(c, k)
  BY <1>5 DEF SubmitIdentification, SameBudget
<1>6. CASE \E right \in BOOLEAN : SubmitMpin(c, right)
  BY <1>6 DEF SubmitMpin, SameBudget
<1>7. CASE \E right \in BOOLEAN : SubmitOtp(c, right)
  <2>1. UNCHANGED resends
    BY <1>7 DEF SubmitOtp
  <2>2. \/ UNCHANGED <<otpAttempts, otpMisses>>
        \/ /\ otpAttempts' = [otpAttempts EXCEPT ![c] = otpAttempts[c] + 1]
           /\ otpMisses' = [otpMisses EXCEPT ![c] = otpMisses[c] + 1]
    BY <1>7 DEF SubmitOtp
  <2> QED BY <1>1, <2>1, <2>2 DEF SameBudget
<1>8. CASE RequestOtpResend(c)
  <2>1. UNCHANGED otpMisses
    BY <1>8 DEF RequestOtpResend
  <2>2. \/ UNCHANGED <<otpAttempts, resends>>
        \/ /\ otpAttempts' = [otpAttempts EXCEPT ![c] = 0]
           /\ resends' = [resends EXCEPT ![c] = resends[c] + 1]
    BY <1>8 DEF RequestOtpResend
  <2> QED BY <1>1, <2>1, <2>2 DEF SameBudget
<1> QED BY <1>2, <1>3, <1>4, <1>5, <1>6, <1>7, <1>8 DEF Move, Turn

\* The move itself: only a wrong code and a resend change what is counted.
LEMMA BudgetStep ==
    ASSUME TypeOK, NEW c \in Calls, BudgetInv(c), Move(c)
    PROVE  BudgetInv(c)'
<1>1. /\ otpAttempts \in [Calls -> Nat] /\ resends \in [Calls -> Nat]
      /\ otpMisses \in [Calls -> Nat] /\ stage \in [Calls -> Stages] /\ AnswerTypeOK
  BY DEF TypeOK, RetriesTypeOK, AnswerTypeOK
<1>2. /\ otpAttempts[c] \in Nat /\ resends[c] \in Nat /\ otpMisses[c] \in Nat
      /\ OTP_MAX_VERIFY_ATTEMPTS \in Nat \ {0} /\ OTP_MAX_RESENDS \in Nat
  BY <1>1, CeilingAssumption
<1>3. CASE \E a \in Reachable \cup {NoCif}, t \in Tiers : Start(c, a, t)
  <2>1. otpAttempts'[c] = 0 /\ resends'[c] = 0 /\ otpMisses'[c] = 0
    BY <1>1, <1>3 DEF Start
  <2>2. Bought(0) = 0 /\ Bought(OTP_MAX_RESENDS) \in Nat
    BY <1>2, BoughtGrows
  <2> QED BY <1>2, <2>1, <2>2 DEF BudgetInv, Bought
<1>4. CASE Expire(c) /\ UNCHANGED <<bankVars, flowVars>>
  <2>1. SameBudget(c) /\ stage' = stage
    BY <1>4 DEF flowVars, retries, answer, SameBudget
  <2> QED BY <2>1, SameBudgetInv
<1>5. CASE NotHeard(c) \/ (\E k \in Customers \cup {NoCif} : SubmitIdentification(c, k))
           \/ (\E right \in BOOLEAN : SubmitMpin(c, right))
  <2>1. SameBudget(c) /\ stage[c] # "DONE"
    BY <1>5 DEF NotHeard, SubmitIdentification, SubmitMpin, SameBudget, OpenStages, MpinStages, OtpStages
  <2> QED BY <2>1, SameBudgetInv
<1>6. CASE \E right \in BOOLEAN : SubmitOtp(c, right)
  <2>1. stage[c] # "DONE" /\ UNCHANGED resends
    BY <1>6 DEF SubmitOtp, OtpStages
  <2>2. \/ UNCHANGED <<otpAttempts, otpMisses>>
        \/ /\ otpAttempts' = [otpAttempts EXCEPT ![c] = otpAttempts[c] + 1]
           /\ otpMisses' = [otpMisses EXCEPT ![c] = otpMisses[c] + 1]
           /\ IF otpAttempts[c] + 1 >= OTP_MAX_VERIFY_ATTEMPTS
              THEN Escalate(c, "OTP_FAILED")
              ELSE Ask(c, stage[c], "NEEDS_OTP")
    BY <1>6 DEF SubmitOtp
  <2>3. CASE UNCHANGED <<otpAttempts, otpMisses>>
    BY <2>1, <2>3, SameBudgetInv DEF SameBudget
  <2>4. CASE /\ otpAttempts' = [otpAttempts EXCEPT ![c] = otpAttempts[c] + 1]
             /\ otpMisses' = [otpMisses EXCEPT ![c] = otpMisses[c] + 1]
             /\ IF otpAttempts[c] + 1 >= OTP_MAX_VERIFY_ATTEMPTS
                THEN Escalate(c, "OTP_FAILED")
                ELSE Ask(c, stage[c], "NEEDS_OTP")
    <3>1. otpAttempts'[c] = otpAttempts[c] + 1 /\ otpMisses'[c] = otpMisses[c] + 1
      BY <1>1, <2>4
    <3>2. otpAttempts[c] + 1 >= OTP_MAX_VERIFY_ATTEMPTS => stage'[c] = "DONE"
      BY <1>1, <2>4, ReturnValues DEF Escalate
    <3>3. /\ otpAttempts[c] < OTP_MAX_VERIFY_ATTEMPTS /\ resends[c] <= OTP_MAX_RESENDS
          /\ otpMisses[c] <= Bought(resends[c]) + otpAttempts[c]
      BY <2>1 DEF BudgetInv
    <3>4. /\ Bought(resends[c]) \in Nat /\ Bought(OTP_MAX_RESENDS) \in Nat
          /\ Bought(resends[c]) <= Bought(OTP_MAX_RESENDS)
      BY <1>2, <3>3, BoughtGrows
    <3>5. /\ otpMisses'[c] <= OTP_MAX_VERIFY_ATTEMPTS + Bought(OTP_MAX_RESENDS)
          /\ otpMisses'[c] <= Bought(resends[c]) + otpAttempts'[c]
          /\ stage'[c] # "DONE" => otpAttempts'[c] < OTP_MAX_VERIFY_ATTEMPTS
      BY <1>2, <3>1, <3>2, <3>3, <3>4
    <3> QED BY <2>1, <3>3, <3>5 DEF BudgetInv, Bought
  <2> QED BY <2>2, <2>3, <2>4
<1>7. CASE RequestOtpResend(c)
  <2>1. stage[c] # "DONE" /\ UNCHANGED otpMisses
    BY <1>7 DEF RequestOtpResend, OtpStages
  <2>2. \/ UNCHANGED <<otpAttempts, resends>>
        \/ /\ resends[c] < OTP_MAX_RESENDS
           /\ otpAttempts' = [otpAttempts EXCEPT ![c] = 0]
           /\ resends' = [resends EXCEPT ![c] = resends[c] + 1]
    BY <1>7 DEF RequestOtpResend
  <2>3. CASE UNCHANGED <<otpAttempts, resends>>
    BY <2>1, <2>3, SameBudgetInv DEF SameBudget
  <2>4. CASE /\ resends[c] < OTP_MAX_RESENDS
             /\ otpAttempts' = [otpAttempts EXCEPT ![c] = 0]
             /\ resends' = [resends EXCEPT ![c] = resends[c] + 1]
    <3>1. otpAttempts'[c] = 0 /\ resends'[c] = resends[c] + 1
      BY <1>1, <2>4
    <3>2. /\ otpAttempts[c] < OTP_MAX_VERIFY_ATTEMPTS
          /\ otpMisses[c] <= Bought(resends[c]) + otpAttempts[c]
          /\ otpMisses[c] <= OTP_MAX_VERIFY_ATTEMPTS + Bought(OTP_MAX_RESENDS)
      BY <2>1 DEF BudgetInv
    <3>3. /\ Bought(resends[c]) \in Nat
          /\ Bought(resends[c] + 1) = Bought(resends[c]) + OTP_MAX_VERIFY_ATTEMPTS - 1
      BY <1>2, BoughtGrows
    <3>4. otpMisses[c] <= Bought(resends[c] + 1)
      BY <1>2, <3>2, <3>3
    <3>5. resends'[c] <= OTP_MAX_RESENDS /\ otpAttempts'[c] < OTP_MAX_VERIFY_ATTEMPTS
      BY <1>2, <2>4, <3>1
    <3>6. otpMisses'[c] <= Bought(resends[c])' + otpAttempts'[c]
      <4>1. Bought(resends[c] + 1) \in Nat
        BY <1>2, BoughtGrows
      <4>2. Bought(resends[c])' = Bought(resends[c] + 1)
        BY <3>1 DEF Bought
      <4> QED BY <2>1, <3>1, <3>4, <4>1, <4>2
    <3> QED BY <2>1, <3>2, <3>5, <3>6 DEF BudgetInv, Bought
  <2> QED BY <2>2, <2>3, <2>4
<1> QED BY <1>3, <1>4, <1>5, <1>6, <1>7 DEF Move, Turn

Budgets == \A c \in Calls : BudgetInv(c)

\* A flow that has not begun has used nothing.
LEMMA BudgetInit == Init => Budgets
<1>1. Bought(0) = 0 /\ Bought(OTP_MAX_RESENDS) \in Nat
  BY CeilingAssumption, BoughtGrows
<1>2. ASSUME Init, NEW c \in Calls PROVE BudgetInv(c)
  <2>1. stage[c] = "DONE" /\ resends[c] = 0 /\ otpMisses[c] = 0
    BY <1>2 DEF Init
  <2> QED BY <1>1, <2>1, CeilingAssumption DEF BudgetInv
<1> QED BY <1>2 DEF Budgets

\* A move of any call keeps the budgets of all.
LEMMA BudgetMove ==
    ASSUME TypeOK, Budgets, (\E c \in Calls : Move(c)) \/ UNCHANGED vars
    PROVE  Budgets'
<1>1. CASE UNCHANGED vars
  <2>1. \A c \in Calls : SameBudget(c) /\ stage'[c] = stage[c]
    BY <1>1 DEF vars, flowVars, retries, answer, SameBudget
  <2> QED BY <2>1, SameBudgetInv DEF Budgets
<1>2. ASSUME NEW c \in Calls, Move(c) PROVE Budgets'
  <2>1. BudgetInv(c)'
    BY <1>2, BudgetStep DEF Budgets
  <2>2. ASSUME NEW d \in Calls, d # c PROVE BudgetInv(d)'
    <3>1. SameBudget(d)
      BY <1>2, <2>2, BudgetFrame
    <3>2. stage'[d] = stage[d]
      BY <1>2, <2>2, Frame DEF Untouched
    <3>3. BudgetInv(d)
      BY DEF Budgets
    <3> QED BY <3>1, <3>2, <3>3, SameBudgetInv
  <2> QED BY <2>1, <2>2 DEF Budgets
<1> QED BY <1>1, <1>2

\* However the caller mixes wrong codes, resends and everything else, the wrong
\* codes judged in one flow stay within the allowance and what resends can buy.
THEOREM OtpGuessesAreBounded == Spec => []OtpGuessBudget
<1>1. IInv /\ Budgets /\ [Next]_vars => Budgets'
  BY NextMoves, BudgetMove DEF IInv
<1>2. Budgets => OtpGuessBudget
  BY DEF Budgets, BudgetInv, Bought, OtpGuessBudget
<1> QED BY <1>1, <1>2, BudgetInit, Invariance, PTL DEF Spec

-----------------------------------------------------------------------------
(***************************************************************************)
(* The price of a turn.                                                    *)
(***************************************************************************)
\* An open flow is within every ceiling that the question it asks is under: a handler
\* that reaches one ends the flow or goes on to a question under another.
CeilingsInv(c) ==
    stage[c] # "DONE" =>
        /\ \A s \in OpenStages : soft[c][s] <= SOFT_REPROMPT_MAX
        /\ stage[c] = "AWAITING_IDENTIFICATION" => idAttempts[c] < IDENTIFICATION_MAX_ATTEMPTS
        /\ stage[c] \in MpinStages => mpinAttempts[c] < MPIN_MAX_ATTEMPTS
        /\ otpAttempts[c] < OTP_MAX_VERIFY_ATTEMPTS /\ resends[c] <= OTP_MAX_RESENDS

\* Turns taken in one stage, and what a stage can take at most.
LEMMA StageCosts ==
    ASSUME NEW h \in Nat, h <= SOFT_REPROMPT_MAX, NEW n \in Nat
    PROVE  /\ n < IDENTIFICATION_MAX_ATTEMPTS =>
                 /\ TurnsForId(h, n) \in Nat \ {0}
                 /\ TurnsForId(h + 1, n) = TurnsForId(h, n) - 1
                 /\ TurnsForId(h, n + 1) = TurnsForId(h, n) - 1
           /\ n < MPIN_MAX_ATTEMPTS =>
                 /\ TurnsForMpin(h, n) \in Nat \ {0} /\ TurnsForMpin(0, 0) \in Nat
                 /\ TurnsForMpin(h, n) <= TurnsForMpin(0, 0)
                 /\ TurnsForMpin(h + 1, n) = TurnsForMpin(h, n) - 1
                 /\ TurnsForMpin(h, n + 1) = TurnsForMpin(h, n) - 1
BY CeilingAssumption DEF TurnsForId, TurnsForMpin

\* The same for a stage that waits for a code, where a resend gives back what wrong codes
\* have cost and is itself the dearer: it costs a whole allowance.
LEMMA CodeCosts ==
    ASSUME NEW h \in Nat, h <= SOFT_REPROMPT_MAX, NEW n \in Nat, n < OTP_MAX_VERIFY_ATTEMPTS,
           NEW r \in Nat, r <= OTP_MAX_RESENDS
    PROVE  /\ TurnsForOtp(h, n, r) \in Nat \ {0} /\ TurnsForOtp(0, 0, 0) \in Nat
           /\ TurnsForOtp(h, n, r) <= TurnsForOtp(0, 0, 0)
           /\ TurnsForOtp(h + 1, n, r) = TurnsForOtp(h, n, r) - 1
           /\ TurnsForOtp(h, n + 1, r) = TurnsForOtp(h, n, r) - 1
           /\ r < OTP_MAX_RESENDS => TurnsForOtp(h, 0, r + 1) < TurnsForOtp(h, n, r)
<1> DEFINE v == OTP_MAX_VERIFY_ATTEMPTS
           q == OTP_MAX_RESENDS - r
<1>1. /\ v \in Nat \ {0} /\ OTP_MAX_RESENDS \in Nat /\ SOFT_REPROMPT_MAX \in Nat
      /\ q \in Nat /\ q <= OTP_MAX_RESENDS
  BY CeilingAssumption
<1>2. \A a, b \in Nat : a <= b => a * v \in Nat /\ b * v \in Nat /\ a * v <= b * v
  BY <1>1
<1>3. q * v \in Nat /\ OTP_MAX_RESENDS * v \in Nat /\ q * v <= OTP_MAX_RESENDS * v
  BY <1>1, <1>2
<1>4. r < OTP_MAX_RESENDS => (OTP_MAX_RESENDS - (r + 1)) * v = q * v - v
  <2>1. \A a \in Int : (a - 1) * v = a * v - v
    BY <1>1
  <2>2. OTP_MAX_RESENDS - (r + 1) = q - 1 /\ q \in Int
    BY <1>1
  <2> QED BY <2>1, <2>2
<1>5. (OTP_MAX_RESENDS - 0) * v = OTP_MAX_RESENDS * v
  BY <1>1
<1>6. /\ TurnsForOtp(h, n, r) = (SOFT_REPROMPT_MAX - h) + (v - n) + q * v
      /\ TurnsForOtp(h + 1, n, r) = (SOFT_REPROMPT_MAX - (h + 1)) + (v - n) + q * v
      /\ TurnsForOtp(h, n + 1, r) = (SOFT_REPROMPT_MAX - h) + (v - (n + 1)) + q * v
      /\ TurnsForOtp(0, 0, 0) = (SOFT_REPROMPT_MAX - 0) + (v - 0) + OTP_MAX_RESENDS * v
      /\ r < OTP_MAX_RESENDS =>
            TurnsForOtp(h, 0, r + 1) = (SOFT_REPROMPT_MAX - h) + (v - 0) + (q * v - v)
  BY <1>4, <1>5 DEF TurnsForOtp
<1>7. n < v
  OBVIOUS
<1> DEFINE p == q * v
           m == OTP_MAX_RESENDS * v
<1>8. p \in Nat /\ m \in Nat /\ p <= m
  BY <1>3
<1>9. /\ TurnsForOtp(h, n, r) = (SOFT_REPROMPT_MAX - h) + (v - n) + p
      /\ TurnsForOtp(h + 1, n, r) = (SOFT_REPROMPT_MAX - (h + 1)) + (v - n) + p
      /\ TurnsForOtp(h, n + 1, r) = (SOFT_REPROMPT_MAX - h) + (v - (n + 1)) + p
      /\ TurnsForOtp(0, 0, 0) = SOFT_REPROMPT_MAX + v + m
      /\ r < OTP_MAX_RESENDS => TurnsForOtp(h, 0, r + 1) = (SOFT_REPROMPT_MAX - h) + v + (p - v)
  BY <1>1, <1>6, <1>8
<1> HIDE DEF p, m, q, v
<1> QED BY <1>1, <1>7, <1>8, <1>9

\* The turns left, stage by stage.
StageTurns(c) ==
    LET heard == soft[c][stage[c]] IN
    /\ stage[c] = "AWAITING_IDENTIFICATION" => TurnsLeft(c) =
          TurnsForId(heard, idAttempts[c]) + TurnsForOtp(0, 0, 0) + TurnsForMpin(0, 0)
    /\ stage[c] = "AWAITING_MPIN_PRIMARY" => TurnsLeft(c) =
          TurnsForMpin(heard, mpinAttempts[c]) + TurnsForOtp(0, 0, 0)
    /\ stage[c] = "AWAITING_OTP_STEPUP" => TurnsLeft(c) =
          TurnsForOtp(heard, otpAttempts[c], resends[c]) + TurnsForMpin(0, 0)
    /\ stage[c] \in {"AWAITING_OTP_FALLBACK", "AWAITING_OTP_SECOND_FACTOR"} => TurnsLeft(c) =
          TurnsForOtp(heard, otpAttempts[c], resends[c])
    /\ stage[c] = "AWAITING_MPIN_AFTER_OTP" => TurnsLeft(c) = TurnsForMpin(heard, mpinAttempts[c])
    /\ stage[c] = "DONE" => TurnsLeft(c) = 0

\* What TurnsLeft comes to before a step and after it.
LEMMA TurnsByStage == \A c \in Calls : StageTurns(c) /\ StageTurns(c)'
<1>1. \A c \in Calls : StageTurns(c)
  BY DEF StageTurns, TurnsLeft
<1>2. \A c \in Calls : StageTurns(c)'
  BY DEF StageTurns, TurnsLeft
<1> QED BY <1>1, <1>2

\* The counters of an open flow, as numbers under their ceilings.
LEMMA OpenCounts ==
    ASSUME TypeOK, NEW c \in Calls, CeilingsInv(c), stage[c] \in OpenStages
    PROVE  /\ soft[c][stage[c]] \in Nat /\ soft[c][stage[c]] <= SOFT_REPROMPT_MAX
           /\ idAttempts[c] \in Nat /\ mpinAttempts[c] \in Nat
           /\ otpAttempts[c] \in Nat /\ otpAttempts[c] < OTP_MAX_VERIFY_ATTEMPTS
           /\ resends[c] \in Nat /\ resends[c] <= OTP_MAX_RESENDS
           /\ stage[c] = "AWAITING_IDENTIFICATION" => idAttempts[c] < IDENTIFICATION_MAX_ATTEMPTS
           /\ stage[c] \in MpinStages => mpinAttempts[c] < MPIN_MAX_ATTEMPTS
BY DEF TypeOK, RetriesTypeOK, CeilingsInv, OpenStages, MpinStages, OtpStages

\* The allowances of a whole stage are numbers.
LEMMA WholeStages == TurnsForOtp(0, 0, 0) \in Nat /\ TurnsForMpin(0, 0) \in Nat
<1>1. 0 <= SOFT_REPROMPT_MAX /\ 0 < OTP_MAX_VERIFY_ATTEMPTS /\ 0 <= OTP_MAX_RESENDS /\ 0 < MPIN_MAX_ATTEMPTS
  BY CeilingAssumption
<1> QED BY <1>1, StageCosts, CodeCosts

\* An open flow has a turn left.
LEMMA OpenHasTurns ==
    ASSUME TypeOK, NEW c \in Calls, CeilingsInv(c), stage[c] \in OpenStages
    PROVE  TurnsLeft(c) \in Nat \ {0}
<1> DEFINE heard == soft[c][stage[c]]
<1>1. CASE stage[c] = "AWAITING_IDENTIFICATION"
  <2>1. TurnsForId(heard, idAttempts[c]) \in Nat \ {0}
    BY <1>1, OpenCounts, StageCosts
  <2>2. TurnsLeft(c) = TurnsForId(heard, idAttempts[c]) + TurnsForOtp(0, 0, 0) + TurnsForMpin(0, 0)
    BY <1>1, TurnsByStage DEF StageTurns
  <2> QED BY <2>1, <2>2, WholeStages
<1>2. CASE stage[c] \in MpinStages
  <2>1. TurnsForMpin(heard, mpinAttempts[c]) \in Nat \ {0}
    BY <1>2, OpenCounts, StageCosts
  <2>2. \/ TurnsLeft(c) = TurnsForMpin(heard, mpinAttempts[c]) + TurnsForOtp(0, 0, 0)
        \/ TurnsLeft(c) = TurnsForMpin(heard, mpinAttempts[c])
    BY <1>2, TurnsByStage DEF StageTurns, MpinStages
  <2> QED BY <2>1, <2>2, WholeStages
<1>3. CASE stage[c] \in OtpStages
  <2>1. TurnsForOtp(heard, otpAttempts[c], resends[c]) \in Nat \ {0}
    BY <1>3, OpenCounts, CodeCosts
  <2>2. \/ TurnsLeft(c) = TurnsForOtp(heard, otpAttempts[c], resends[c]) + TurnsForMpin(0, 0)
        \/ TurnsLeft(c) = TurnsForOtp(heard, otpAttempts[c], resends[c])
    BY <1>3, TurnsByStage DEF StageTurns, OtpStages
  <2> QED BY <2>1, <2>2, WholeStages
<1> QED BY <1>1, <1>2, <1>3 DEF OpenStages

\* What a turn of call c has to establish.
Spends(c) == CeilingsInv(c)' /\ TurnsLeft(c)' \in 0..TurnsLeft(c) - 1

\* Escalating or granting ends the flow, which had a turn left.
LEMMA EndingSpends ==
    ASSUME TypeOK, NEW c \in Calls, CeilingsInv(c), stage[c] \in OpenStages,
           NEW st, NEW t, NEW r, Return(c, "DONE", st, t, r)
    PROVE  Spends(c)
<1>1. stage'[c] = "DONE"
  BY ReturnValues DEF TypeOK
<1>2. TurnsLeft(c)' = 0 /\ CeilingsInv(c)'
  BY <1>1, TurnsByStage DEF StageTurns, CeilingsInv
<1> QED BY <1>2, OpenHasTurns DEF Spends

\* Dispatching a code ends the flow, or goes on to the stage whose whole allowance was
\* reckoned with before.
LEMMA DispatchSpends ==
    ASSUME TypeOK, NEW c \in Calls, CeilingsInv(c), NEW k, NEW s, DispatchOtp(c, k, s),
           \/ stage[c] = "AWAITING_IDENTIFICATION" /\ s = "AWAITING_OTP_STEPUP"
           \/ /\ stage[c] = "AWAITING_MPIN_PRIMARY"
              /\ s \in {"AWAITING_OTP_FALLBACK", "AWAITING_OTP_SECOND_FACTOR"},
           UNCHANGED <<otpAttempts, resends, soft>>
    PROVE  Spends(c)
<1>1. stage[c] \in OpenStages /\ s \in OtpStages
  BY DEF OpenStages, MpinStages, OtpStages
<1>2. CASE MobileOf[k] = NoMobile
  BY <1>1, <1>2, EndingSpends DEF DispatchOtp, Escalate
<1>3. CASE MobileOf[k] # NoMobile
  <2> DEFINE heard == soft[c][s]
             codes == TurnsForOtp(heard, otpAttempts[c], resends[c])
  <2>1. stage'[c] = s
    BY <1>3, ReturnValues DEF DispatchOtp, Ask, TypeOK
  <2>2. heard \in Nat /\ heard <= SOFT_REPROMPT_MAX
    BY <1>1 DEF TypeOK, RetriesTypeOK, CeilingsInv, OpenStages
  <2>3. codes \in Nat \ {0} /\ codes <= TurnsForOtp(0, 0, 0)
    BY <1>1, <2>2, OpenCounts, CodeCosts
  <2>4. CeilingsInv(c)'
    BY <1>1, <2>1 DEF CeilingsInv, OpenStages, MpinStages, OtpStages
  <2>5. /\ soft'[c][stage'[c]] = heard
        /\ otpAttempts'[c] = otpAttempts[c] /\ resends'[c] = resends[c]
    BY <2>1
  <2>6. CASE stage[c] = "AWAITING_IDENTIFICATION" /\ s = "AWAITING_OTP_STEPUP"
    <3>1. TurnsLeft(c)' = codes + TurnsForMpin(0, 0)
      BY <2>1, <2>5, <2>6, TurnsByStage DEF StageTurns
    <3>2. TurnsLeft(c) = TurnsForId(soft[c][stage[c]], idAttempts[c])
                            + TurnsForOtp(0, 0, 0) + TurnsForMpin(0, 0)
      BY <2>6, TurnsByStage DEF StageTurns
    <3>3. TurnsForId(soft[c][stage[c]], idAttempts[c]) \in Nat \ {0}
      BY <1>1, <2>6, OpenCounts, StageCosts
    <3> HIDE DEF codes
    <3> QED BY <2>3, <2>4, <3>1, <3>2, <3>3, WholeStages DEF Spends
  <2>7. CASE /\ stage[c] = "AWAITING_MPIN_PRIMARY"
             /\ s \in {"AWAITING_OTP_FALLBACK", "AWAITING_OTP_SECOND_FACTOR"}
    <3>1. TurnsLeft(c)' = codes
      BY <2>1, <2>5, <2>7, TurnsByStage DEF StageTurns
    <3>2. TurnsLeft(c) = TurnsForMpin(soft[c][stage[c]], mpinAttempts[c]) + TurnsForOtp(0, 0, 0)
      BY <2>7, TurnsByStage DEF StageTurns
    <3>3. TurnsForMpin(soft[c][stage[c]], mpinAttempts[c]) \in Nat \ {0}
      BY <1>1, <2>7, OpenCounts, StageCosts DEF MpinStages
    <3> HIDE DEF codes
    <3> QED BY <2>3, <2>4, <3>1, <3>2, <3>3, WholeStages DEF Spends
  <2> QED BY <2>6, <2>7
<1> QED BY <1>2, <1>3

\* A reprompt costs a reprompt.
LEMMA NotHeardSpends ==
    ASSUME TypeOK, NEW c \in Calls, CeilingsInv(c), NotHeard(c)
    PROVE  Spends(c)
<1> DEFINE heard == soft[c][stage[c]]
<1>1. stage[c] \in OpenStages
  BY DEF NotHeard
<1>2. CASE heard + 1 > SOFT_REPROMPT_MAX
  BY <1>1, <1>2, EndingSpends DEF NotHeard, Escalate
<1>3. CASE ~(heard + 1 > SOFT_REPROMPT_MAX)
  <2>1. stage'[c] = stage[c]
    BY <1>3, ReturnValues DEF NotHeard, Ask, TypeOK
  <2>2. /\ soft'[c] = [soft[c] EXCEPT ![stage[c]] = heard + 1]
        /\ UNCHANGED <<idAttempts, mpinAttempts, otpAttempts, resends>>
    BY DEF NotHeard, TypeOK, RetriesTypeOK
  <2>3. soft'[c][stage'[c]] = heard + 1 /\ \A s \in OpenStages : soft'[c][s] \in {soft[c][s], heard + 1}
    BY <1>1, <2>1, <2>2 DEF TypeOK, RetriesTypeOK
  <2>4. heard + 1 <= SOFT_REPROMPT_MAX /\ heard \in Nat
    BY <1>1, <1>3, OpenCounts
  <2>5. CeilingsInv(c)'
    BY <2>1, <2>2, <2>3, <2>4 DEF CeilingsInv
  <2>6. TurnsLeft(c)' = TurnsLeft(c) - 1
    <3>1. CASE stage[c] = "AWAITING_IDENTIFICATION"
      <4>1. /\ TurnsForId(heard + 1, idAttempts[c]) = TurnsForId(heard, idAttempts[c]) - 1
            /\ TurnsForId(heard, idAttempts[c]) \in Nat
        BY <1>1, <3>1, OpenCounts, StageCosts
      <4>2. /\ TurnsLeft(c) = TurnsForId(heard, idAttempts[c]) + TurnsForOtp(0, 0, 0) + TurnsForMpin(0, 0)
            /\ TurnsLeft(c)' = TurnsForId(heard + 1, idAttempts[c])
                                  + TurnsForOtp(0, 0, 0) + TurnsForMpin(0, 0)
        BY <2>1, <2>2, <2>3, <3>1, TurnsByStage DEF StageTurns
      <4> QED BY <4>1, <4>2, WholeStages
    <3>2. CASE stage[c] \in MpinStages
      <4>1. /\ TurnsForMpin(heard + 1, mpinAttempts[c]) = TurnsForMpin(heard, mpinAttempts[c]) - 1
            /\ TurnsForMpin(heard, mpinAttempts[c]) \in Nat
        BY <1>1, <3>2, OpenCounts, StageCosts
      <4>2. \/ /\ TurnsLeft(c) = TurnsForMpin(heard, mpinAttempts[c]) + TurnsForOtp(0, 0, 0)
               /\ TurnsLeft(c)' = TurnsForMpin(heard + 1, mpinAttempts[c]) + TurnsForOtp(0, 0, 0)
            \/ /\ TurnsLeft(c) = TurnsForMpin(heard, mpinAttempts[c])
               /\ TurnsLeft(c)' = TurnsForMpin(heard + 1, mpinAttempts[c])
        BY <2>1, <2>2, <2>3, <3>2, TurnsByStage DEF StageTurns, MpinStages
      <4> QED BY <4>1, <4>2, WholeStages
    <3>3. CASE stage[c] \in OtpStages
      <4>1. /\ TurnsForOtp(heard + 1, otpAttempts[c], resends[c])
                  = TurnsForOtp(heard, otpAttempts[c], resends[c]) - 1
            /\ TurnsForOtp(heard, otpAttempts[c], resends[c]) \in Nat
        BY <1>1, OpenCounts, CodeCosts
      <4>2. \/ /\ TurnsLeft(c) = TurnsForOtp(heard, otpAttempts[c], resends[c]) + TurnsForMpin(0, 0)
               /\ TurnsLeft(c)' = TurnsForOtp(heard + 1, otpAttempts[c], resends[c]) + TurnsForMpin(0, 0)
            \/ /\ TurnsLeft(c) = TurnsForOtp(heard, otpAttempts[c], resends[c])
               /\ TurnsLeft(c)' = TurnsForOtp(heard + 1, otpAttempts[c], resends[c])
        BY <2>1, <2>2, <2>3, <3>3, TurnsByStage DEF StageTurns, OtpStages
      <4> QED BY <4>1, <4>2, WholeStages
    <3> QED BY <1>1, <3>1, <3>2, <3>3 DEF OpenStages
  <2> QED BY <1>1, <2>5, <2>6, OpenHasTurns DEF Spends
<1> QED BY <1>2, <1>3

\* An identification costs an attempt, or goes on to the code.
LEMMA SubmitIdentificationSpends ==
    ASSUME TypeOK, NEW c \in Calls, CeilingsInv(c),
           NEW k \in Customers \cup {NoCif}, SubmitIdentification(c, k)
    PROVE  Spends(c)
<1> DEFINE heard == soft[c][stage[c]]
<1>1. /\ stage[c] = "AWAITING_IDENTIFICATION" /\ stage[c] \in OpenStages
      /\ idAttempts'[c] = idAttempts[c] + 1
      /\ UNCHANGED <<mpinAttempts, otpAttempts, resends, soft>>
  BY DEF SubmitIdentification, OpenStages, TypeOK, RetriesTypeOK
<1>2. ASSUME NEW r, Escalate(c, r) PROVE Spends(c)
  BY <1>1, <1>2, EndingSpends DEF Escalate
<1>3. CASE DispatchOtp(c, k, "AWAITING_OTP_STEPUP")
  BY <1>1, <1>3, DispatchSpends
<1>4. CASE ~(idAttempts[c] + 1 >= IDENTIFICATION_MAX_ATTEMPTS) /\ Ask(c, stage[c], "NEEDS_IDENTIFICATION")
  <2>1. stage'[c] = stage[c]
    BY <1>4, ReturnValues DEF Ask, TypeOK
  <2>2. /\ TurnsForId(heard, idAttempts[c] + 1) = TurnsForId(heard, idAttempts[c]) - 1
        /\ TurnsForId(heard, idAttempts[c]) \in Nat
    BY <1>1, OpenCounts, StageCosts
  <2>3. /\ TurnsLeft(c) = TurnsForId(heard, idAttempts[c]) + TurnsForOtp(0, 0, 0) + TurnsForMpin(0, 0)
        /\ TurnsLeft(c)' = TurnsForId(heard, idAttempts[c] + 1) + TurnsForOtp(0, 0, 0) + TurnsForMpin(0, 0)
    BY <1>1, <2>1, TurnsByStage DEF StageTurns
  <2>4. TurnsLeft(c)' = TurnsLeft(c) - 1
    BY <2>2, <2>3, WholeStages
  <2>5. idAttempts'[c] < IDENTIFICATION_MAX_ATTEMPTS
    BY <1>1, <1>4, OpenCounts
  <2>6. CeilingsInv(c)'
    BY <1>1, <2>1, <2>5 DEF CeilingsInv, MpinStages
  <2> QED BY <1>1, <2>4, <2>6, OpenHasTurns DEF Spends
<1> QED BY <1>2, <1>3, <1>4 DEF SubmitIdentification

\* An MPIN costs an attempt, or goes on to a code.
LEMMA SubmitMpinSpends ==
    ASSUME TypeOK, NEW c \in Calls, CeilingsInv(c), NEW right \in BOOLEAN, SubmitMpin(c, right)
    PROVE  Spends(c)
<1> DEFINE heard == soft[c][stage[c]]
<1>1. /\ stage[c] \in MpinStages /\ stage[c] \in OpenStages
      /\ mpinAttempts'[c] = mpinAttempts[c] + 1
      /\ UNCHANGED <<idAttempts, otpAttempts, resends, soft>>
  BY DEF SubmitMpin, OpenStages, TypeOK, RetriesTypeOK
<1>2. ASSUME NEW r, Escalate(c, r) PROVE Spends(c)
  BY <1>1, <1>2, EndingSpends DEF Escalate
<1>3. ASSUME NEW t, Authenticated(c, t) PROVE Spends(c)
  BY <1>1, <1>3, EndingSpends DEF Authenticated
<1>4. ASSUME NEW s \in {"AWAITING_OTP_FALLBACK", "AWAITING_OTP_SECOND_FACTOR"},
             stage[c] = "AWAITING_MPIN_PRIMARY", DispatchOtp(c, cif[c], s)
      PROVE  Spends(c)
  BY <1>1, <1>4, DispatchSpends
<1>5. CASE mpinAttempts[c] + 1 < MPIN_MAX_ATTEMPTS /\ Ask(c, stage[c], "NEEDS_MPIN")
  <2>1. stage'[c] = stage[c]
    BY <1>5, ReturnValues DEF Ask, TypeOK
  <2>2. /\ TurnsForMpin(heard, mpinAttempts[c] + 1) = TurnsForMpin(heard, mpinAttempts[c]) - 1
        /\ TurnsForMpin(heard, mpinAttempts[c]) \in Nat
    BY <1>1, OpenCounts, StageCosts
  <2>3. \/ /\ TurnsLeft(c) = TurnsForMpin(heard, mpinAttempts[c]) + TurnsForOtp(0, 0, 0)
           /\ TurnsLeft(c)' = TurnsForMpin(heard, mpinAttempts[c] + 1) + TurnsForOtp(0, 0, 0)
        \/ /\ TurnsLeft(c) = TurnsForMpin(heard, mpinAttempts[c])
           /\ TurnsLeft(c)' = TurnsForMpin(heard, mpinAttempts[c] + 1)
    BY <1>1, <2>1, TurnsByStage DEF StageTurns, MpinStages
  <2>4. TurnsLeft(c)' = TurnsLeft(c) - 1
    BY <2>2, <2>3, WholeStages
  <2>5. CeilingsInv(c)'
    BY <1>1, <1>5, <2>1 DEF CeilingsInv, MpinStages
  <2> QED BY <1>1, <2>4, <2>5, OpenHasTurns DEF Spends
<1>6. \/ \E r : Escalate(c, r)
      \/ \E t : Authenticated(c, t)
      \/ mpinAttempts[c] + 1 < MPIN_MAX_ATTEMPTS /\ Ask(c, stage[c], "NEEDS_MPIN")
      \/ /\ stage[c] = "AWAITING_MPIN_PRIMARY"
         /\ \E s \in {"AWAITING_OTP_FALLBACK", "AWAITING_OTP_SECOND_FACTOR"} : DispatchOtp(c, cif[c], s)
  BY <1>1 DEF SubmitMpin, MpinAnswer, MpinStages
<1> QED BY <1>2, <1>3, <1>4, <1>5, <1>6

\* A wrong code costs an attempt; a right one ends the flow, or goes on to the MPIN with a
\* whole allowance of attempts.
LEMMA SubmitOtpSpends ==
    ASSUME TypeOK, NEW c \in Calls, CeilingsInv(c), NEW right \in BOOLEAN, SubmitOtp(c, right)
    PROVE  Spends(c)
<1> DEFINE heard == soft[c][stage[c]]
           codes == TurnsForOtp(heard, otpAttempts[c], resends[c])
<1>1. /\ stage[c] \in OtpStages /\ stage[c] \in OpenStages
      /\ UNCHANGED <<idAttempts, resends, soft>>
  BY DEF SubmitOtp, OpenStages
<1>2. ASSUME NEW r, Escalate(c, r) PROVE Spends(c)
  BY <1>1, <1>2, EndingSpends DEF Escalate
<1>3. ASSUME NEW t, Authenticated(c, t) PROVE Spends(c)
  BY <1>1, <1>3, EndingSpends DEF Authenticated
<1>4. CASE /\ stage[c] = "AWAITING_OTP_STEPUP"
           /\ Ask(c, "AWAITING_MPIN_AFTER_OTP", "NEEDS_MPIN")
           /\ mpinAttempts' = [mpinAttempts EXCEPT ![c] = 0]
           /\ UNCHANGED otpAttempts
  <2> DEFINE fresh == soft[c]["AWAITING_MPIN_AFTER_OTP"]
  <2>1. stage'[c] = "AWAITING_MPIN_AFTER_OTP" /\ mpinAttempts'[c] = 0
    BY <1>4, ReturnValues DEF Ask, TypeOK, RetriesTypeOK
  <2>2. fresh \in Nat /\ fresh <= SOFT_REPROMPT_MAX /\ 0 < MPIN_MAX_ATTEMPTS
    BY <1>4, CeilingAssumption DEF TypeOK, RetriesTypeOK, CeilingsInv, OpenStages, MpinStages
  <2>3. TurnsForMpin(fresh, 0) \in Nat /\ TurnsForMpin(fresh, 0) <= TurnsForMpin(0, 0)
    BY <2>2, StageCosts
  <2>4. TurnsLeft(c)' = TurnsForMpin(fresh, 0) /\ TurnsLeft(c) = codes + TurnsForMpin(0, 0)
    BY <1>1, <1>4, <2>1, TurnsByStage DEF StageTurns
  <2>5. codes \in Nat \ {0}
    BY <1>1, OpenCounts, CodeCosts
  <2>6. CeilingsInv(c)'
    BY <1>1, <1>4, <2>1, <2>2 DEF CeilingsInv
  <2> HIDE DEF codes
  <2> QED BY <2>3, <2>4, <2>5, <2>6, WholeStages DEF Spends
<1>5. CASE /\ ~(otpAttempts[c] + 1 >= OTP_MAX_VERIFY_ATTEMPTS) /\ Ask(c, stage[c], "NEEDS_OTP")
           /\ otpAttempts' = [otpAttempts EXCEPT ![c] = @ + 1]
           /\ UNCHANGED mpinAttempts
  <2>1. stage'[c] = stage[c] /\ otpAttempts'[c] = otpAttempts[c] + 1
    BY <1>5, ReturnValues DEF Ask, TypeOK, RetriesTypeOK
  <2>2. TurnsForOtp(heard, otpAttempts[c] + 1, resends[c]) = codes - 1 /\ codes \in Nat
    BY <1>1, OpenCounts, CodeCosts
  <2>3. \/ /\ TurnsLeft(c) = codes + TurnsForMpin(0, 0)
           /\ TurnsLeft(c)' = TurnsForOtp(heard, otpAttempts[c] + 1, resends[c]) + TurnsForMpin(0, 0)
        \/ /\ TurnsLeft(c) = codes
           /\ TurnsLeft(c)' = TurnsForOtp(heard, otpAttempts[c] + 1, resends[c])
    BY <1>1, <2>1, TurnsByStage DEF StageTurns, OtpStages
  <2>4. TurnsLeft(c)' = TurnsLeft(c) - 1
    <3> HIDE DEF codes
    <3> QED BY <2>2, <2>3, WholeStages
  <2>5. otpAttempts'[c] < OTP_MAX_VERIFY_ATTEMPTS
    BY <1>1, <1>5, <2>1, OpenCounts, CeilingAssumption
  <2>6. CeilingsInv(c)'
    BY <1>1, <1>5, <2>1, <2>5 DEF CeilingsInv
  <2> QED BY <1>1, <2>4, <2>6, OpenHasTurns DEF Spends
<1>6. CASE OtpAnswer(c, right) = "CORRECT"
  <2>1. OnOtpCorrect(c) /\ UNCHANGED otpAttempts
    BY <1>6 DEF SubmitOtp
  <2> QED BY <1>3, <1>4, <2>1 DEF OnOtpCorrect
<1>7. CASE OtpAnswer(c, right) # "CORRECT"
  BY <1>2, <1>5, <1>7 DEF SubmitOtp
<1> QED BY <1>6, <1>7

\* A resend costs more than the attempts it gives back.
LEMMA ResendSpends ==
    ASSUME TypeOK, NEW c \in Calls, CeilingsInv(c), RequestOtpResend(c)
    PROVE  Spends(c)
<1> DEFINE heard == soft[c][stage[c]]
           codes == TurnsForOtp(heard, otpAttempts[c], resends[c])
           renewed == TurnsForOtp(heard, 0, resends[c] + 1)
<1>1. stage[c] \in OtpStages /\ stage[c] \in OpenStages
  BY DEF RequestOtpResend, OpenStages
<1>2. CASE Escalate(c, "OTP_FAILED")
  BY <1>1, <1>2, EndingSpends DEF Escalate
<1>3. CASE /\ resends[c] < OTP_MAX_RESENDS /\ Ask(c, stage[c], "NEEDS_OTP")
           /\ resends' = [resends EXCEPT ![c] = @ + 1]
           /\ otpAttempts' = [otpAttempts EXCEPT ![c] = 0]
  <2>1. stage'[c] = stage[c] /\ otpAttempts'[c] = 0 /\ resends'[c] = resends[c] + 1
    BY <1>3, ReturnValues DEF Ask, TypeOK, RetriesTypeOK
  <2>2. UNCHANGED <<idAttempts, mpinAttempts, soft>>
    BY DEF RequestOtpResend
  <2>3. resends[c] + 1 \in Nat /\ resends[c] + 1 <= OTP_MAX_RESENDS /\ 0 < OTP_MAX_VERIFY_ATTEMPTS
    BY <1>1, <1>3, OpenCounts, CeilingAssumption
  <2>4. renewed \in Nat /\ renewed < codes /\ codes \in Nat
    BY <1>1, <1>3, <2>3, OpenCounts, CodeCosts
  <2>5. \/ /\ TurnsLeft(c) = codes + TurnsForMpin(0, 0)
           /\ TurnsLeft(c)' = renewed + TurnsForMpin(0, 0)
        \/ TurnsLeft(c) = codes /\ TurnsLeft(c)' = renewed
    BY <1>1, <2>1, <2>2, TurnsByStage DEF StageTurns, OtpStages
  <2>6. CeilingsInv(c)'
    BY <1>1, <2>1, <2>2, <2>3 DEF CeilingsInv
  <2> HIDE DEF codes, renewed
  <2> QED BY <2>4, <2>5, <2>6, WholeStages DEF Spends
<1> QED BY <1>2, <1>3 DEF RequestOtpResend

\* Every turn of call c, with what it is charged to.
LEMMA TurnSpends ==
    ASSUME TypeOK, NEW c \in Calls, CeilingsInv(c), Turn(c)
    PROVE  Spends(c)
BY NotHeardSpends, SubmitIdentificationSpends, SubmitMpinSpends, SubmitOtpSpends, ResendSpends DEF Turn

\* The counters of call d are left as they are.
SameTries(d) ==
    /\ idAttempts'[d] = idAttempts[d] /\ mpinAttempts'[d] = mpinAttempts[d]
    /\ otpAttempts'[d] = otpAttempts[d] /\ resends'[d] = resends[d] /\ soft'[d] = soft[d]

\* A move of one call leaves the counters of the others alone.
LEMMA TriesFrame ==
    ASSUME TypeOK, NEW c \in Calls, NEW d \in Calls, d # c, Move(c)
    PROVE  SameTries(d)
<1>1. /\ idAttempts \in [Calls -> Nat] /\ mpinAttempts \in [Calls -> Nat]
      /\ otpAttempts \in [Calls -> Nat] /\ resends \in [Calls -> Nat]
      /\ soft \in [Calls -> [OpenStages -> Nat]]
  BY DEF TypeOK, RetriesTypeOK
<1>2. CASE \E a \in Reachable \cup {NoCif}, t \in Tiers : Start(c, a, t)
  BY <1>1, <1>2 DEF Start, SameTries
<1>3. CASE Expire(c) /\ UNCHANGED <<bankVars, flowVars>>
  BY <1>3 DEF flowVars, retries, SameTries
<1>4. CASE NotHeard(c)
  BY <1>1, <1>4 DEF NotHeard, SameTries
<1>5. CASE \E k \in Customers \cup {NoCif} : SubmitIdentification(c, k)
  BY <1>1, <1>5 DEF SubmitIdentification, SameTries
<1>6. CASE \E right \in BOOLEAN : SubmitMpin(c, right)
  BY <1>1, <1>6 DEF SubmitMpin, SameTries
<1>7. CASE \E right \in BOOLEAN : SubmitOtp(c, right)
  <2>1. UNCHANGED <<idAttempts, resends, soft>>
    BY <1>7 DEF SubmitOtp
  <2>2. otpAttempts' = otpAttempts \/ otpAttempts' = [otpAttempts EXCEPT ![c] = @ + 1]
    BY <1>7 DEF SubmitOtp
  <2>3. mpinAttempts' = mpinAttempts \/ mpinAttempts' = [mpinAttempts EXCEPT ![c] = 0]
    BY <1>7 DEF SubmitOtp, OnOtpCorrect
  <2> QED BY <1>1, <2>1, <2>2, <2>3 DEF SameTries
<1>8. CASE RequestOtpResend(c)
  <2>1. /\ UNCHANGED <<idAttempts, mpinAttempts, soft>>
        /\ \/ UNCHANGED <<otpAttempts, resends>>
           \/ /\ otpAttempts' = [otpAttempts EXCEPT ![c] = 0]
              /\ resends' = [resends EXCEPT ![c] = resends[c] + 1]
    BY <1>8 DEF RequestOtpResend
  <2> QED BY <1>1, <2>1 DEF SameTries
<1> QED BY <1>2, <1>3, <1>4, <1>5, <1>6, <1>7, <1>8 DEF Move, Turn

Ceilings == \A c \in Calls : CeilingsInv(c)

\* No flow is open in the beginning.
LEMMA CeilingsInit == Init => Ceilings
BY DEF Init, Ceilings, CeilingsInv

\* A fresh flow has used nothing.
LEMMA StartWithin ==
    ASSUME TypeOK, NEW c \in Calls, NEW a, NEW t, Start(c, a, t)
    PROVE  CeilingsInv(c)'
<1>1. /\ idAttempts'[c] = 0 /\ mpinAttempts'[c] = 0 /\ otpAttempts'[c] = 0 /\ resends'[c] = 0
      /\ soft'[c] = [s \in OpenStages |-> 0]
  BY DEF Start, TypeOK, RetriesTypeOK
<1> QED BY <1>1, CeilingAssumption DEF CeilingsInv

\* A move of any call keeps all flows within their ceilings.
LEMMA CeilingsMove ==
    ASSUME TypeOK, Ceilings, (\E c \in Calls : Move(c)) \/ UNCHANGED vars
    PROVE  Ceilings'
<1>1. ASSUME NEW d \in Calls, SameTries(d), stage'[d] = stage[d] PROVE CeilingsInv(d)'
  BY <1>1 DEF Ceilings, CeilingsInv, SameTries
<1>2. CASE UNCHANGED vars
  BY <1>1, <1>2 DEF Ceilings, SameTries, vars, flowVars, answer, retries
<1>3. ASSUME NEW c \in Calls, Move(c) PROVE Ceilings'
  <2>1. CeilingsInv(c)
    BY DEF Ceilings
  <2>2. CASE Expire(c) /\ UNCHANGED <<bankVars, flowVars>>
    BY <1>1, <2>2 DEF Ceilings, SameTries, flowVars, answer, retries
  <2>3. CASE ~(Expire(c) /\ UNCHANGED <<bankVars, flowVars>>)
    <3>1. CeilingsInv(c)'
      BY <1>3, <2>1, <2>3, StartWithin, TurnSpends DEF Move, Spends
    <3>2. ASSUME NEW d \in Calls, d # c PROVE CeilingsInv(d)'
      BY <1>1, <1>3, <3>2, TriesFrame, Frame DEF Untouched
    <3> QED BY <3>1, <3>2 DEF Ceilings
  <2> QED BY <2>2, <2>3
<1> QED BY <1>2, <1>3

\* Every turn, one that repeats its question or is not heard included, takes from a
\* number of turns that is finite and never below zero, for all values of the ceilings:
\* this is why no flow can go on for ever.
THEOREM EveryTurnIsCharged == Spec => EveryTurnSpends
<1>1. IInv /\ Ceilings /\ [Next]_vars => Ceilings'
  BY NextMoves, CeilingsMove DEF IInv
<1>2. IInv /\ Ceilings => [\A c \in Calls : Turn(c) => TurnsLeft(c)' \in 0..TurnsLeft(c) - 1]_vars
  BY TurnSpends DEF IInv, Ceilings, Spends
<1> QED BY <1>1, <1>2, CeilingsInit, Invariance, PTL DEF Spec, EveryTurnSpends
=============================================================================
