---------------------------- MODULE AuthPolicyProofs ----------------------------
(***************************************************************************)
(* AuthFlow implements AuthPolicy: every step of a flow is one the policy  *)
(* allows, or changes nothing the policy speaks of.                        *)
(***************************************************************************)
EXTENDS AuthFlowProofs

-----------------------------------------------------------------------------
(***************************************************************************)
(* The refinement mapping, one call at a time.                             *)
(***************************************************************************)
IsOpen(c) == stage[c] # "DONE"
Confirmed(c) == IF cif[c] = NoCif THEN {} ELSE Evidence(c, cif[c])
GrantedTier(c) == IF status[c] \in {"AUTHENTICATED", "NO_AUTH_REQUIRED"} THEN tier[c] ELSE NoTier

\* What the policy sees of a step that changes nothing but call c.
Becomes(c) ==
    /\ [d \in Calls |-> IsOpen(d)]' = [[d \in Calls |-> IsOpen(d)] EXCEPT ![c] = IsOpen(c)']
    /\ tierRequired' = [tierRequired EXCEPT ![c] = tierRequired'[c]]
    /\ cif' = [cif EXCEPT ![c] = cif'[c]]
    /\ [d \in Calls |-> Confirmed(d)]' =
          [[d \in Calls |-> Confirmed(d)] EXCEPT ![c] = Confirmed(c)']
    /\ [d \in Calls |-> GrantedTier(d)]' =
          [[d \in Calls |-> GrantedTier(d)] EXCEPT ![c] = GrantedTier(c)']

\* A step of one call is seen by the policy as a change of that call alone.
LEMMA SeenAsOneCall ==
    ASSUME TypeOK, TypeOK', NEW c \in Calls, \A d \in Calls : d # c => Untouched(d)
    PROVE  Becomes(c)
<1>1. \A d \in Calls : d # c =>
         /\ IsOpen(d)' = IsOpen(d) /\ Confirmed(d)' = Confirmed(d)
         /\ GrantedTier(d)' = GrantedTier(d)
         /\ tierRequired'[d] = tierRequired[d] /\ cif'[d] = cif[d]
  BY DEF IsOpen, Confirmed, GrantedTier, Untouched, Evidence
<1>2. tierRequired' = [tierRequired EXCEPT ![c] = tierRequired'[c]]
  BY <1>1 DEF TypeOK
<1>3. cif' = [cif EXCEPT ![c] = cif'[c]]
  BY <1>1 DEF TypeOK
<1>4. [d \in Calls |-> IsOpen(d)]' = [[d \in Calls |-> IsOpen(d)] EXCEPT ![c] = IsOpen(c)']
  BY <1>1, Zenon
<1>5. [d \in Calls |-> Confirmed(d)]' = [[d \in Calls |-> Confirmed(d)] EXCEPT ![c] = Confirmed(c)']
  BY <1>1, Zenon
<1>6. [d \in Calls |-> GrantedTier(d)]' =
         [[d \in Calls |-> GrantedTier(d)] EXCEPT ![c] = GrantedTier(c)']
  BY <1>1, Zenon
<1> QED BY <1>2, <1>3, <1>4, <1>5, <1>6 DEF Becomes

-----------------------------------------------------------------------------
(***************************************************************************)
(* What a turn teaches the flow.                                           *)
(***************************************************************************)
\* At most one factor more is confirmed, for a subject that is settled once.
Learnt(c, gained) ==
    /\ IsOpen(c)
    /\ gained \in SUBSET Factors /\ \E f \in Factors : gained \subseteq {f}
    /\ cif[c] \in {NoCif, cif'[c]} /\ cif'[c] \in Customers \cup {NoCif}
    /\ Confirmed(c)' = Confirmed(c) \cup gained

\* A step that vouches for nothing and settles on nobody.
LEMMA NothingLearnt ==
    ASSUME TypeOK, NEW c \in Calls, IsOpen(c), vouched' = vouched, cif' = cif
    PROVE  Learnt(c, {})
<1>1. {} \in SUBSET Factors /\ \E f \in Factors : {} \subseteq {f}
  BY DEF Factors
<1>2. cif[c] \in {NoCif, cif'[c]} /\ cif'[c] \in Customers \cup {NoCif}
  BY DEF TypeOK
<1>3. Confirmed(c)' = Confirmed(c) \cup {}
  BY DEF Confirmed, Evidence
<1> QED BY <1>1, <1>2, <1>3 DEF Learnt

\* A factor confirmed for the customer on file, or for the one just found.
LEMMA OneLearnt ==
    ASSUME TypeOK, NEW c \in Calls, IsOpen(c), Settled(c), NEW f \in Factors, NEW k \in Customers,
           Vouch(c, f, k), cif'[c] = k, cif[c] \in {NoCif, k}
    PROVE  Learnt(c, {f})
<1>1. vouched'[c][f] = k /\ \A g \in Factors : g # f => vouched'[c][g] = vouched[c][g]
  BY DEF Vouch, TypeOK
<1>2. k # NoCif
  BY PartiesAssumption
<1>3. Confirmed(c)' = {g \in Factors : vouched'[c][g] = k}
  BY <1>2 DEF Confirmed, Evidence
<1>4. CASE cif[c] = NoCif
  <2>1. \A g \in Factors : vouched[c][g] = NoCif
    BY <1>4 DEF Settled
  <2>2. Confirmed(c) = {}
    BY <1>4 DEF Confirmed
  <2> QED BY <1>1, <1>2, <1>3, <2>1, <2>2 DEF Learnt
<1>5. CASE cif[c] = k
  <2>1. Confirmed(c) = {g \in Factors : vouched[c][g] = k}
    BY <1>2, <1>5 DEF Confirmed, Evidence
  <2> QED BY <1>1, <1>3, <1>5, <2>1 DEF Learnt
<1> QED BY <1>4, <1>5

\* Every turn is one of the two.
LEMMA TurnLearns ==
    ASSUME TypeOK, NEW c \in Calls, CallInv(c), Turn(c)
    PROVE  \E gained : Learnt(c, gained)
<1>1. PathInvariant(c) /\ Settled(c)
  BY DEF CallInv, PathInvariant, Settled
<1>2. IsOpen(c)
  BY DEF Turn, NotHeard, SubmitIdentification, SubmitMpin, SubmitOtp, RequestOtpResend,
         IsOpen, OpenStages, MpinStages, OtpStages
<1>3. ASSUME vouched' = vouched, cif' = cif
      PROVE  \E gained : Learnt(c, gained)
  BY <1>2, <1>3, NothingLearnt
<1>4. CASE NotHeard(c) \/ RequestOtpResend(c)
  BY <1>3, <1>4 DEF NotHeard, RequestOtpResend
<1>5. ASSUME NEW k \in Customers \cup {NoCif}, SubmitIdentification(c, k)
      PROVE  \E gained : Learnt(c, gained)
  <2>1. CASE k = NoCif
    <3>1. vouched' = vouched /\ cif' = cif
      BY <1>5, <2>1 DEF SubmitIdentification
    <3> QED BY <1>3, <3>1
  <2>2. CASE k # NoCif
    <3>1. cif' = [cif EXCEPT ![c] = k] /\ Vouch(c, "identity", k)
      BY <1>5, <2>2 DEF SubmitIdentification
    <3>2. cif'[c] = k /\ cif[c] = NoCif
      BY <1>1, <1>5, <3>1 DEF SubmitIdentification, PathInvariant, TypeOK
    <3>3. k \in Customers /\ "identity" \in Factors
      BY <2>2 DEF Factors
    <3> QED BY <1>1, <1>2, <3>1, <3>2, <3>3, OneLearnt
  <2> QED BY <2>1, <2>2
<1>6. ASSUME NEW right \in BOOLEAN, SubmitMpin(c, right)
      PROVE  \E gained : Learnt(c, gained)
  <2>1. cif[c] \in Customers /\ cif' = cif
    BY <1>1, <1>6 DEF SubmitMpin, PathInvariant
  <2>2. vouched' = vouched \/ Vouch(c, "mpin", cif[c])
    BY <1>6 DEF SubmitMpin
  <2>3. "mpin" \in Factors
    BY DEF Factors
  <2> QED BY <1>1, <1>2, <1>3, <2>1, <2>2, <2>3, OneLearnt
<1>7. ASSUME NEW right \in BOOLEAN, SubmitOtp(c, right)
      PROVE  \E gained : Learnt(c, gained)
  <2>1. /\ cif[c] \in Customers /\ cif' = cif
        /\ otpTo[c] = MobileOf[cif[c]]
    BY <1>1, <1>7 DEF SubmitOtp, PathInvariant
  <2>2. vouched' = vouched \/ Vouch(c, "otp", cif[c])
    BY <1>7, <2>1 DEF SubmitOtp, OnOtpCorrect
  <2>3. "otp" \in Factors
    BY DEF Factors
  <2> QED BY <1>1, <1>2, <1>3, <2>1, <2>2, <2>3, OneLearnt
<1> QED BY <1>4, <1>5, <1>6, <1>7 DEF Turn

-----------------------------------------------------------------------------
(***************************************************************************)
(* Every step of a flow is a step of the policy.                           *)
(***************************************************************************)

\* A turn ends in one of the policy's three ways.
LEMMA TurnIsAllowed ==
    ASSUME IInv, IInv', NEW c \in Calls, Turn(c)
    PROVE  Policy!Next
<1>1. TypeOK /\ TypeOK' /\ CallInv(c) /\ CallInv(c)'
  BY DEF IInv
<1>2. PICK gained : Learnt(c, gained)
  BY <1>1, TurnLearns
<1>3. /\ tierRequired'[c] = tierRequired[c]
      /\ status'[c] \in Asking \cup {"AUTHENTICATED", "ESCALATED"}
  BY <1>1, TurnAnswer
<1>4. Becomes(c)
  <2>1. Move(c)
    BY DEF Move
  <2> QED BY <1>1, <2>1, Frame, SeenAsOneCall
<1>5. tierRequired' = tierRequired
  BY <1>1, <1>3, <1>4 DEF Becomes, TypeOK
<1>6. status[c] \in Asking
  BY <1>1, <1>2 DEF CallInv, PromptMatches, Learnt, IsOpen
<1>7. GrantedTier(c) = NoTier
  BY <1>6 DEF GrantedTier, Asking
<1>8. Policy!Learn(c, cif'[c], gained)
  BY <1>2, <1>4, <1>5 DEF Policy!Learn, Becomes, Learnt, IsOpen, Confirmed, Policy!Factors, Factors
<1>9. gained \in SUBSET Policy!Factors /\ cif'[c] \in Customers \cup {NoCif}
  BY <1>2 DEF Learnt, Policy!Factors, Factors
<1>10. CASE status'[c] \in Asking
  <2>1. stage'[c] # "DONE" /\ IsOpen(c)' = IsOpen(c)
    BY <1>1, <1>2, <1>10 DEF CallInv, PromptMatches, Learnt, IsOpen
  <2>2. GrantedTier(c)' = GrantedTier(c)
    BY <1>7, <1>10 DEF GrantedTier, Asking
  <2>3. cif'[c] \notin Flagged
    BY <1>1, <2>1, PartiesAssumption, BankAssumption
       DEF CallInv, PathInvariant, TypeOK, AnswerTypeOK, Stages, OpenStages
  <2>4. Policy!Proceed(c, cif'[c], gained)
    <3>1. /\ [d \in Calls |-> IsOpen(d)]' = [d \in Calls |-> IsOpen(d)]
          /\ [d \in Calls |-> GrantedTier(d)]' = [d \in Calls |-> GrantedTier(d)]
      BY <1>4, <2>1, <2>2, Zenon DEF Becomes
    <3> QED BY <1>8, <2>3, <3>1 DEF Policy!Proceed, IsOpen, GrantedTier
  <2> QED BY <1>9, <2>4 DEF Policy!Next
<1>11. CASE status'[c] = "AUTHENTICATED"
  <2>1. IsOpen(c)' = FALSE
    BY <1>1, <1>11 DEF CallInv, PromptMatches, IsOpen, Asking
  <2>2. GrantedTier(c)' = tierRequired[c]
    BY <1>1, <1>3, <1>11 DEF CallInv, Earned, GrantedTier
  <2>3. /\ cif'[c] \in Customers \ Flagged
        /\ Policy!Sufficient(tierRequired[c], Confirmed(c)')
    BY <1>1, <1>3, <1>11, PartiesAssumption
       DEF CallInv, Earned, Confirmed, Evidence, Policy!Sufficient
  <2>4. Policy!Sufficient(tierRequired[c], Confirmed(c) \cup gained)
    BY <1>2, <2>3 DEF Learnt
  <2>5. Policy!Grant(c, cif'[c], gained)
    BY <1>4, <1>8, <2>1, <2>2, <2>3, <2>4
       DEF Policy!Grant, Becomes, IsOpen, Confirmed, GrantedTier
  <2> QED BY <1>9, <2>5 DEF Policy!Next
<1>12. CASE status'[c] = "ESCALATED"
  <2>1. IsOpen(c)' = FALSE
    BY <1>1, <1>12 DEF CallInv, PromptMatches, IsOpen, Asking
  <2>2. GrantedTier(c)' = GrantedTier(c)
    BY <1>7, <1>12 DEF GrantedTier
  <2>3. [d \in Calls |-> GrantedTier(d)]' = [d \in Calls |-> GrantedTier(d)]
    BY <1>4, <2>2, Zenon DEF Becomes
  <2>4. Policy!Refuse(c, cif'[c], gained)
    BY <1>4, <1>8, <2>1, <2>3 DEF Policy!Refuse, Becomes, IsOpen, GrantedTier
  <2> QED BY <1>9, <2>4 DEF Policy!Next
<1> QED BY <1>3, <1>10, <1>11, <1>12

\* A flow that starts after one that is done is the policy's Begin.
LEMMA BeginIsAllowed ==
    ASSUME IInv, IInv', NEW c \in Calls, Begin(c)
    PROVE  Policy!Next
<1>1. TypeOK /\ TypeOK' /\ CallInv(c)'
  BY DEF IInv
<1>2. PICK a \in Reachable \cup {NoCif}, t \in Tiers : Start(c, a, t)
  BY DEF Begin
<1> DEFINE k == IF t = 0 THEN NoCif ELSE a
<1>3. k \in Customers \cup {NoCif} /\ t \in 0..2 /\ (t = 0 => k = NoCif)
  BY DEF Reachable, Tiers
<1>4. Becomes(c)
  <2>1. Move(c)
    BY <1>2 DEF Move
  <2> QED BY <1>1, <2>1, Frame, SeenAsOneCall
<1>5. tierRequired'[c] = t /\ cif'[c] = k
  BY <1>1, <1>2 DEF Start, TypeOK
<1>6. Confirmed(c)' = IF k = NoCif THEN {} ELSE {"cli"}
  <2>1. vouched'[c] = [f \in Factors |-> IF f = "cli" THEN k ELSE NoCif]
    BY <1>1, <1>2 DEF Start, TypeOK
  <2>2. CASE k = NoCif
    BY <1>5, <2>2 DEF Confirmed
  <2>3. CASE k # NoCif
    <3>1. Confirmed(c)' = {f \in Factors : vouched'[c][f] = k}
      BY <1>5, <2>3 DEF Confirmed, Evidence
    <3>2. \A f \in Factors : vouched'[c][f] = k <=> f = "cli"
      BY <2>1, <2>3
    <3> QED BY <2>3, <3>1, <3>2 DEF Factors
  <2> QED BY <2>2, <2>3
<1>7. IsOpen(c)' = (t # 0 /\ k \notin Flagged) /\ GrantedTier(c)' = IF t = 0 THEN 0 ELSE NoTier
  <2>1. AnswerTypeOK
    BY <1>1 DEF TypeOK
  <2>2. \/ t = 0 /\ Return(c, "DONE", "NO_AUTH_REQUIRED", 0, NoReason)
        \/ t # 0 /\ k = NoCif
           /\ Return(c, "AWAITING_IDENTIFICATION", "NEEDS_IDENTIFICATION", NoTier, NoReason)
        \/ k # NoCif /\ k \in Flagged
           /\ Return(c, "DONE", "ESCALATED", NoTier, "ACCOUNT_FLAGGED")
        \/ k # NoCif /\ k \notin Flagged
           /\ Return(c, "AWAITING_MPIN_PRIMARY", "NEEDS_MPIN", NoTier, NoReason)
    BY <1>2 DEF Start, AccountFlags
  <2>3. \/ t = 0 /\ stage'[c] = "DONE" /\ status'[c] = "NO_AUTH_REQUIRED" /\ tier'[c] = 0
        \/ t # 0 /\ k = NoCif /\ stage'[c] = "AWAITING_IDENTIFICATION"
           /\ status'[c] = "NEEDS_IDENTIFICATION"
        \/ k # NoCif /\ k \in Flagged /\ stage'[c] = "DONE" /\ status'[c] = "ESCALATED"
        \/ k # NoCif /\ k \notin Flagged /\ stage'[c] = "AWAITING_MPIN_PRIMARY"
           /\ status'[c] = "NEEDS_MPIN"
    BY <2>1, <2>2, ReturnValues
  <2>4. NoCif \notin Flagged
    BY PartiesAssumption, BankAssumption
  <2> QED BY <1>3, <2>3, <2>4 DEF IsOpen, GrantedTier
<1> HIDE DEF k
<1>8. Policy!Begin(c)
  <2>1. ~IsOpen(c)
    BY DEF Begin, IsOpen
  <2>2. /\ tierRequired' = [tierRequired EXCEPT ![c] = t]
        /\ cif' = [cif EXCEPT ![c] = k]
    BY <1>4, <1>5 DEF Becomes
  <2>3. [d \in Calls |-> Confirmed(d)]' =
           [[d \in Calls |-> Confirmed(d)] EXCEPT ![c] = IF k = NoCif THEN {} ELSE {"cli"}]
    BY <1>4, <1>6, Zenon DEF Becomes
  <2>4. /\ [d \in Calls |-> IsOpen(d)]' =
               [[d \in Calls |-> IsOpen(d)] EXCEPT ![c] = t # 0 /\ k \notin Flagged]
        /\ [d \in Calls |-> GrantedTier(d)]' =
               [[d \in Calls |-> GrantedTier(d)] EXCEPT ![c] = IF t = 0 THEN 0 ELSE NoTier]
    BY <1>4, <1>7, Zenon DEF Becomes
  <2>5. ~[d \in Calls |-> IsOpen(d)][c]
    BY <2>1, Zenon
  <2> QED BY <1>3, <2>2, <2>3, <2>4, <2>5, Zenon
          DEF Policy!Begin, IsOpen, Confirmed, GrantedTier, NoTier, Policy!NoTier
<1> QED BY <1>8 DEF Policy!Next

\* A code that runs out, or a step of something else, means nothing to the policy.
LEMMA OtherIsNothing == UNCHANGED flowVars => UNCHANGED Policy!policyVars
BY DEF flowVars, answer, Policy!policyVars, Evidence

\* The policy's initial state.
LEMMA PolicyStarts == Init => Policy!Init
<1> SUFFICES ASSUME Init PROVE Policy!Init
  OBVIOUS
<1>1. /\ stage = [c \in Calls |-> "DONE"] /\ cif = [c \in Calls |-> NoCif]
      /\ status = [c \in Calls |-> "NONE"] /\ tierRequired = [c \in Calls |-> 0]
  BY DEF Init
<1>2. [c \in Calls |-> stage[c] # "DONE"] = [c \in Calls |-> FALSE]
  BY <1>1, Zenon
<1>3. [c \in Calls |-> IF cif[c] = NoCif THEN {} ELSE Evidence(c, cif[c])] = [c \in Calls |-> {}]
  BY <1>1
<1>4. [c \in Calls |-> IF status[c] \in {"AUTHENTICATED", "NO_AUTH_REQUIRED"} THEN tier[c] ELSE NoTier]
         = [c \in Calls |-> Policy!NoTier]
  <2>1. \A c \in Calls : status[c] \notin {"AUTHENTICATED", "NO_AUTH_REQUIRED"}
    BY <1>1
  <2> QED BY <2>1 DEF NoTier, Policy!NoTier
<1> QED BY <1>1, <1>2, <1>3, <1>4, Zenon DEF Policy!Init

\* Every step of the flows is a step of AuthPolicy or means nothing to it: one
\* subject and a growing set of confirmed factors per flow, a grant only of the
\* required tier on sufficient evidence for an unflagged subject.
THEOREM FlowImplementsPolicy == Spec => ImplementsPolicy
<1>1. IInv /\ IInv' /\ [Next]_vars => [Policy!Next]_(Policy!policyVars)
  <2> SUFFICES ASSUME IInv, IInv', [Next]_vars
               PROVE  Policy!Next \/ UNCHANGED Policy!policyVars
    OBVIOUS
  <2>1. ASSUME NEW c \in Calls, Begin(c) PROVE Policy!Next
    BY <2>1, BeginIsAllowed
  <2>2. ASSUME NEW c \in Calls, Turn(c) PROVE Policy!Next
    BY <2>2, TurnIsAllowed
  <2>3. CASE UNCHANGED flowVars
    BY <2>3, OtherIsNothing
  <2> QED BY <2>1, <2>2, <2>3 DEF Next, vars
<1> QED BY <1>1, PolicyStarts, Invariance, PTL DEF Spec, ImplementsPolicy, Policy!Spec
=============================================================================
