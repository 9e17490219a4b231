----------------------------- MODULE CoreBanking -----------------------------
(***************************************************************************)
(* The Core Banking System as the IVR sees it through CBSClient            *)
(* (auth/models.py) and its in-memory implementation auth/cbs_dummy.py.    *)
(* The only state is the MPIN lockout record of each customer, which every *)
(* live call shares; names, numbers and the MPIN itself are abstracted to  *)
(* "the caller's digits are right or not".                                 *)
(***************************************************************************)
EXTENDS Parties

CONSTANTS
    Mobiles, NoMobile,    \* registered numbers, and "none on file"
    MobileOf,             \* customer -> registered_mobiles[0] or NoMobile
    Flagged,              \* customers with a non-empty account_flags set
    LockedAtStart,        \* records loaded with mpin_locked = True
    MPIN_LOCK_THRESHOLD

ASSUME BankAssumption ==
    /\ NoMobile \notin Mobiles
    /\ MobileOf \in [Customers -> Mobiles \cup {NoMobile}]
    /\ Flagged \subseteq Customers
    /\ LockedAtStart \subseteq Customers
    /\ MPIN_LOCK_THRESHOLD \in Nat \ {0}

VARIABLES
    mpinFails,            \* customer -> mpin_fail_count
    mpinLocked            \* customer -> mpin_locked

bankVars == <<mpinFails, mpinLocked>>

BankTypeOK ==
    /\ mpinFails \in [Customers -> Nat]
    /\ mpinLocked \in [Customers -> BOOLEAN]

BankInit ==
    /\ mpinLocked = [k \in Customers |-> k \in LockedAtStart]
    /\ mpinFails = [k \in Customers |->
                       IF k \in LockedAtStart THEN MPIN_LOCK_THRESHOLD ELSE 0]

\* Callers resolve_cif_by_mobile can match: it searches the registered numbers.
Reachable == {k \in Customers : MobileOf[k] # NoMobile}

\* Plausible bug: the account flags are never looked at.
NoAccountFlags(k) == FALSE

\* get_account_flags, as its callers use it: is there any flag at all?
AccountFlags(k) == k \in Flagged

(***************************************************************************)
(* validate_mpin: the answer it gives and the record it leaves.            *)
(***************************************************************************)
\* Plausible bug: the threshold is compared with > instead of >=.
LateLockAnswer(k, right) ==
    IF mpinLocked[k] THEN "LOCKED"
    ELSE IF right THEN "CORRECT"
    ELSE IF mpinFails[k] + 1 > MPIN_LOCK_THRESHOLD THEN "LOCKED"
    ELSE "INCORRECT"

\* Plausible bug: a right MPIN is confirmed before the lock is looked at.
UnlockedMpinAnswer(k, right) ==
    IF right THEN "CORRECT"
    ELSE IF mpinLocked[k] \/ mpinFails[k] + 1 >= MPIN_LOCK_THRESHOLD THEN "LOCKED"
    ELSE "INCORRECT"

MpinAnswer(k, right) ==
    IF mpinLocked[k] THEN "LOCKED"
    ELSE IF right THEN "CORRECT"
    ELSE IF mpinFails[k] + 1 >= MPIN_LOCK_THRESHOLD THEN "LOCKED"
    ELSE "INCORRECT"

ValidateMpin(k, right) ==
    IF mpinLocked[k]
    THEN UNCHANGED bankVars
    ELSE /\ mpinFails' = [mpinFails EXCEPT ![k] = IF right THEN 0 ELSE @ + 1]
         /\ mpinLocked' = [mpinLocked EXCEPT ![k] = MpinAnswer(k, right) = "LOCKED"]

-----------------------------------------------------------------------------
\* A record is locked exactly when its count of consecutive wrong guesses,
\* whatever calls they came from, has reached the threshold; so between two
\* right answers no more than MPIN_LOCK_THRESHOLD guesses are ever evaluated.
LockAtThreshold ==
    \A k \in Customers :
        /\ mpinFails[k] <= MPIN_LOCK_THRESHOLD
        /\ mpinLocked[k] <=> mpinFails[k] = MPIN_LOCK_THRESHOLD
=============================================================================
