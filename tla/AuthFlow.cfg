SPECIFICATION FairSpec
CONSTANTS
    ordinary = ordinary
    flagged = flagged
    unreached = unreached
    home = home
    other = other
    NoCif = NoCif
    NoMobile = NoMobile
    Calls = {c1}
    Customers = {ordinary, flagged, unreached}
    Mobiles = {home, other}
    MobileOf <- SmallMobileOf
    Flagged = {flagged}
    LockedAtStart = {unreached}
    MPIN_LOCK_THRESHOLD = 5
    MPIN_MAX_ATTEMPTS = 3
    OTP_MAX_VERIFY_ATTEMPTS = 3
    OTP_MAX_RESENDS = 3
    IDENTIFICATION_MAX_ATTEMPTS = 2
    SOFT_REPROMPT_MAX = 2
INVARIANTS
    TypeOK
    EarnedTier
    ChallengeFitsCustomer
    OtpGuessBudget
    PromptMatchesStage
    LockAtThreshold
PROPERTIES
    EveryTurnSpends
    EveryFlowConcludes
    ImplementsPolicy
