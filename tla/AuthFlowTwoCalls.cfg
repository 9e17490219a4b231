SPECIFICATION FairSpec
CONSTANTS
    ordinary = ordinary
    flagged = flagged
    unreached = unreached
    home = home
    other = other
    NoCif = NoCif
    NoMobile = NoMobile
    Calls = {c1, c2}
    Customers = {ordinary}
    Mobiles = {home, other}
    MobileOf <- OneMobileOf
    Flagged = {}
    LockedAtStart = {}
    MPIN_LOCK_THRESHOLD = 3
    MPIN_MAX_ATTEMPTS = 2
    OTP_MAX_VERIFY_ATTEMPTS = 2
    OTP_MAX_RESENDS = 1
    IDENTIFICATION_MAX_ATTEMPTS = 1
    SOFT_REPROMPT_MAX = 0
INVARIANTS
    LockAtThreshold
    EarnedTier
PROPERTIES
    LockIsFinal
