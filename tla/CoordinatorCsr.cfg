SPECIFICATION CallSpec
CONSTANTS
    ordinary = ordinary
    neighbour = neighbour
    flagged = flagged
    home = home
    other = other
    NoCif = NoCif
    NoMobile = NoMobile
    NoIntent = NoIntent
    Calls = {c1}
    Customers = {ordinary, neighbour, flagged}
    Mobiles = {home, other}
    MobileOf <- CallMobileOf
    Flagged = {flagged}
    LockedAtStart = {}
    MPIN_LOCK_THRESHOLD = 2
    MPIN_MAX_ATTEMPTS = 1
    OTP_MAX_VERIFY_ATTEMPTS = 2
    OTP_MAX_RESENDS = 1
    IDENTIFICATION_MAX_ATTEMPTS = 1
    SOFT_REPROMPT_MAX = 0
    Intents = {"branch_hours", "balance_enquiry", "hotlist_card"}
    TierOf <- CatalogTiers
    INTENT_NO_MATCH_MAX = 2
    INTENT_SOFT_REPROMPT_MAX = 1
INVARIANTS
    CsrKnowsCaller
