SPECIFICATION CliSpec
CONSTANTS
    asha = asha
    bharat = bharat
    home = home
    other = other
    lake = lake
    hill = hill
    NoCif = NoCif
    NoMobile = NoMobile
    NoIntent = NoIntent
    NoAddress = NoAddress
    Calls = {c1}
    Customers = {asha, bharat}
    Mobiles = {home, other}
    MobileOf <- LineMobileOf
    Flagged = {}
    LockedAtStart = {}
    MPIN_LOCK_THRESHOLD = 2
    MPIN_MAX_ATTEMPTS = 1
    OTP_MAX_VERIFY_ATTEMPTS = 1
    OTP_MAX_RESENDS = 1
    IDENTIFICATION_MAX_ATTEMPTS = 2
    SOFT_REPROMPT_MAX = 1
    Intents = {"balance_enquiry", "change_of_address"}
    TierOf <- LineTiers
    INTENT_NO_MATCH_MAX = 1
    INTENT_SOFT_REPROMPT_MAX = 0
    Addresses = {lake}
    AGENT_SOFT_REPROMPT_MAX = 0
    MAX_SERVICE_REQUESTS_PER_CALL = 1
INVARIANTS
    HarnessSurvives
