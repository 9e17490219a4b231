SPECIFICATION FairAgentsSpec
CONSTANTS
    asha = asha
    bharat = bharat
    lake = lake
    hill = hill
    NoCif = NoCif
    NoIntent = NoIntent
    NoAddress = NoAddress
    TierOf <- RealTiers
    Calls = {c1}
    Customers = {asha, bharat}
    Intents = {"balance_enquiry", "change_of_address", "kyc_update"}
    Addresses = {lake, hill}
    AGENT_SOFT_REPROMPT_MAX = 2
    MAX_SERVICE_REQUESTS_PER_CALL = 3
INVARIANTS
    AgentsTypeOK
    OnlyConfirmedRequests
    RequestLimit
    InputIsExpected
PROPERTIES
    EveryAnswerCosts
    AgentConcludes
