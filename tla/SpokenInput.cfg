SPECIFICATION SpokenSpec
CONSTANTS
    NoIntent = NoIntent
    Words <- Vocabulary
    BeginsWith <- SmallBegins
    EndsWith <- SmallEnds
    DigitsOf <- SmallDigits
    Numerals = {"6", "456"}
    Stopwords = {"my"}
    Catalog <- SmallCatalog
    IdWords <- SmallIdWords
    Synonyms <- SmallSynonyms
    TriggerWords <- SmallTriggerWords
    TriggerPhrases <- SmallTriggerPhrases
    DoneWords = {"no"}
    DonePhrases = {}
    YesWords = {"yes"}
    NoWords = {"no"}
    ForeignIntents = {"hotlist_card"}
    MAX_WORDS = 5
INVARIANTS
    DigitsAreOneStretch
    ClassifiesTheBest
    AnswersAreRoutable
PROPERTIES
    CommandsStand
    AnswersNeverFlip
