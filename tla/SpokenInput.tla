----------------------------- MODULE SpokenInput -----------------------------
(***************************************************************************)
(* The pure functions between the words Twilio recognised and the flows:   *)
(* telephony/digit_normalizer.py, which finds the digits in a sentence,    *)
(* the word tests of shared/global_commands.py and _parse_yes_no, and the  *)
(* classifiers of coordinator/: by keywords, by a model, and the one that  *)
(* falls back from the latter to the former. A word is told apart from     *)
(* others by what the code asks of it: the digits it stands for, one for a *)
(* word like "four", several for a numeral, none for any other; whether it *)
(* is listed somewhere; and, because phrases are looked for as substrings, *)
(* which words it begins or ends with. Lower-casing and punctuation are    *)
(* settled before.                                                         *)
(***************************************************************************)
EXTENDS Naturals, Sequences, SequencesExt, FiniteSets

CONSTANTS
    Words,
    BeginsWith, EndsWith,   \* word -> the words it begins with and ends with, itself too
    DigitsOf,             \* word -> the digits it stands for, <<>> for none
    Numerals,             \* the words for which str.isdigit holds
    Stopwords,
    Catalog,              \* the intents of the tier map, in its order
    IdWords,              \* intent -> the words of its id
    Synonyms,             \* intent -> DEFAULT_SYNONYMS, for more intents than the map may have
    TriggerWords,         \* command -> the words that give it
    TriggerPhrases,       \* command -> the phrases that give it, as sequences of words
    DoneWords, DonePhrases,
    YesWords, NoWords,
    ForeignIntents,       \* intent ids that are not in the tier map
    NoIntent,
    MAX_WORDS             \* bound on the length of an utterance

\* In the order in which they are looked for.
CommandOrder == <<"ESCALATE_TO_CSR", "START_OVER", "REPEAT">>

ASSUME WordAssumption ==
    /\ DigitsOf \in [Words -> Seq(0..9)]
    /\ Numerals \subseteq {w \in Words : DigitsOf[w] # <<>>}
    /\ \A w \in Words : w \in BeginsWith[w] \cap EndsWith[w]
    /\ Range(CommandOrder) = DOMAIN TriggerWords
    /\ DOMAIN TriggerPhrases = DOMAIN TriggerWords
    /\ \A list \in Range(TriggerPhrases) \cup {DonePhrases} :
          \A p \in list : p \in Seq(Range(p)) /\ Len(p) >= 2
    /\ Catalog \in Seq(Range(Catalog))
    /\ NoIntent \notin Range(Catalog) \cup ForeignIntents
    /\ ForeignIntents \cap Range(Catalog) = {}
    /\ MAX_WORDS \in Nat

VARIABLE text             \* the words recognised so far

-----------------------------------------------------------------------------
\* Plausible bug: of two runs of the same length the first is kept.
EarlierLonger(best, run) == IF Len(run) > Len(best) THEN run ELSE best

\* The choice between runs: the longest, and the last of those.
LaterLonger(best, run) == IF Len(run) >= Len(best) THEN run ELSE best

\* One turn of the loop over the words: digits extend the current run, any other
\* word closes it.
ScanWord(acc, w) ==
    IF DigitsOf[w] # <<>> THEN [acc EXCEPT !.current = @ \o DigitsOf[w]]
    ELSE IF acc.current # <<>>
    THEN [runs |-> Append(acc.runs, acc.current), current |-> <<>>]
    ELSE acc

\* What the loop has collected after n words.
Scanned(words) ==
    LET acc[n \in 0..Len(words)] ==
            IF n = 0 THEN [runs |-> <<>>, current |-> <<>>] ELSE ScanWord(acc[n - 1], words[n])
    IN  acc

\* A run that is not closed by a word is closed by the end.
Runs(words) ==
    LET end == Scanned(words)[Len(words)]
    IN  IF end.current # <<>> THEN Append(end.runs, end.current) ELSE end.runs

\* The best of the first k runs.
BestRun(runs) ==
    LET best[k \in 0..Len(runs)] == IF k = 0 THEN <<>> ELSE LaterLonger(best[k - 1], runs[k])
    IN  best

\* The digits that the words from first to n stand for, together.
DigitsFrom(words, first) ==
    LET said[n \in 0..Len(words)] ==
            IF n < first THEN <<>> ELSE said[n - 1] \o DigitsOf[words[n]]
    IN  said

\* normalize_spoken_digits: nothing but numerals is taken as one number.
NormalizeSpokenDigits(words) ==
    IF words # <<>> /\ \A i \in DOMAIN words : words[i] \in Numerals
    THEN DigitsFrom(words, 1)[Len(words)]
    ELSE BestRun(Runs(words))[Len(Runs(words))]

-----------------------------------------------------------------------------
\* KeywordIntentClassifier.__init__: the words of the id and the synonyms.
Keywords(i) ==
    (IdWords[i] \cup IF i \in DOMAIN Synonyms THEN Synonyms[i] ELSE {}) \ Stopwords

Heard(words) == Range(words) \ Stopwords

Score(words, i) == Cardinality(Heard(words) \cap Keywords(i))

\* Plausible bug: a later intent with the same score replaces an earlier one.
LaterBetter(words, best, i) ==
    IF Score(words, i) >= best.score THEN [intent |-> i, score |-> Score(words, i)] ELSE best

\* One turn of the loop over the catalog.
Better(words, best, i) ==
    IF Score(words, i) > best.score THEN [intent |-> i, score |-> Score(words, i)] ELSE best

\* The best of the first n intents.
BestIntent(words) ==
    LET best[n \in 0..Len(Catalog)] ==
            IF n = 0 THEN [intent |-> NoIntent, score |-> 0]
            ELSE Better(words, best[n - 1], Catalog[n])
    IN  best

\* KeywordIntentClassifier.classify
Classify(words) == BestIntent(words)[Len(Catalog)].intent

-----------------------------------------------------------------------------
\* What the request to the model may come to: it fails (no answer in time, an error,
\* text that is not a JSON object, an id that cannot even be looked up), or it
\* names nothing, an intent, or something that is none.
Failure == "raises"
ModelAnswers == {Failure, NoIntent} \cup Range(Catalog) \cup ForeignIntents

\* Plausible bug: the model is trusted to name an intent of the catalog.
TrustingLlmClassify(words, m) ==
    IF words = <<>> \/ m = NoIntent THEN NoIntent ELSE m

\* LLMIntentClassifier.classify: nothing said needs no model, and an id that is not
\* in the tier map is none.
LlmClassify(words, m) ==
    IF words = <<>> THEN NoIntent
    ELSE IF m \in {Failure} \cup Range(Catalog) THEN m ELSE NoIntent

\* FallbackIntentClassifier.classify
FallbackClassify(words, m) ==
    IF LlmClassify(words, m) = Failure THEN Classify(words) ELSE LlmClassify(words, m)

\* build_intent_classifier: without a key, keywords only.
ClassifyIntent(hasKey, words, m) == IF hasKey THEN FallbackClassify(words, m) ELSE Classify(words)

-----------------------------------------------------------------------------
\* phrase in normalized: a substring, which may begin and end within words.
Holds(words, phrase) ==
    \E at \in 0..Len(words) - Len(phrase) :
        \A j \in DOMAIN phrase :
            phrase[j] \in CASE j = 1 -> EndsWith[words[at + j]]
                            [] j = Len(phrase) -> BeginsWith[words[at + j]]
                            [] OTHER -> {words[at + j]}

HoldsAny(words, list, phrases) ==
    Range(words) \cap list # {} \/ \E p \in phrases : Holds(words, p)

Gives(words, m) == HoldsAny(words, TriggerWords[m], TriggerPhrases[m])

\* Plausible bug: the command that was said last wins.
LastSaidCommand(words) ==
    LET given(n) == SelectSeq(CommandOrder, LAMBDA m : Gives(SubSeq(words, 1, n), m))
        latest == {m \in Range(given(Len(words))) :
                      Len(words) > 0 /\ m \notin Range(given(Len(words) - 1))}
    IN  IF latest # {} THEN CHOOSE m \in latest : TRUE
        ELSE IF given(Len(words)) = <<>> THEN "NONE" ELSE Last(given(Len(words)))

\* detect_global_command: the three are looked for in a fixed order.
DetectGlobalCommand(words) ==
    IF Gives(words, "ESCALATE_TO_CSR") THEN "ESCALATE_TO_CSR"
    ELSE IF Gives(words, "START_OVER") THEN "START_OVER"
    ELSE IF Gives(words, "REPEAT") THEN "REPEAT" ELSE "NONE"

IsNoFurtherHelpNeeded(words) == HoldsAny(words, DoneWords, DonePhrases)

\* Plausible bug: a no is looked for only where there is no yes.
YesFirst(words) ==
    IF Range(words) \cap YesWords # {} THEN "yes"
    ELSE IF Range(words) \cap NoWords # {} THEN "no" ELSE "unclear"

\* _parse_yes_no: neither, and both, are no answer.
ParseYesNo(words) ==
    LET yes == Range(words) \cap YesWords # {}
        no == Range(words) \cap NoWords # {}
    IN  IF yes /\ ~no THEN "yes" ELSE IF no /\ ~yes THEN "no" ELSE "unclear"

-----------------------------------------------------------------------------
SpokenInit == text = <<>>

\* The recogniser hears one more word.
HearWord == Len(text) < MAX_WORDS /\ \E w \in Words : text' = Append(text, w)

\* A gather ends and the next one begins.
NextGather == text # <<>> /\ text' = <<>>

SpokenSpec == SpokenInit /\ [][HearWord \/ NextGather]_text

-----------------------------------------------------------------------------
\* The stretches of words that are all digits and cannot be made longer.
Stretches(words) ==
    {s \in (1..Len(words)) \X (1..Len(words)) :
        /\ s[1] <= s[2]
        /\ \A j \in s[1]..s[2] : DigitsOf[words[j]] # <<>>
        /\ s[1] > 1 => DigitsOf[words[s[1] - 1]] = <<>>
        /\ s[2] < Len(words) => DigitsOf[words[s[2] + 1]] = <<>>}

\* The digits found are those of one unbroken stretch of the sentence: no other
\* stretch has more of them, and none that comes later has as many; so a number
\* mentioned in passing, with a word in between, never gets mixed into the answer
\* (digit_normalizer.py).
DigitsAreOneStretch ==
    LET said(s) == DigitsFrom(text, s[1])[s[2]]
        found == NormalizeSpokenDigits(text)
    IN  IF Stretches(text) = {} THEN found = <<>>
        ELSE \E s \in Stretches(text) :
                /\ found = said(s)
                /\ \A o \in Stretches(text) :
                      /\ Len(said(o)) <= Len(said(s))
                      /\ o[1] > s[1] => Len(said(o)) < Len(said(s))

\* The classifier answers None only if no word it heard belongs to an intent;
\* otherwise an intent of the highest score, the one the catalog lists first.
ClassifiesTheBest ==
    LET found == Classify(text)
        score(i) == Score(text, Catalog[i])
    IN  IF found = NoIntent THEN \A i \in DOMAIN Catalog : score(i) = 0
        ELSE \E i \in DOMAIN Catalog :
                /\ found = Catalog[i] /\ score(i) > 0
                /\ \A j \in DOMAIN Catalog : score(j) <= score(i)
                /\ \A j \in 1..i - 1 : score(j) < score(i)

\* Whatever the model returns or fails to return, the classifier that is built
\* answers None or an intent of the tier map: the Service Agent hands it on without
\* a check of its own (service_agent.py 130) and _route would raise for any other.
\* And a failing model leaves the caller no worse off than one without a key.
AnswersAreRoutable ==
    \A hasKey \in BOOLEAN, m \in ModelAnswers :
        LET found == ClassifyIntent(hasKey, text, m) IN
        /\ found \in Range(Catalog) \cup {NoIntent}
        /\ m = Failure => found = Classify(text)

\* Going on to talk takes no command back: with every further word the command
\* found stays, or gives way to one that comes earlier in the order, up to the CSR.
Priority(m) == IF m = "NONE" THEN Len(CommandOrder) + 1 ELSE CHOOSE n \in DOMAIN CommandOrder : CommandOrder[n] = m

CommandsStand ==
    [][IsPrefix(text, text') =>
          /\ Priority(DetectGlobalCommand(text')) <= Priority(DetectGlobalCommand(text))
          /\ IsNoFurtherHelpNeeded(text) => IsNoFurtherHelpNeeded(text')]_text

\* No words turn a yes into a no or a no into a yes within an answer, and once it
\* holds both it stays unclear: a request is never filed on half of what was said.
AnswersNeverFlip ==
    [][IsPrefix(text, text') =>
          LET before == ParseYesNo(text)
              after == ParseYesNo(text')
          IN  /\ before # "unclear" => after \in {before, "unclear"}
              /\ Range(text) \cap YesWords # {} /\ Range(text) \cap NoWords # {} => after = "unclear"]_text
=============================================================================
