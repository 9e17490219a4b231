---------------------------- MODULE SpokenInputMC ----------------------------
(***************************************************************************)
(* A vocabulary small enough to try every sentence: a spoken digit, a      *)
(* numeral of one and one of three digits, a stop word, words that belong  *)
(* to one intent, to another and to both, the words of one command, the    *)
(* phrase of another, once inside a longer word, and a yes and a no.       *)
(***************************************************************************)
EXTENDS SpokenInput

Vocabulary == {"four", "6", "456", "my", "address", "change", "statement",
               "agent", "repeat", "start", "overdraft", "no", "yes"}

\* "start over" is found in "start overdraft".
SmallBegins == [w \in Vocabulary |-> IF w = "overdraft" THEN {w, "over"} ELSE {w}]
SmallEnds == [w \in Vocabulary |-> {w}]

SmallDigits == [w \in Vocabulary |->
    CASE w = "four" -> <<4>>
      [] w = "6" -> <<6>>
      [] w = "456" -> <<4, 5, 6>>
      [] OTHER -> <<>>]

SmallCatalog == <<"statement_request", "change_of_address", "kyc_update">>

SmallIdWords == [i \in Range(SmallCatalog) |->
    CASE i = "statement_request" -> {"statement", "my"}
      [] i = "change_of_address" -> {"address", "change"}
      [] i = "kyc_update" -> {}]

SmallSynonyms == [i \in {"kyc_update", "hotlist_card"} |-> {"change"}]

SmallTriggerWords == [m \in Range(CommandOrder) |->
    CASE m = "ESCALATE_TO_CSR" -> {"agent"} [] m = "REPEAT" -> {"repeat"} [] OTHER -> {}]

SmallTriggerPhrases == [m \in Range(CommandOrder) |->
    IF m = "START_OVER" THEN {<<"start", "over">>} ELSE {}]
=============================================================================
