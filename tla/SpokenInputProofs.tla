--------------------------- MODULE SpokenInputProofs ---------------------------
(***************************************************************************)
(* Theorems about SpokenInput for every vocabulary, every catalog, every   *)
(* list of trigger words and phrases, and sentences of any length: what a  *)
(* caller adds to an answer takes nothing back, the digits found are those *)
(* of one stretch of the sentence, and the intent found is the best one.   *)
(***************************************************************************)
EXTENDS SpokenInput, SequenceTheorems, FiniteSetTheorems, WellFoundedInduction, TLAPS

-----------------------------------------------------------------------------
(***************************************************************************)
(* Induction, over sets of numbers: the least number that is not in the    *)
(* set would have a predecessor that is. And what it gives for the loops   *)
(* of the code, which are recursive functions here: that there is one.     *)
(***************************************************************************)
\* Induction.
LEMMA Induct ==
    ASSUME NEW T, 0 \in T, \A n \in Nat : n \in T => n + 1 \in T
    PROVE  Nat \subseteq T
<1> DEFINE less == OpToRel(<, Nat)
           rest == Nat \ T
<1> SUFFICES ASSUME rest # {} PROVE FALSE
  OBVIOUS
<1>1. PICK x \in rest : \A y \in rest : <<y, x>> \notin less
  <2>1. IsWellFoundedOn(less, Nat) /\ rest \subseteq Nat
    BY NatLessThanWellFounded
  <2> HIDE DEF less, rest
  <2> QED BY <2>1, WFMin
<1>2. x # 0 /\ x - 1 \in Nat /\ x - 1 \notin T
  OBVIOUS
<1>3. x - 1 < x
  OBVIOUS
<1>4. <<x - 1, x>> \in less
  BY <1>2, <1>3 DEF OpToRel
<1> QED BY <1>1, <1>2, <1>4

\* As far as a loop goes.
LEMMA InductUpTo ==
    ASSUME NEW N \in Nat, NEW T, 0 \in T, \A n \in 1..N : n - 1 \in T => n \in T
    PROVE  0..N \subseteq T
<1> DEFINE U == {n \in Nat : n <= N => n \in T}
<1>1. 0 \in U
  OBVIOUS
<1>2. ASSUME NEW n \in Nat, n \in U PROVE n + 1 \in U
  BY <1>2
<1>3. Nat \subseteq U
  <2> HIDE DEF U
  <2> QED BY <1>1, <1>2, Induct
<1> QED BY <1>3

\* The history of a loop of N turns: a base, and a next value for each turn.
History(g, N, T, base, next) ==
    g \in [0..N -> T] /\ g[0] = base /\ \A n \in 1..N : g[n] = next[n][g[n - 1]]

\* There is one.
LEMMA LoopRuns ==
    ASSUME NEW N \in Nat, NEW T, NEW base \in T, NEW next,
           \A n \in 1..N, t \in T : next[n][t] \in T
    PROVE  \E g : History(g, N, T, base, next)
<1> DEFINE Ran(g, m) == /\ g \in [0..N -> T] /\ g[0] = base
                        /\ \A n \in 1..N : n <= m => g[n] = next[n][g[n - 1]]
           U == {m \in 0..N : \E g : Ran(g, m)}
<1>1. 0 \in U
  <2> DEFINE g == [n \in 0..N |-> base]
  <2>1. Ran(g, 0)
    OBVIOUS
  <2> QED BY <2>1
<1>2. ASSUME NEW m \in 1..N, m - 1 \in U PROVE m \in U
  <2>1. PICK g : Ran(g, m - 1)
    BY <1>2
  <2> DEFINE h == [n \in 0..N |-> IF n = m THEN next[n][g[n - 1]] ELSE g[n]]
  <2>2. h \in [0..N -> T] /\ h[0] = base
    BY <2>1
  <2>3. \A n \in 1..N : n <= m => h[n] = next[n][h[n - 1]]
    BY <2>1
  <2>4. Ran(h, m)
    BY <2>2, <2>3
  <2> HIDE DEF h, Ran
  <2> QED BY <2>4
<1>3. N \in U
  <2>1. N \in 0..N
    OBVIOUS
  <2> HIDE DEF U
  <2> QED BY <1>1, <1>2, <2>1, InductUpTo
<1>4. PICK g : Ran(g, N)
  BY <1>3
<1> QED BY <1>4 DEF History

-----------------------------------------------------------------------------
(***************************************************************************)
(* The loop over the catalog.                                              *)
(***************************************************************************)
ScoreAt(words, i) == Score(words, Catalog[i])

\* A score counts words of a sentence, and sentences are finite.
LEMMA ScoresAreCounts ==
    ASSUME NEW words \in Seq(Words)
    PROVE  \A i : Score(words, i) \in Nat
<1>1. IsFiniteSet(Range(words))
  <2>1. Len(words) \in Nat /\ DOMAIN words = 1..Len(words)
    BY LenProperties
  <2>2. IsFiniteSet(DOMAIN words)
    BY <2>1, FS_Interval
  <2>3. words \in Surjection(DOMAIN words, Range(words))
    BY <2>1 DEF Surjection, Range
  <2> QED BY <2>2, <2>3, FS_Surjection
<1>2. ASSUME NEW i PROVE Score(words, i) \in Nat
  <2>1. Heard(words) \cap Keywords(i) \subseteq Range(words)
    BY DEF Heard
  <2> QED BY <1>1, <2>1, FS_Subset, FS_CardinalityType DEF Score
<1> QED BY <1>2

\* What the loop has found when it has seen n intents of the catalog.
LEMMA BestIntentTurns ==
    ASSUME NEW words \in Seq(Words)
    PROVE  /\ Len(Catalog) \in Nat
           /\ BestIntent(words)[0] = [intent |-> NoIntent, score |-> 0]
           /\ \A n \in 1..Len(Catalog) :
                 BestIntent(words)[n] = Better(words, BestIntent(words)[n - 1], Catalog[n])
<1> DEFINE N == Len(Catalog)
           base == [intent |-> NoIntent, score |-> 0]
           T == [intent : Range(Catalog) \cup {NoIntent}, score : Nat]
           next == [n \in 1..N |-> [t \in T |-> Better(words, t, Catalog[n])]]
           Is(f) == f = [n \in 0..N |-> IF n = 0 THEN base ELSE Better(words, f[n - 1], Catalog[n])]
<1>1. N \in Nat /\ \A n \in 1..N : Catalog[n] \in Range(Catalog)
  <2>1. N \in Nat /\ DOMAIN Catalog = 1..N
    BY WordAssumption, LenProperties
  <2> QED BY <2>1 DEF Range
<1>2. base \in T
  OBVIOUS
<1>3. \A n \in 1..N : \A t \in T : Better(words, t, Catalog[n]) \in T
  BY <1>1, ScoresAreCounts DEF Better
<1>4. \A n \in 1..N : \A t \in T : next[n][t] = Better(words, t, Catalog[n])
  <2> HIDE DEF T
  <2> QED OBVIOUS
<1> HIDE DEF next, N, T
<1>5. PICK g : History(g, N, T, base, next)
  <2> HIDE DEF base
  <2>1. \A n \in 1..N, t \in T : next[n][t] \in T
    BY <1>3, <1>4
  <2> QED BY <1>1, <1>2, <2>1, LoopRuns
<1>6. Is(g)
  <2>1. ASSUME NEW n \in 1..N PROVE g[n] = Better(words, g[n - 1], Catalog[n])
    <3>1. n - 1 \in 0..N /\ g[n - 1] \in T
      BY <1>1, <1>5 DEF History
    <3> QED BY <1>4, <1>5, <3>1 DEF History
  <2> HIDE DEF base
  <2>2. \A n \in 0..N : g[n] = IF n = 0 THEN base ELSE Better(words, g[n - 1], Catalog[n])
    BY <1>1, <1>5, <2>1 DEF History
  <2> QED BY <1>5, <2>2 DEF History
<1>7. Is(CHOOSE f : Is(f))
  <2> HIDE DEF Is
  <2> QED BY <1>6
<1>8. Is(BestIntent(words))
  BY <1>7 DEF BestIntent, N
<1> QED BY <1>1, <1>8 DEF N

\* Of the first n intents it is the best that comes first, if any has a score.
BestOfFirst(words, best, n) ==
    /\ best.score \in Nat
    /\ \/ best.intent = NoIntent /\ best.score = 0 /\ \A i \in 1..n : ScoreAt(words, i) = 0
       \/ \E i \in 1..n :
             /\ best.intent = Catalog[i] /\ best.score = ScoreAt(words, i) /\ best.score > 0
             /\ \A j \in 1..n : ScoreAt(words, j) <= best.score
             /\ \A j \in 1..i - 1 : ScoreAt(words, j) < best.score

\* So it is after the last one.
LEMMA BestIntentIsBest ==
    ASSUME NEW words \in Seq(Words)
    PROVE  BestOfFirst(words, BestIntent(words)[Len(Catalog)], Len(Catalog))
<1> DEFINE N == Len(Catalog)
           best == BestIntent(words)
           T == {n \in 0..N : BestOfFirst(words, best[n], n)}
<1>1. /\ N \in Nat
      /\ best[0] = [intent |-> NoIntent, score |-> 0]
      /\ \A n \in 1..N : best[n] = Better(words, best[n - 1], Catalog[n])
  BY BestIntentTurns
<1>2. \A i \in 1..N : ScoreAt(words, i) \in Nat
  BY ScoresAreCounts DEF ScoreAt
<1> HIDE DEF N, best
<1>3. 0 \in T
  BY <1>1 DEF BestOfFirst
<1>4. ASSUME NEW n \in 1..N, n - 1 \in T PROVE n \in T
  <2>1. BestOfFirst(words, best[n - 1], n - 1)
    BY <1>4
  <2>2. CASE ScoreAt(words, n) > best[n - 1].score
    <3>1. best[n].intent = Catalog[n] /\ best[n].score = ScoreAt(words, n)
      <4>1. best[n] = Better(words, best[n - 1], Catalog[n])
        BY <1>1
      <4>2. best[n] = [intent |-> Catalog[n], score |-> ScoreAt(words, n)]
        BY <4>1, <2>2 DEF Better, ScoreAt
      <4> QED BY <4>2
    <3>2. \A j \in 1..n - 1 : ScoreAt(words, j) <= best[n - 1].score
      BY <1>2, <2>1 DEF BestOfFirst
    <3>3. \A j \in 1..n - 1 : ScoreAt(words, j) < ScoreAt(words, n)
      BY <1>1, <1>2, <2>1, <2>2, <3>2 DEF BestOfFirst
    <3>4. best[n - 1].score \in Nat /\ ScoreAt(words, n) \in Nat
      BY <1>2, <2>1 DEF BestOfFirst
    <3>5. \A j \in 1..n : ScoreAt(words, j) <= ScoreAt(words, n)
      BY <1>1, <1>2, <3>3, <3>4
    <3>6. n \in 1..n /\ ScoreAt(words, n) > 0
      BY <2>2, <3>4
    <3>7. BestOfFirst(words, best[n], n)
      BY <3>1, <3>3, <3>4, <3>5, <3>6 DEF BestOfFirst
    <3> QED BY <1>1, <3>7
  <2>3. CASE ~(ScoreAt(words, n) > best[n - 1].score)
    <3>1. best[n] = best[n - 1]
      BY <1>1, <2>3 DEF Better, ScoreAt
    <3>2. ScoreAt(words, n) <= best[n - 1].score
      BY <1>1, <1>2, <2>1, <2>3 DEF BestOfFirst
    <3>3. best[n - 1].score \in Nat /\ ScoreAt(words, n) \in Nat
      BY <1>2, <2>1 DEF BestOfFirst
    <3>4. CASE /\ best[n - 1].intent = NoIntent /\ best[n - 1].score = 0
               /\ \A i \in 1..n - 1 : ScoreAt(words, i) = 0
      <4>1. \A i \in 1..n : ScoreAt(words, i) = 0
        BY <3>2, <3>3, <3>4
      <4>2. BestOfFirst(words, best[n], n)
        BY <3>1, <3>3, <3>4, <4>1 DEF BestOfFirst
      <4> QED BY <1>1, <4>2
    <3>5. CASE \E i \in 1..n - 1 :
                  /\ best[n - 1].intent = Catalog[i] /\ best[n - 1].score = ScoreAt(words, i)
                  /\ best[n - 1].score > 0
                  /\ \A j \in 1..n - 1 : ScoreAt(words, j) <= best[n - 1].score
                  /\ \A j \in 1..i - 1 : ScoreAt(words, j) < best[n - 1].score
      <4>1. PICK i \in 1..n - 1 :
                  /\ best[n - 1].intent = Catalog[i] /\ best[n - 1].score = ScoreAt(words, i)
                  /\ best[n - 1].score > 0
                  /\ \A j \in 1..n - 1 : ScoreAt(words, j) <= best[n - 1].score
                  /\ \A j \in 1..i - 1 : ScoreAt(words, j) < best[n - 1].score
        BY <3>5
      <4>2. i \in 1..n /\ \A j \in 1..n : ScoreAt(words, j) <= best[n - 1].score
        BY <3>2, <4>1
      <4>3. BestOfFirst(words, best[n], n)
        BY <3>1, <3>3, <4>1, <4>2 DEF BestOfFirst
      <4> QED BY <1>1, <4>3
    <3> HIDE DEF T
    <3> QED BY <2>1, <3>4, <3>5 DEF BestOfFirst
  <2> QED BY <2>2, <2>3
<1>5. N \in T
  <2>1. N \in 0..N
    BY <1>1
  <2> HIDE DEF T
  <2> QED BY <1>1, <1>3, <1>4, <2>1, InductUpTo
<1> QED BY <1>5 DEF N, best

-----------------------------------------------------------------------------
(***************************************************************************)
(* The loops over the words and over the runs.                             *)
(***************************************************************************)
Digits == Seq(0..9)
IsDigits(words, n) == DigitsOf[words[n]] # <<>>

\* A word stands for digits, if only for none.
LEMMA WordsHaveDigits ==
    ASSUME NEW words \in Seq(Words)
    PROVE  Len(words) \in Nat /\ \A n \in 1..Len(words) : DigitsOf[words[n]] \in Digits
<1>1. Len(words) \in Nat /\ \A n \in 1..Len(words) : words[n] \in Words
  BY LenProperties, ElementOfSeq
<1> QED BY <1>1, WordAssumption DEF Digits

\* The digits of a stretch that begins at first.
LEMMA DigitsFromTurns ==
    ASSUME NEW words \in Seq(Words), NEW first \in Nat, first >= 1
    PROVE  /\ DigitsFrom(words, first) \in [0..Len(words) -> Digits]
           /\ \A n \in 0..Len(words) :
                 DigitsFrom(words, first)[n] =
                    IF n < first THEN <<>> ELSE DigitsFrom(words, first)[n - 1] \o DigitsOf[words[n]]
<1> DEFINE N == Len(words)
           base == <<>>
           Turn(t, n) == IF n < first THEN <<>> ELSE t \o DigitsOf[words[n]]
           next == [n \in 1..N |-> [t \in Digits |-> Turn(t, n)]]
           Is(f) == f = [n \in 0..N |-> IF n < first THEN <<>> ELSE f[n - 1] \o DigitsOf[words[n]]]
<1>1. N \in Nat /\ base \in Digits
  BY WordsHaveDigits, EmptySeq DEF Digits
<1>2. \A n \in 1..N : \A t \in Digits : Turn(t, n) \in Digits
  BY <1>1, WordsHaveDigits, ConcatProperties DEF Digits
<1>3. \A n \in 1..N : \A t \in Digits : next[n][t] = Turn(t, n)
  <2> HIDE DEF Turn
  <2> QED OBVIOUS
<1> HIDE DEF next, N
<1>4. PICK g : History(g, N, Digits, base, next)
  <2>1. \A n \in 1..N, t \in Digits : next[n][t] \in Digits
    BY <1>2, <1>3
  <2> HIDE DEF base
  <2> QED BY <1>1, <2>1, LoopRuns
<1>5. Is(g)
  <2>1. ASSUME NEW n \in 1..N PROVE g[n] = Turn(g[n - 1], n)
    <3>1. n - 1 \in 0..N /\ g[n - 1] \in Digits
      BY <1>1, <1>4 DEF History
    <3> HIDE DEF Turn
    <3> QED BY <1>3, <1>4, <3>1 DEF History
  <2>2. g[0] = Turn(g[0 - 1], 0)
    BY <1>4 DEF History
  <2>3. \A n \in 0..N : g[n] = Turn(g[n - 1], n)
    <3> HIDE DEF Turn
    <3> QED BY <1>1, <2>1, <2>2
  <2>4. \A n \in 0..N : g[n] = IF n < first THEN <<>> ELSE g[n - 1] \o DigitsOf[words[n]]
    BY <2>3, Zenon
  <2> QED BY <1>4, <2>4 DEF History
<1>6. Is(CHOOSE f : Is(f))
  <2> HIDE DEF Is
  <2> QED BY <1>5
<1>7. Is(DigitsFrom(words, first))
  BY <1>6 DEF DigitsFrom, N
<1> DEFINE said == DigitsFrom(words, first)
           Well == {n \in 0..N : said[n] \in Digits}
<1> HIDE DEF said
<1>8. /\ said = [n \in 0..N |-> said[n]]
      /\ \A n \in 0..N : said[n] = IF n < first THEN <<>> ELSE said[n - 1] \o DigitsOf[words[n]]
  BY <1>7 DEF said
<1>9. 0..N \subseteq Well
  <2>1. 0 \in Well
    BY <1>1, <1>8
  <2>2. ASSUME NEW n \in 1..N, n - 1 \in Well PROVE n \in Well
    <3>1. n \in 0..N /\ said[n - 1] \in Digits
      BY <1>1, <2>2
    <3>2. said[n] = Turn(said[n - 1], n)
      BY <1>8, <3>1, Zenon
    <3> HIDE DEF Turn
    <3> QED BY <1>2, <3>1, <3>2
  <2> HIDE DEF Well
  <2> QED BY <1>1, <2>1, <2>2, InductUpTo
<1> QED BY <1>8, <1>9 DEF said, N

\* What the loop over the words has collected, word by word.
LEMMA ScannedTurns ==
    ASSUME NEW words \in Seq(Words)
    PROVE  /\ Scanned(words)[0] = [runs |-> <<>>, current |-> <<>>]
           /\ \A n \in 1..Len(words) : Scanned(words)[n] = ScanWord(Scanned(words)[n - 1], words[n])
           /\ \A n \in 0..Len(words) : Scanned(words)[n] \in [runs : Seq(Digits), current : Digits]
<1> DEFINE N == Len(words)
           T == [runs : Seq(Digits), current : Digits]
           base == [runs |-> <<>>, current |-> <<>>]
           next == [n \in 1..N |-> [t \in T |-> ScanWord(t, words[n])]]
           Is(f) == f = [n \in 0..N |-> IF n = 0 THEN base ELSE ScanWord(f[n - 1], words[n])]
<1>1. N \in Nat /\ base \in T
  BY WordsHaveDigits, EmptySeq DEF Digits
<1>2. ASSUME NEW n \in 1..N, NEW t \in T PROVE ScanWord(t, words[n]) \in T
  <2>1. t.current \in Digits /\ t.runs \in Seq(Digits) /\ DigitsOf[words[n]] \in Digits
    BY WordsHaveDigits
  <2>2. t.current \o DigitsOf[words[n]] \in Digits
    BY <2>1, ConcatProperties DEF Digits
  <2>3. Append(t.runs, t.current) \in Seq(Digits) /\ <<>> \in Digits
    BY <2>1, AppendProperties, EmptySeq DEF Digits
  <2> HIDE DEF N
  <2> QED BY <2>1, <2>2, <2>3 DEF ScanWord
<1>3. \A n \in 1..N : \A t \in T : next[n][t] = ScanWord(t, words[n])
  <2> HIDE DEF T
  <2> QED OBVIOUS
<1> HIDE DEF next, N, T
<1>4. PICK g : History(g, N, T, base, next)
  <2>1. \A n \in 1..N, t \in T : next[n][t] \in T
    BY <1>2, <1>3
  <2> HIDE DEF base
  <2> QED BY <1>1, <2>1, LoopRuns
<1>5. Is(g)
  <2>1. ASSUME NEW n \in 1..N PROVE g[n] = ScanWord(g[n - 1], words[n])
    <3>1. n - 1 \in 0..N /\ g[n - 1] \in T
      BY <1>1, <1>4 DEF History
    <3> QED BY <1>3, <1>4, <3>1 DEF History
  <2> HIDE DEF base
  <2>2. \A n \in 0..N : g[n] = IF n = 0 THEN base ELSE ScanWord(g[n - 1], words[n])
    BY <1>1, <1>4, <2>1 DEF History
  <2> QED BY <1>4, <2>2 DEF History
<1>6. Is(CHOOSE f : Is(f))
  <2> HIDE DEF Is
  <2> QED BY <1>5
<1>7. Is(Scanned(words))
  BY <1>6 DEF Scanned, N
<1> DEFINE acc == Scanned(words)
           Well == {n \in 0..N : acc[n] \in T}
<1> HIDE DEF acc
<1>8. acc[0] = base /\ \A n \in 1..N : acc[n] = ScanWord(acc[n - 1], words[n])
  <2> HIDE DEF base
  <2> QED BY <1>1, <1>7 DEF acc
<1>9. 0..N \subseteq Well
  <2>1. 0 \in Well
    BY <1>1, <1>8
  <2>2. ASSUME NEW n \in 1..N, n - 1 \in Well PROVE n \in Well
    BY <1>1, <1>2, <1>8, <2>2
  <2> HIDE DEF Well
  <2> QED BY <1>1, <2>1, <2>2, InductUpTo
<1> QED BY <1>8, <1>9 DEF acc, N, T

\* The best of some runs: the longest, and the last of those.
BestOfRuns(runs, best, n) ==
    IF n = 0 THEN best = <<>>
    ELSE \E k \in 1..n :
            /\ best = runs[k]
            /\ \A l \in 1..n : Len(runs[l]) <= Len(best)
            /\ \A l \in k + 1..n : Len(runs[l]) < Len(best)

\* It is what the loop over the runs finds.
LEMMA BestRunIsBest ==
    ASSUME NEW runs \in Seq(Digits)
    PROVE  Len(runs) \in Nat /\ BestOfRuns(runs, BestRun(runs)[Len(runs)], Len(runs))
<1> DEFINE N == Len(runs)
           next == [n \in 1..N |-> [t \in Digits |-> LaterLonger(t, runs[n])]]
           Is(f) == f = [n \in 0..N |-> IF n = 0 THEN <<>> ELSE LaterLonger(f[n - 1], runs[n])]
<1>1. N \in Nat /\ <<>> \in Digits /\ \A n \in 1..N : runs[n] \in Digits
  BY LenProperties, ElementOfSeq, EmptySeq DEF Digits
<1>2. \A n \in 1..N : \A t \in Digits : LaterLonger(t, runs[n]) \in Digits
  BY <1>1 DEF LaterLonger
<1>3. \A n \in 1..N : \A t \in Digits : next[n][t] = LaterLonger(t, runs[n])
  OBVIOUS
<1> HIDE DEF next, N
<1>4. PICK g : History(g, N, Digits, <<>>, next)
  <2>1. \A n \in 1..N, t \in Digits : next[n][t] \in Digits
    BY <1>2, <1>3
  <2> QED BY <1>1, <2>1, LoopRuns
<1>5. Is(g)
  <2>1. ASSUME NEW n \in 1..N PROVE g[n] = LaterLonger(g[n - 1], runs[n])
    <3>1. n - 1 \in 0..N /\ g[n - 1] \in Digits
      BY <1>1, <1>4 DEF History
    <3> QED BY <1>3, <1>4, <3>1 DEF History
  <2>2. \A n \in 0..N : g[n] = IF n = 0 THEN <<>> ELSE LaterLonger(g[n - 1], runs[n])
    BY <1>1, <1>4, <2>1 DEF History
  <2> QED BY <1>4, <2>2 DEF History
<1>6. Is(CHOOSE f : Is(f))
  <2> HIDE DEF Is
  <2> QED BY <1>5
<1>7. Is(BestRun(runs))
  BY <1>6 DEF BestRun, N
<1> DEFINE best == BestRun(runs)
           T == {n \in 0..N : best[n] \in Digits /\ BestOfRuns(runs, best[n], n)}
<1> HIDE DEF best
<1>8. best[0] = <<>> /\ \A n \in 1..N : best[n] = LaterLonger(best[n - 1], runs[n])
  BY <1>1, <1>7 DEF best
<1>9. 0 \in T
  BY <1>1, <1>8 DEF BestOfRuns
<1>10. ASSUME NEW n \in 1..N, n - 1 \in T PROVE n \in T
  <2>1. BestOfRuns(runs, best[n - 1], n - 1) /\ best[n - 1] \in Digits
    BY <1>10
  <2>2. Len(best[n - 1]) \in Nat /\ \A l \in 1..N : Len(runs[l]) \in Nat
    BY <1>1, <2>1, LenProperties DEF Digits
  <2>3. best[n] = LaterLonger(best[n - 1], runs[n]) /\ best[n] \in Digits
    BY <1>2, <1>8, <2>1
  <2>4. n - 1 # 0 => \A l \in 1..n - 1 : Len(runs[l]) <= Len(best[n - 1])
    BY <2>1 DEF BestOfRuns
  <2>5. CASE Len(runs[n]) >= Len(best[n - 1])
    <3>1. best[n] = runs[n]
      BY <2>3, <2>5 DEF LaterLonger
    <3>2. \A l \in 1..n : Len(runs[l]) <= Len(runs[n])
      BY <1>1, <2>2, <2>4, <2>5
    <3>3. n \in 1..n /\ n # 0 /\ \A l \in n + 1..n : Len(runs[l]) < Len(runs[n])
      BY <1>1
    <3>4. BestOfRuns(runs, best[n], n)
      BY <3>1, <3>2, <3>3 DEF BestOfRuns
    <3> QED BY <1>1, <2>3, <3>4
  <2>6. CASE ~(Len(runs[n]) >= Len(best[n - 1]))
    <3>1. best[n] = best[n - 1] /\ Len(runs[n]) < Len(best[n - 1])
      BY <1>1, <2>2, <2>3, <2>6 DEF LaterLonger
    <3>2. n - 1 # 0
      BY <1>1, <2>2, <2>1, <3>1, EmptySeq DEF BestOfRuns
    <3>3. PICK k \in 1..n - 1 :
             best[n] = runs[k] /\ \A l \in k + 1..n - 1 : Len(runs[l]) < Len(best[n])
      BY <2>1, <3>1, <3>2 DEF BestOfRuns
    <3>4. k \in 1..n /\ n # 0 /\ \A l \in 1..n : Len(runs[l]) <= Len(best[n])
      BY <1>1, <2>2, <2>4, <3>1, <3>2
    <3>5. \A l \in k + 1..n : Len(runs[l]) < Len(best[n])
      BY <1>1, <3>1, <3>3
    <3>6. BestOfRuns(runs, best[n], n)
      BY <3>3, <3>4, <3>5 DEF BestOfRuns
    <3> QED BY <1>1, <2>3, <3>6
  <2> QED BY <2>5, <2>6
<1>11. N \in T
  <2>1. N \in 0..N
    BY <1>1
  <2> HIDE DEF T
  <2> QED BY <1>1, <1>9, <1>10, <2>1, InductUpTo
<1> QED BY <1>1, <1>11 DEF best, N

-----------------------------------------------------------------------------
(***************************************************************************)
(* The runs are the stretches, in the order in which they are said.        *)
(***************************************************************************)
Said(words, s) == DigitsFrom(words, s[1])[s[2]]

\* The runs are the stretches that end before word m, each at its place.
Places(at, words, runs, m) ==
    /\ at \in [1..Len(runs) -> Stretches(words)]
    /\ \A k \in 1..Len(runs) : at[k][2] < m /\ runs[k] = Said(words, at[k])
    /\ \A k, l \in 1..Len(runs) : k < l => at[k][1] < at[l][1]
    /\ \A s \in Stretches(words) : s[2] < m => \E k \in 1..Len(runs) : at[k] = s

Collected(words, runs, m) == \E at : Places(at, words, runs, m)

\* The run that word n belongs to, as far as it has been said.
Unfinished(words, current, n) ==
    IF n > 0 /\ IsDigits(words, n)
    THEN \E a \in 1..n :
            /\ \A j \in a..n : IsDigits(words, j)
            /\ a > 1 => ~IsDigits(words, a - 1)
            /\ current = Said(words, <<a, n>>) /\ current # <<>>
    ELSE current = <<>>

\* What a stretch is.
LEMMA AStretch ==
    ASSUME NEW words, NEW s
    PROVE  s \in Stretches(words) <=>
              /\ s \in (1..Len(words)) \X (1..Len(words)) /\ s[1] <= s[2]
              /\ \A j \in s[1]..s[2] : IsDigits(words, j)
              /\ s[1] > 1 => ~IsDigits(words, s[1] - 1)
              /\ s[2] < Len(words) => ~IsDigits(words, s[2] + 1)
BY DEF Stretches, IsDigits

\* Of two stretches the one that ends first also begins first, and no two end
\* with the same word.
LEMMA StretchesApart ==
    ASSUME NEW words \in Seq(Words), NEW s \in Stretches(words), NEW o \in Stretches(words)
    PROVE  /\ o[2] < s[2] => o[1] < s[1]
           /\ o[2] = s[2] => o = s
<1>1. Len(words) \in Nat
  BY LenProperties
<1>2. /\ s \in (1..Len(words)) \X (1..Len(words)) /\ s[1] <= s[2]
      /\ \A j \in s[1]..s[2] : IsDigits(words, j)
      /\ s[1] > 1 => ~IsDigits(words, s[1] - 1)
  BY AStretch
<1>3. /\ o \in (1..Len(words)) \X (1..Len(words)) /\ o[1] <= o[2]
      /\ \A j \in o[1]..o[2] : IsDigits(words, j)
      /\ o[1] > 1 => ~IsDigits(words, o[1] - 1)
      /\ o[2] < Len(words) => ~IsDigits(words, o[2] + 1)
  BY AStretch
<1>4. s[1] \in 1..Len(words) /\ s[2] \in 1..Len(words) /\ s = <<s[1], s[2]>>
  BY <1>2
<1>5. o[1] \in 1..Len(words) /\ o[2] \in 1..Len(words) /\ o = <<o[1], o[2]>>
  BY <1>3
<1>6. ASSUME o[2] < s[2] PROVE o[1] < s[1]
  <2>1. ~IsDigits(words, o[2] + 1) /\ o[2] + 1 \in 1..s[2]
    BY <1>1, <1>3, <1>4, <1>5, <1>6
  <2>2. o[2] + 1 \notin s[1]..s[2]
    BY <1>2, <2>1
  <2> QED BY <1>3, <1>4, <1>5, <1>6, <2>2
<1>7. ASSUME o[2] = s[2] PROVE o = s
  <2>1. ~(o[1] < s[1])
    <3> SUFFICES ASSUME o[1] < s[1] PROVE FALSE
      OBVIOUS
    <3>1. s[1] - 1 \in o[1]..o[2] /\ s[1] > 1
      BY <1>2, <1>4, <1>5, <1>7
    <3> QED BY <1>2, <1>3, <3>1
  <2>2. ~(s[1] < o[1])
    <3> SUFFICES ASSUME s[1] < o[1] PROVE FALSE
      OBVIOUS
    <3>1. o[1] - 1 \in s[1]..s[2] /\ o[1] > 1
      BY <1>3, <1>4, <1>5, <1>7
    <3> QED BY <1>2, <1>3, <3>1
  <2>3. o[1] = s[1]
    BY <1>4, <1>5, <2>1, <2>2
  <2> QED BY <1>4, <1>5, <1>7, <2>3
<1> QED BY <1>6, <1>7

\* A word that ends a stretch adds its digits to the runs.
LEMMA AnotherRun ==
    ASSUME NEW words \in Seq(Words), NEW runs \in Seq(Digits), NEW s \in Stretches(words),
           NEW m \in Nat, s[2] = m, Said(words, s) \in Digits, Collected(words, runs, m)
    PROVE  Collected(words, Append(runs, Said(words, s)), m + 1)
<1> DEFINE L == Len(runs)
           more == Append(runs, Said(words, s))
<1>1. L \in Nat /\ Len(more) = L + 1 /\ more[L + 1] = Said(words, s) /\ \A k \in 1..L : more[k] = runs[k]
  BY AppendProperties, LenProperties
<1> HIDE DEF L, more
<1>2. PICK at :
         /\ at \in [1..L -> Stretches(words)]
         /\ \A k \in 1..L : at[k][2] < m /\ runs[k] = Said(words, at[k])
         /\ \A k, l \in 1..L : k < l => at[k][1] < at[l][1]
         /\ \A o \in Stretches(words) : o[2] < m => \E k \in 1..L : at[k] = o
  BY DEF Collected, Places, L
<1> DEFINE atm == [k \in 1..L + 1 |-> IF k = L + 1 THEN s ELSE at[k]]
<1>3. /\ atm \in [1..L + 1 -> Stretches(words)] /\ atm[L + 1] = s
      /\ \A k \in 1..L : atm[k] = at[k] /\ k \in 1..L + 1
  BY <1>1, <1>2
<1> HIDE DEF atm
<1>4. \A o \in Stretches(words) : o[1] \in Nat /\ o[2] \in Nat
  BY AStretch
<1>5. ASSUME NEW k \in 1..L + 1 PROVE atm[k][2] < m + 1 /\ more[k] = Said(words, atm[k])
  <2>1. CASE k = L + 1
    BY <1>1, <1>3, <2>1
  <2>2. CASE k \in 1..L
    <3>1. atm[k] = at[k] /\ more[k] = runs[k] /\ at[k] \in Stretches(words)
      BY <1>1, <1>2, <1>3, <2>2
    <3>2. at[k][2] \in Nat /\ at[k][2] < m /\ runs[k] = Said(words, at[k])
      BY <1>2, <1>4, <2>2, <3>1
    <3> QED BY <3>1, <3>2
  <2> QED BY <1>1, <2>1, <2>2
<1>6. ASSUME NEW k \in 1..L + 1, NEW l \in 1..L + 1, k < l PROVE atm[k][1] < atm[l][1]
  <2>1. k \in 1..L
    BY <1>1, <1>6
  <2>2. CASE l = L + 1
    <3>1. at[k] \in Stretches(words) /\ at[k][2] < s[2]
      BY <1>2, <2>1
    <3>2. at[k][1] < s[1]
      BY <3>1, StretchesApart
    <3>3. atm[k] = at[k] /\ atm[l] = s
      BY <1>3, <2>1, <2>2
    <3> QED BY <3>2, <3>3
  <2>3. CASE l \in 1..L
    BY <1>2, <1>3, <1>6, <2>1, <2>3
  <2> QED BY <1>1, <2>2, <2>3
<1>7. ASSUME NEW o \in Stretches(words), o[2] < m + 1 PROVE \E k \in 1..L + 1 : atm[k] = o
  <2>1. CASE o[2] = m
    <3>1. o = s /\ L + 1 \in 1..L + 1
      BY <1>1, <2>1, StretchesApart
    <3> QED BY <1>3, <3>1
  <2>2. CASE o[2] < m
    BY <1>2, <1>3, <2>2
  <2> QED BY <1>4, <1>7, <2>1, <2>2
<1>8. Places(atm, words, more, m + 1)
  BY <1>1, <1>3, <1>5, <1>6, <1>7 DEF Places
<1> QED BY <1>8 DEF Collected, more

\* A word that ends none leaves them as they are.
LEMMA NoOtherRun ==
    ASSUME NEW words \in Seq(Words), NEW runs, NEW m \in Nat,
           \A s \in Stretches(words) : s[2] # m, Collected(words, runs, m)
    PROVE  Collected(words, runs, m + 1)
<1>1. \A s \in Stretches(words) : s[2] \in Nat
  BY AStretch
<1>2. \A s \in Stretches(words) : s[2] < m <=> s[2] < m + 1
  BY <1>1
<1>3. PICK at : Places(at, words, runs, m)
  BY DEF Collected
<1>4. Places(at, words, runs, m + 1)
  BY <1>2, <1>3 DEF Places
<1> QED BY <1>4 DEF Collected

\* What a word that is none of the digits, and the end, do to an unfinished run.
LEMMA RunIsClosed ==
    ASSUME NEW words \in Seq(Words), NEW runs \in Seq(Digits), NEW current \in Digits,
           NEW n \in 0..Len(words), n < Len(words) => ~IsDigits(words, n + 1),
           Collected(words, runs, n), Unfinished(words, current, n)
    PROVE  Collected(words, IF current # <<>> THEN Append(runs, current) ELSE runs, n + 1)
<1>1. Len(words) \in Nat
  BY LenProperties
<1>2. CASE n > 0 /\ IsDigits(words, n)
  <2>1. PICK a \in 1..n :
           /\ \A j \in a..n : IsDigits(words, j)
           /\ a > 1 => ~IsDigits(words, a - 1)
           /\ current = Said(words, <<a, n>>) /\ current # <<>>
    BY <1>2 DEF Unfinished
  <2> DEFINE s == <<a, n>>
  <2>2. s[1] = a /\ s[2] = n /\ s \in (1..Len(words)) \X (1..Len(words))
    BY <1>1, <1>2, <2>1
  <2> HIDE DEF s
  <2>3. s \in Stretches(words)
    BY <2>1, <2>2, AStretch
  <2>4. current = Said(words, s)
    BY <2>1 DEF s
  <2>5. Collected(words, Append(runs, Said(words, s)), n + 1)
    BY <2>2, <2>3, <2>4, AnotherRun
  <2> QED BY <2>1, <2>4, <2>5
<1>3. CASE ~(n > 0 /\ IsDigits(words, n))
  <2>1. current = <<>>
    BY <1>3 DEF Unfinished
  <2>2. ASSUME NEW s \in Stretches(words) PROVE s[2] # n
    <3>1. s[2] \in 1..Len(words) /\ s[1] \in 1..Len(words) /\ s[1] <= s[2]
      BY AStretch
    <3>2. s[2] \in s[1]..s[2]
      BY <3>1
    <3>3. IsDigits(words, s[2])
      BY <3>2, AStretch
    <3> QED BY <1>3, <3>1, <3>3
  <2>3. Collected(words, runs, n + 1)
    BY <2>2, NoOtherRun
  <2> QED BY <2>1, <2>3
<1> QED BY <1>2, <1>3

\* What one more word of digits does to it.
LEMMA RunGoesOn ==
    ASSUME NEW words \in Seq(Words), NEW current \in Digits,
           NEW n \in 1..Len(words), IsDigits(words, n), Unfinished(words, current, n - 1)
    PROVE  Unfinished(words, current \o DigitsOf[words[n]], n)
<1> DEFINE more == current \o DigitsOf[words[n]]
<1>1. Len(words) \in Nat /\ DigitsOf[words[n]] \in Digits
  BY WordsHaveDigits
<1>2. DigitsOf[words[n]] # <<>>
  BY DEF IsDigits
<1>3. more # <<>>
  <2>1. Len(more) = Len(current) + Len(DigitsOf[words[n]]) /\ more \in Digits
    BY <1>1, ConcatProperties DEF Digits
  <2>2. Len(current) \in Nat /\ Len(DigitsOf[words[n]]) \in Nat \ {0}
    BY <1>1, <1>2, EmptySeq, LenProperties DEF Digits
  <2>3. Len(more) # 0
    BY <2>1, <2>2
  <2> QED BY <2>3, EmptySeq
<1> HIDE DEF more
<1>4. CASE n - 1 > 0 /\ IsDigits(words, n - 1)
  <2>1. PICK a \in 1..n - 1 :
           /\ \A j \in a..n - 1 : IsDigits(words, j)
           /\ a > 1 => ~IsDigits(words, a - 1)
           /\ current = DigitsFrom(words, a)[n - 1]
    BY <1>4 DEF Unfinished, Said
  <2>2. a \in Nat /\ a >= 1 /\ n \in 0..Len(words) /\ ~(n < a) /\ a \in 1..n /\ n > 0
    BY <1>1
  <2>3. DigitsFrom(words, a)[n] = DigitsFrom(words, a)[n - 1] \o DigitsOf[words[n]]
    BY <2>2, DigitsFromTurns
  <2>4. more = Said(words, <<a, n>>)
    BY <2>1, <2>3 DEF Said, more
  <2>5. \A j \in a..n : IsDigits(words, j)
    BY <1>1, <2>1
  <2> QED BY <1>3, <2>1, <2>2, <2>4, <2>5 DEF Unfinished, more
<1>5. CASE ~(n - 1 > 0 /\ IsDigits(words, n - 1))
  <2>1. current = <<>>
    BY <1>5 DEF Unfinished
  <2>2. n \in Nat /\ n >= 1 /\ n \in 0..Len(words) /\ n - 1 \in 0..Len(words) /\ ~(n < n) /\ n - 1 < n
    BY <1>1
  <2>3. DigitsFrom(words, n)[n] = DigitsFrom(words, n)[n - 1] \o DigitsOf[words[n]]
    BY <2>2, DigitsFromTurns
  <2>4. DigitsFrom(words, n)[n - 1] = <<>>
    BY <2>2, DigitsFromTurns
  <2>5. more = Said(words, <<n, n>>)
    BY <2>1, <2>3, <2>4 DEF Said, more
  <2>6. n \in 1..n /\ n > 0 /\ (\A j \in n..n : IsDigits(words, j)) /\ (n > 1 => ~IsDigits(words, n - 1))
    BY <1>5, <2>2
  <2> QED BY <1>3, <2>5, <2>6 DEF Unfinished, more
<1> QED BY <1>4, <1>5

\* So the runs are all the stretches of the sentence.
LEMMA RunsAreStretches ==
    ASSUME NEW words \in Seq(Words)
    PROVE  Runs(words) \in Seq(Digits) /\ Collected(words, Runs(words), Len(words) + 1)
<1> DEFINE N == Len(words)
           acc == Scanned(words)
           T == {n \in 0..N : Collected(words, acc[n].runs, n) /\ Unfinished(words, acc[n].current, n)}
<1>1. /\ N \in Nat
      /\ acc[0] = [runs |-> <<>>, current |-> <<>>]
      /\ \A n \in 1..N : acc[n] = ScanWord(acc[n - 1], words[n])
      /\ \A n \in 0..N : acc[n].runs \in Seq(Digits) /\ acc[n].current \in Digits
  BY ScannedTurns, LenProperties
<1> HIDE DEF acc
<1>2. 0 \in T
  <2> DEFINE none == [k \in 1..0 |-> k]
  <2>1. none \in [1..Len(<<>>) -> Stretches(words)] /\ Len(<<>>) = 0
    BY EmptySeq
  <2>2. \A s \in Stretches(words) : ~(s[2] < 0)
    BY AStretch
  <2> HIDE DEF none
  <2>3. Places(none, words, <<>>, 0)
    BY <2>1, <2>2 DEF Places
  <2> QED BY <1>1, <2>3 DEF Collected, Unfinished
<1>3. ASSUME NEW n \in 1..N, n - 1 \in T PROVE n \in T
  <2>1. /\ n - 1 \in 0..N /\ n \in 0..N /\ n - 1 < N /\ (n - 1) + 1 = n
        /\ Collected(words, acc[n - 1].runs, n - 1) /\ Unfinished(words, acc[n - 1].current, n - 1)
        /\ acc[n - 1].runs \in Seq(Digits) /\ acc[n - 1].current \in Digits
        /\ acc[n] = ScanWord(acc[n - 1], words[n])
    BY <1>1, <1>3
  <2>2. acc[n] \in [runs : Seq(Digits), current : Digits]
    BY <2>1, ScannedTurns DEF acc
  <2>3. CASE IsDigits(words, n)
    <3>1. acc[n].runs = acc[n - 1].runs /\ acc[n].current = acc[n - 1].current \o DigitsOf[words[n]]
      <4>1. acc[n] = [acc[n - 1] EXCEPT !.current = @ \o DigitsOf[words[n]]]
        BY <2>1, <2>3 DEF ScanWord, IsDigits
      <4>2. acc[n - 1] \in [runs : Seq(Digits), current : Digits]
        BY <2>1, ScannedTurns DEF acc
      <4> QED BY <4>1, <4>2
    <3>2. \A s \in Stretches(words) : s[2] # n - 1
      BY <1>1, <2>1, <2>3, AStretch
    <3>3. Collected(words, acc[n - 1].runs, (n - 1) + 1)
      BY <2>1, <3>2, NoOtherRun
    <3>4. Unfinished(words, acc[n - 1].current \o DigitsOf[words[n]], n)
      BY <2>1, <2>3, RunGoesOn
    <3> QED BY <2>1, <3>1, <3>3, <3>4
  <2>4. CASE ~IsDigits(words, n)
    <3>1. /\ acc[n].current = <<>>
          /\ acc[n].runs = IF acc[n - 1].current # <<>> THEN Append(acc[n - 1].runs, acc[n - 1].current)
                           ELSE acc[n - 1].runs
      BY <2>1, <2>4 DEF ScanWord, IsDigits
    <3>2. Collected(words, acc[n].runs, (n - 1) + 1)
      BY <2>1, <2>4, <3>1, RunIsClosed
    <3> QED BY <2>1, <2>4, <3>1, <3>2 DEF Unfinished
  <2> QED BY <2>3, <2>4
<1>4. N \in 0..N /\ N \in T
  <2>1. N \in 0..N
    BY <1>1
  <2> HIDE DEF T
  <2> QED BY <1>1, <1>2, <1>3, <2>1, InductUpTo
<1>5. Runs(words) = IF acc[N].current # <<>> THEN Append(acc[N].runs, acc[N].current) ELSE acc[N].runs
  BY DEF Runs, acc
<1>6. Collected(words, Runs(words), N + 1)
  <2>1. /\ acc[N].runs \in Seq(Digits) /\ acc[N].current \in Digits /\ ~(N < N)
        /\ Collected(words, acc[N].runs, N) /\ Unfinished(words, acc[N].current, N)
    BY <1>1, <1>4
  <2>2. Collected(words, IF acc[N].current # <<>> THEN Append(acc[N].runs, acc[N].current)
                         ELSE acc[N].runs, N + 1)
    BY <1>4, <2>1, RunIsClosed
  <2> QED BY <1>5, <2>2
<1>7. Runs(words) \in Seq(Digits)
  BY <1>1, <1>4, <1>5, AppendProperties
<1> QED BY <1>6, <1>7

-----------------------------------------------------------------------------
(***************************************************************************)
(* One more word.                                                          *)
(***************************************************************************)
\* The words heard before stay where they were.
LEMMA MoreWords ==
    ASSUME NEW words \in Seq(Words), NEW w \in Words
    PROVE  /\ Len(words) \in Nat /\ Len(Append(words, w)) = Len(words) + 1
           /\ \A j \in 1..Len(words) : Append(words, w)[j] = words[j]
           /\ Range(words) \subseteq Range(Append(words, w))
<1>1. /\ Len(words) \in Nat /\ Len(Append(words, w)) = Len(words) + 1
      /\ \A j \in 1..Len(words) : Append(words, w)[j] = words[j]
      /\ Append(words, w) \in Seq(Words)
  BY AppendProperties, LenProperties
<1>2. DOMAIN words = 1..Len(words) /\ DOMAIN Append(words, w) = 1..Len(words) + 1
  BY <1>1, LenProperties
<1>3. \A j \in 1..Len(words) : j \in 1..Len(words) + 1
  BY <1>1
<1>4. Range(words) \subseteq Range(Append(words, w))
  BY <1>1, <1>2, <1>3, Zenon DEF Range
<1> QED BY <1>1, <1>4

\* A phrase that is held is still held.
LEMMA PhraseStays ==
    ASSUME NEW words \in Seq(Words), NEW w \in Words,
           NEW p, p \in Seq(Range(p)), Holds(words, p)
    PROVE  Holds(Append(words, w), p)
<1> DEFINE more == Append(words, w)
<1>1. /\ Len(words) \in Nat /\ Len(more) = Len(words) + 1
      /\ \A j \in 1..Len(words) : more[j] = words[j]
  BY MoreWords
<1>2. Len(p) \in Nat /\ DOMAIN p = 1..Len(p)
  BY LenProperties
<1> HIDE DEF more
<1>3. PICK at \in 0..Len(words) - Len(p) :
         \A j \in DOMAIN p :
            p[j] \in CASE j = 1 -> EndsWith[words[at + j]]
                       [] j = Len(p) -> BeginsWith[words[at + j]]
                       [] OTHER -> {words[at + j]}
  BY DEF Holds
<1>4. at \in 0..Len(more) - Len(p)
  BY <1>1, <1>2
<1>5. ASSUME NEW j \in DOMAIN p PROVE more[at + j] = words[at + j]
  <2>1. at + j \in 1..Len(words)
    BY <1>1, <1>2
  <2> QED BY <1>1, <2>1
<1>6. Holds(more, p)
  BY <1>3, <1>4, <1>5 DEF Holds
<1> QED BY <1>6 DEF more

\* And so is what is looked for in two lists.
LEMMA ListsStay ==
    ASSUME NEW words \in Seq(Words), NEW w \in Words, NEW list, NEW phrases,
           \A p \in phrases : p \in Seq(Range(p)), HoldsAny(words, list, phrases)
    PROVE  HoldsAny(Append(words, w), list, phrases)
<1>1. CASE Range(words) \cap list # {}
  BY <1>1, MoreWords DEF HoldsAny
<1>2. CASE \E p \in phrases : Holds(words, p)
  BY <1>2, PhraseStays DEF HoldsAny
<1> QED BY <1>1, <1>2 DEF HoldsAny

\* A command once given stays given.
LEMMA CommandStays ==
    ASSUME NEW words \in Seq(Words), NEW w \in Words, NEW m \in Range(CommandOrder), Gives(words, m)
    PROVE  Gives(Append(words, w), m)
<1>1. m \in DOMAIN TriggerPhrases
  BY WordAssumption
<1>2. TriggerPhrases[m] \in Range(TriggerPhrases)
  BY <1>1 DEF Range
<1>3. \A p \in TriggerPhrases[m] : p \in Seq(Range(p))
  BY <1>2, WordAssumption
<1> QED BY <1>3, ListsStay DEF Gives

\* A sentence that said there was nothing further still says it with a word more.
LEMMA DoneStays ==
    ASSUME NEW words \in Seq(Words), NEW w \in Words, IsNoFurtherHelpNeeded(words)
    PROVE  IsNoFurtherHelpNeeded(Append(words, w))
<1>1. \A p \in DonePhrases : p \in Seq(Range(p))
  BY WordAssumption
<1> QED BY <1>1, ListsStay DEF IsNoFurtherHelpNeeded

\* The order of the commands.
LEMMA Priorities ==
    /\ \A m \in {"ESCALATE_TO_CSR", "START_OVER", "REPEAT"} : m \in Range(CommandOrder)
    /\ Priority("ESCALATE_TO_CSR") = 1 /\ Priority("START_OVER") = 2
    /\ Priority("REPEAT") = 3 /\ Priority("NONE") = 4
<1>1. /\ Len(CommandOrder) = 3 /\ DOMAIN CommandOrder = 1..3
      /\ CommandOrder[1] = "ESCALATE_TO_CSR" /\ CommandOrder[2] = "START_OVER"
      /\ CommandOrder[3] = "REPEAT"
  BY DEF CommandOrder
<1> HIDE DEF CommandOrder
<1>2. \A m \in {"ESCALATE_TO_CSR", "START_OVER", "REPEAT"} : m \in Range(CommandOrder)
  BY <1>1 DEF Range
<1>3. ASSUME NEW n \in 1..3, NEW m, m = CommandOrder[n], m # "NONE" PROVE Priority(m) = n
  <2>1. \A k \in DOMAIN CommandOrder : CommandOrder[k] = m <=> k = n
    BY <1>1, <1>3
  <2>2. (CHOOSE k \in DOMAIN CommandOrder : CommandOrder[k] = m) = n
    BY <1>1, <2>1
  <2> QED BY <1>3, <2>2 DEF Priority
<1>4. Priority("NONE") = 4
  BY <1>1 DEF Priority
<1> QED BY <1>1, <1>2, <1>3, <1>4

-----------------------------------------------------------------------------
(***************************************************************************)
(* The theorems.                                                           *)
(***************************************************************************)
SpokenTypeOK == text \in Seq(Words)

\* What the recogniser has heard is a sequence of words.
LEMMA SpokenTypeCorrect == SpokenSpec => []SpokenTypeOK
<1>1. SpokenInit => SpokenTypeOK
  BY DEF SpokenInit, SpokenTypeOK
<1>2. SpokenTypeOK /\ [HearWord \/ NextGather]_text => SpokenTypeOK'
  <2>1. SpokenTypeOK /\ HearWord => SpokenTypeOK'
    BY AppendProperties DEF SpokenTypeOK, HearWord
  <2>2. NextGather => SpokenTypeOK'
    BY DEF SpokenTypeOK, NextGather
  <2>3. SpokenTypeOK /\ UNCHANGED text => SpokenTypeOK'
    BY DEF SpokenTypeOK
  <2> QED BY <2>1, <2>2, <2>3
<1> QED BY <1>1, <1>2, PTL DEF SpokenSpec

\* A step that keeps what was said adds a word to it, or nothing.
LEMMA SaidMore ==
    ASSUME SpokenTypeOK, [HearWord \/ NextGather]_text, IsPrefix(text, text'), text' # text
    PROVE  \E w \in Words : text' = Append(text, w)
<1>1. ~NextGather
  <2>1. ASSUME text # <<>>, text' = <<>>, IsPrefix(text, text') PROVE FALSE
    <3>1. Len(text) <= 0 /\ Len(text) \in Nat
      BY <2>1, LenProperties DEF IsPrefix, SpokenTypeOK
    <3> QED BY <2>1, <3>1, EmptySeq DEF SpokenTypeOK
  <2> QED BY <2>1 DEF NextGather
<1> QED BY <1>1 DEF HearWord

\* Going on to talk takes no command back: the command found stays, or gives way
\* to one that comes earlier in the order; and a caller who said that he is done
\* is done, whatever he adds.
THEOREM CommandsAreKept == SpokenSpec => CommandsStand
<1>1. ASSUME SpokenTypeOK, [HearWord \/ NextGather]_text, IsPrefix(text, text')
      PROVE  /\ Priority(DetectGlobalCommand(text')) <= Priority(DetectGlobalCommand(text))
             /\ IsNoFurtherHelpNeeded(text) => IsNoFurtherHelpNeeded(text')
  <2>1. ASSUME NEW words PROVE Priority(DetectGlobalCommand(words)) \in 1..4
    BY Priorities DEF DetectGlobalCommand
  <2>2. CASE text' = text
    BY <2>1, <2>2
  <2>3. CASE text' # text
    <3>1. PICK w \in Words : text' = Append(text, w)
      BY <1>1, <2>3, SaidMore
    <3> DEFINE more == Append(text, w)
    <3>2. \A m \in {"ESCALATE_TO_CSR", "START_OVER", "REPEAT"} : Gives(text, m) => Gives(more, m)
      BY <1>1, Priorities, CommandStays DEF SpokenTypeOK
    <3>3. IsNoFurtherHelpNeeded(text) => IsNoFurtherHelpNeeded(more)
      BY <1>1, DoneStays DEF SpokenTypeOK
    <3> HIDE DEF more
    <3>4. Priority(DetectGlobalCommand(more)) <= Priority(DetectGlobalCommand(text))
      BY <3>2, Priorities DEF DetectGlobalCommand
    <3>5. text' = more
      BY <3>1 DEF more
    <3> QED BY <3>3, <3>4, <3>5
  <2> QED BY <2>2, <2>3
<1> QED BY <1>1, SpokenTypeCorrect, PTL DEF SpokenSpec, CommandsStand

\* No further word turns a yes into a no or a no into a yes; and what holds both
\* stays unclear, so that no request is filed on half of an answer.
THEOREM AnswersAreKept == SpokenSpec => AnswersNeverFlip
<1> DEFINE Kept(before, after) ==
              /\ ParseYesNo(before) # "unclear" => ParseYesNo(after) \in {ParseYesNo(before), "unclear"}
              /\ Range(before) \cap YesWords # {} /\ Range(before) \cap NoWords # {}
                    => ParseYesNo(after) = "unclear"
<1>1. ASSUME NEW before, NEW after, Range(before) \subseteq Range(after)
      PROVE  Kept(before, after)
  BY <1>1 DEF ParseYesNo
<1>2. ASSUME SpokenTypeOK, [HearWord \/ NextGather]_text, IsPrefix(text, text')
      PROVE  Kept(text, text')
  <2>1. CASE text' = text
    BY <1>1, <2>1
  <2>2. CASE text' # text
    <3>1. PICK w \in Words : text' = Append(text, w)
      BY <1>2, <2>2, SaidMore
    <3>2. Range(text) \subseteq Range(Append(text, w))
      BY <1>2, MoreWords DEF SpokenTypeOK
    <3>3. Kept(text, Append(text, w))
      BY <1>1, <3>2
    <3> QED BY <3>1, <3>3
  <2> QED BY <2>1, <2>2
<1> QED BY <1>2, SpokenTypeCorrect, PTL DEF SpokenSpec, AnswersNeverFlip

\* The classifier answers None only if no word it heard belongs to an intent, and
\* otherwise the best intent, the first of them.
THEOREM BestIsClassified == SpokenSpec => []ClassifiesTheBest
<1>1. SpokenTypeOK => ClassifiesTheBest
  <2> SUFFICES ASSUME SpokenTypeOK PROVE ClassifiesTheBest
    OBVIOUS
  <2>1. BestOfFirst(text, BestIntent(text)[Len(Catalog)], Len(Catalog))
    BY BestIntentIsBest DEF SpokenTypeOK
  <2>2. DOMAIN Catalog = 1..Len(Catalog) /\ \A i \in DOMAIN Catalog : Catalog[i] # NoIntent
    <3>1. DOMAIN Catalog = 1..Len(Catalog)
      BY WordAssumption, LenProperties
    <3> QED BY <3>1, WordAssumption DEF Range
  <2> QED BY <2>1, <2>2 DEF ClassifiesTheBest, Classify, BestOfFirst, ScoreAt
<1> QED BY <1>1, SpokenTypeCorrect, PTL

\* Whatever the model answers, what the built classifier answers can be routed.
THEOREM AnswersCanBeRouted == SpokenSpec => []AnswersAreRoutable
<1>1. SpokenTypeOK => AnswersAreRoutable
  <2> SUFFICES ASSUME SpokenTypeOK, NEW hasKey \in BOOLEAN, NEW m \in ModelAnswers
               PROVE  /\ ClassifyIntent(hasKey, text, m) \in Range(Catalog) \cup {NoIntent}
                      /\ m = Failure => ClassifyIntent(hasKey, text, m) = Classify(text)
    BY DEF AnswersAreRoutable
  <2>1. BestOfFirst(text, BestIntent(text)[Len(Catalog)], Len(Catalog))
    BY BestIntentIsBest DEF SpokenTypeOK
  <2>2. DOMAIN Catalog = 1..Len(Catalog)
    BY WordAssumption, LenProperties
  <2>3. Classify(text) \in Range(Catalog) \cup {NoIntent}
    BY <2>1, <2>2 DEF Classify, BestOfFirst, Range
  <2>4. text = <<>> => Classify(text) = NoIntent
    <3> SUFFICES ASSUME text = <<>> PROVE Classify(text) = NoIntent
      OBVIOUS
    <3>1. \A i : Heard(text) \cap Keywords(i) = {}
      BY DEF Heard, Range
    <3>2. \A i : Score(text, i) = 0
      BY <3>1, FS_EmptySet DEF Score
    <3> QED BY <2>1, <3>2 DEF Classify, BestOfFirst, ScoreAt
  <2> QED BY <2>3, <2>4 DEF ClassifyIntent, FallbackClassify, LlmClassify
<1> QED BY <1>1, SpokenTypeCorrect, PTL

\* The digits found are those of one stretch of the sentence: none has more, and
\* none that comes later has as many.
THEOREM DigitsAreFound == SpokenSpec => []DigitsAreOneStretch
<1>1. SpokenTypeOK => DigitsAreOneStretch
  <2> SUFFICES ASSUME SpokenTypeOK PROVE DigitsAreOneStretch
    OBVIOUS
  <2> DEFINE N == Len(text)
             runs == Runs(text)
             found == NormalizeSpokenDigits(text)
  <2>1. text \in Seq(Words) /\ N \in Nat /\ DOMAIN text = 1..N /\ \A j \in 1..N : text[j] \in Words
    BY LenProperties, ElementOfSeq DEF SpokenTypeOK
  <2>2. \A s \in Stretches(text) : s[1] \in 1..N /\ s[2] \in 1..N
    BY AStretch
  <2>3. \A s \in Stretches(text) : Len(Said(text, s)) \in Nat
    <3>1. ASSUME NEW s \in Stretches(text) PROVE Said(text, s) \in Digits
      <4>1. s[1] \in Nat /\ s[1] >= 1 /\ s[2] \in 0..N
        BY <2>1, <2>2
      <4>2. DigitsFrom(text, s[1]) \in [0..N -> Digits]
        BY <2>1, <4>1, DigitsFromTurns
      <4> QED BY <4>1, <4>2 DEF Said
    <3> QED BY <3>1, LenProperties DEF Digits
  <2>4. CASE text # <<>> /\ \A i \in DOMAIN text : text[i] \in Numerals
    <3> DEFINE s == <<1, N>>
    <3>1. N >= 1 /\ \A j \in 1..N : IsDigits(text, j)
      <4>1. N # 0
        BY <2>1, <2>4, EmptySeq
      <4>2. \A j \in 1..N : DigitsOf[text[j]] # <<>>
        BY <2>1, <2>4, WordAssumption
      <4> QED BY <2>1, <4>1, <4>2 DEF IsDigits
    <3>2. s[1] = 1 /\ s[2] = N /\ s \in (1..N) \X (1..N)
      BY <2>1, <3>1
    <3>3. found = Said(text, s)
      BY <2>4, <3>2 DEF NormalizeSpokenDigits, Said
    <3> HIDE DEF s, found
    <3>4. s \in Stretches(text)
      BY <2>1, <3>1, <3>2, AStretch
    <3>5. ASSUME NEW o \in Stretches(text) PROVE o = s
      <4>1. ~(o[2] < N)
        BY <2>1, <2>2, <3>1, AStretch
      <4> QED BY <2>1, <2>2, <3>2, <3>4, <4>1, StretchesApart
    <3>6. \A o \in Stretches(text) :
             Len(Said(text, o)) <= Len(Said(text, s)) /\ (o[1] > s[1] => Len(Said(text, o)) < Len(Said(text, s)))
      BY <2>2, <2>3, <3>4, <3>5
    <3> QED BY <3>3, <3>4, <3>6 DEF DigitsAreOneStretch, Said, found
  <2>5. CASE ~(text # <<>> /\ \A i \in DOMAIN text : text[i] \in Numerals)
    <3> DEFINE L == Len(runs)
    <3>1. runs \in Seq(Digits) /\ Collected(text, runs, N + 1)
      BY <2>1, RunsAreStretches
    <3>2. found = BestRun(runs)[L]
      BY <2>5 DEF NormalizeSpokenDigits
    <3> HIDE DEF runs, found
    <3>3. L \in Nat /\ BestOfRuns(runs, found, L)
      BY <3>1, <3>2, BestRunIsBest
    <3>4. PICK at : Places(at, text, runs, N + 1)
      BY <3>1 DEF Collected
    <3>5. /\ \A k \in 1..L : at[k] \in Stretches(text) /\ runs[k] = Said(text, at[k])
          /\ \A k, l \in 1..L : k < l => at[k][1] < at[l][1]
          /\ \A s \in Stretches(text) : \E k \in 1..L : at[k] = s
      <4>1. \A s \in Stretches(text) : s[2] < N + 1
        BY <2>1, <2>2
      <4>2. /\ at \in [1..L -> Stretches(text)]
            /\ \A k \in 1..L : runs[k] = Said(text, at[k])
            /\ \A k, l \in 1..L : k < l => at[k][1] < at[l][1]
        BY <3>4 DEF Places
      <4>3. \A s \in Stretches(text) : \E k \in 1..L : at[k] = s
        BY <3>4, <4>1 DEF Places
      <4> QED BY <4>2, <4>3
    <3> HIDE DEF L
    <3>6. CASE L = 0
      <4>1. Stretches(text) = {} /\ found = <<>>
        BY <3>3, <3>5, <3>6 DEF BestOfRuns
      <4> QED BY <4>1 DEF DigitsAreOneStretch, found
    <3>7. CASE L # 0
      <4>1. PICK k \in 1..L :
               /\ found = runs[k]
               /\ \A l \in 1..L : Len(runs[l]) <= Len(found)
               /\ \A l \in k + 1..L : Len(runs[l]) < Len(found)
        BY <3>3, <3>7 DEF BestOfRuns
      <4> DEFINE s == at[k]
      <4>2. s \in Stretches(text) /\ found = Said(text, s)
        BY <3>5, <4>1
      <4>3. ASSUME NEW o \in Stretches(text)
            PROVE  /\ Len(Said(text, o)) <= Len(Said(text, s))
                   /\ o[1] > s[1] => Len(Said(text, o)) < Len(Said(text, s))
        <5>1. PICK l \in 1..L : at[l] = o
          BY <3>5
        <5>2. Len(Said(text, o)) <= Len(Said(text, s))
          BY <3>5, <4>1, <4>2, <5>1
        <5>3. ASSUME o[1] > s[1] PROVE l \in k + 1..L
          <6>1. o[1] \in Nat /\ s[1] \in Nat /\ ~(o[1] < s[1]) /\ o[1] # s[1]
            BY <2>2, <4>2, <5>3
          <6>2. ~(l < k) /\ l # k
            BY <3>5, <5>1, <6>1
          <6> QED BY <3>3, <6>2
        <5> QED BY <3>5, <4>1, <4>2, <5>1, <5>2, <5>3
      <4> HIDE DEF s
      <4> QED BY <4>2, <4>3 DEF DigitsAreOneStretch, Said, found
    <3> QED BY <3>6, <3>7
  <2> QED BY <2>4, <2>5
<1> QED BY <1>1, SpokenTypeCorrect, PTL
=============================================================================
