------------------------------ MODULE LogProofs ------------------------------
(***************************************************************************)
(* Proofs about the event log and what is computed from it.                *)
(*                                                                         *)
(* CardCache, for every set of paths and quizzes, every log bound, every   *)
(* clock and every FSRS: the cards count what the log holds, and implement *)
(* the review schedule.                                                    *)
(*                                                                         *)
(* Migrate, for any number of directories, statements and runs, and        *)
(* wherever they break off: nothing is imported twice, every card is the   *)
(* replay of its path's log, nothing of the overlay is left out, nothing   *)
(* of the user's is overwritten.                                           *)
(***************************************************************************)
EXTENDS Migrate, Recursion

-----------------------------------------------------------------------------
(* CardCache. *)

USE DEF Time

(* Instants and intervals are numbers of ticks. *)
LEMMA Ranges ==
    /\ \A t \in Time : t \in Nat
    /\ \A i \in Interval : i \in Nat /\ i > 0
<1>1. \A t \in Time : t \in Nat
  BY CacheAssumption
<1>2. Interval \subseteq Nat \ {0}
  BY CacheAssumption
<1> QED
  BY <1>1, <1>2

(* Days between two readings of the clock stay within the clock's range. *)
LEMMA DaysInTime ==
    ASSUME NEW last \in Time, NEW ts \in Time
    PROVE  DaysElapsed(last, ts) \in Time
<1>1. CASE ts < last
  BY <1>1, CacheAssumption DEF DaysElapsed
<1>2. CASE ~(ts < last)
  <2> DEFINE x == ts - last
  <2>1. x \in 0 .. MaxTime
    BY <1>2, CacheAssumption
  <2> HIDE DEF x
  <2>2. \A t \in Nat \ {0} : x \div t \in 0 .. x
    BY <2>1, CacheAssumption, SMTT(30)
  <2>3. x \div TicksPerDay \in 0 .. MaxTime
    BY <2>1, <2>2, CacheAssumption
  <2> QED
    BY <1>2, <2>3 DEF DaysElapsed, x
<1> QED
  BY <1>1, <1>2

(* One answer yields a well-formed card, due strictly after the answer. *)
LEMMA ApplyAnswerType ==
    ASSUME NEW prev \in Card \cup {NoCard}, NEW rating \in Rating, NEW ts \in Time
    PROVE  /\ ApplyAnswer(prev, rating, ts) \in Card
           /\ ApplyAnswer(prev, rating, ts).last = ts
           /\ ApplyAnswer(prev, rating, ts).due - ts \in Interval
           /\ ApplyAnswer(prev, rating, ts) # NoCard
<1> DEFINE step == IF prev = NoCard THEN Fsrs(NoMemory, rating, 0)
                   ELSE Fsrs(prev.memory, rating, DaysElapsed(prev.last, ts))
<1>1. step \in [memory : Memory, interval : Interval]
  <2>1. CASE prev = NoCard
    BY <2>1, FsrsAssumption, CacheAssumption
  <2>2. CASE prev # NoCard
    <3>1. prev.memory \in Memory /\ prev.last \in Time
      BY <2>2 DEF Card
    <3>2. DaysElapsed(prev.last, ts) \in Time
      BY <3>1, DaysInTime
    <3> QED
      BY <2>2, <3>1, <3>2, FsrsAssumption
  <2> QED
    BY <2>1, <2>2
<1> DEFINE next == [memory |-> step.memory,
                    due    |-> ts + step.interval,
                    last   |-> ts,
                    reps   |-> (IF prev = NoCard THEN 0 ELSE prev.reps) + 1,
                    lapses |-> (IF prev = NoCard THEN 0 ELSE prev.lapses)
                                 + (IF rating = "again" THEN 1 ELSE 0)]
<1>2. ApplyAnswer(prev, rating, ts) = next
  BY DEF ApplyAnswer
<1> HIDE DEF step
<1>3. step.memory \in Memory /\ step.interval \in Interval
  BY <1>1
<1> DEFINE interval == step.interval
<1>a. ts \in Nat /\ interval \in Nat /\ interval \in Interval
  BY <1>3, Ranges
<1> HIDE DEF interval
<1>4. next \in Card
  <2>1. ts + interval \in Nat
    BY <1>a
  <2>2. (IF prev = NoCard THEN 0 ELSE prev.reps) + 1 \in Nat
    BY DEF Card
  <2>3. (IF prev = NoCard THEN 0 ELSE prev.lapses)
          + (IF rating = "again" THEN 1 ELSE 0) \in Nat
    BY DEF Card
  <2> QED
    BY <1>3, <2>1, <2>2, <2>3 DEF Card, interval
<1>5. next.due - ts \in Interval
  <2>1. ts + interval - ts = interval
    BY <1>a
  <2> QED
    BY <1>a, <2>1 DEF interval
<1>6. next # NoCard
  BY <1>4, CacheAssumption DEF Card
<1> QED
  BY <1>2, <1>4, <1>5, <1>6

-----------------------------------------------------------------------------
(* Type correctness. *)

(* The empty log and the cards of no answer are well formed. *)
LEMMA TypeInit == CacheInit => CacheTypeOK
BY DEF CacheInit, CacheTypeOK

(* No row appended, no answer and no clock spoils a row or a card. *)
LEMMA TypeStep == CacheTypeOK /\ [CacheNext]_cacheVars => CacheTypeOK'
<1> SUFFICES ASSUME CacheTypeOK, [CacheNext]_cacheVars
             PROVE  CacheTypeOK'
  OBVIOUS
<1> USE DEF CacheTypeOK
<1>1. ASSUME NEW p \in Path, NEW q \in Quiz, NEW rating \in Rating,
             AppendAnswer(p, q, rating)
      PROVE  CacheTypeOK'
  <2>1. ApplyAnswer(cards[<<p, q>>], rating, now) \in Card
    <3>1. cards[<<p, q>>] \in Card \cup {NoCard}
      OBVIOUS
    <3> QED
      BY <3>1, ApplyAnswerType
  <2>2. cards' \in [Path \X Quiz -> Card \cup {NoCard}]
    BY <1>1, <2>1 DEF AppendAnswer
  <2> DEFINE row == [kind |-> "quiz_answered", path |-> p, quiz |-> q,
                     rating |-> rating, ts |-> now]
  <2>a. row \in Event
    BY DEF Event
  <2>3. events' \in Seq(Event)
    <3>1. events' = Append(events, row)
      BY <1>1 DEF AppendAnswer, Log
    <3> HIDE DEF row
    <3> QED
      BY <2>a, <3>1
  <2> QED
    BY <1>1, <2>2, <2>3 DEF AppendAnswer
<1>2. ASSUME NEW p \in Path, NEW q \in Quiz, AppendOther(p, q)
      PROVE  CacheTypeOK'
  <2> DEFINE row == [kind |-> "other", path |-> p, quiz |-> q,
                     rating |-> NoRating, ts |-> now]
  <2>1. row \in Event
    BY DEF Event
  <2>2. events' = Append(events, row) /\ UNCHANGED <<cards, now>>
    BY <1>2 DEF AppendOther, Log
  <2> HIDE DEF row
  <2> QED
    BY <2>1, <2>2
<1>3. CASE ClockMoves
  BY <1>3 DEF ClockMoves
<1>4. CASE UNCHANGED cacheVars
  BY <1>4 DEF cacheVars
<1> QED
  BY <1>1, <1>2, <1>3, <1>4 DEF CacheNext

(* The log only ever holds event rows and the cache only ever holds        *)
(* well-formed cards: `apply_answer` never produces a negative counter, an *)
(* unscheduled card or a memory FSRS would refuse.                         *)
THEOREM TypeCorrect == CacheSpec => []CacheTypeOK
<1>1. CacheInit => CacheTypeOK
  BY TypeInit
<1>2. CacheTypeOK /\ [CacheNext]_cacheVars => CacheTypeOK'
  BY TypeStep
<1> QED
  BY <1>1, <1>2, PTL DEF CacheSpec
-----------------------------------------------------------------------------
(* What one more row does to the answers of each quiz. *)

(* The rows of an answered quiz are finitely many positions of the log. *)
LEMMA AnswersFinite ==
    ASSUME CacheTypeOK, NEW p \in Path, NEW q \in Quiz
    PROVE  /\ Len(events) \in Nat
           /\ DOMAIN events = 1 .. Len(events)
           /\ Lapses(p, q) \subseteq Answers(p, q)
           /\ Answers(p, q) \subseteq 1 .. Len(events)
           /\ IsFiniteSet(Answers(p, q))
           /\ IsFiniteSet(Lapses(p, q))
           /\ Cardinality(Answers(p, q)) \in Nat
           /\ Cardinality(Lapses(p, q)) \in Nat
<1>1. Len(events) \in Nat /\ DOMAIN events = 1 .. Len(events)
  BY DEF CacheTypeOK
<1>2. /\ Lapses(p, q) \subseteq Answers(p, q)
      /\ Answers(p, q) \subseteq 1 .. Len(events)
  BY <1>1 DEF Lapses, Answers
<1>3. IsFiniteSet(1 .. Len(events))
  BY <1>1, FS_Interval
<1>4. IsFiniteSet(Answers(p, q)) /\ IsFiniteSet(Lapses(p, q))
  BY <1>2, <1>3, FS_Subset
<1> QED
  BY <1>1, <1>2, <1>4, FS_CardinalityType

(* An answer to this very quiz adds the new row's position. *)
LEMMA AnswersGrow ==
    ASSUME CacheTypeOK, NEW row \in Event, events' = Append(events, row),
           row.kind = "quiz_answered"
    PROVE  LET p == row.path
               q == row.quiz
               n == Len(events) + 1
           IN  /\ Answers(p, q)' = Answers(p, q) \cup {n}
               /\ Lapses(p, q)' = IF row.rating = "again"
                                   THEN Lapses(p, q) \cup {n} ELSE Lapses(p, q)
               /\ n \notin Answers(p, q)
<1>1. Len(events) \in Nat /\ DOMAIN events = 1 .. Len(events)
  BY DEF CacheTypeOK
<1>2. /\ DOMAIN events' = 1 .. Len(events) + 1
      /\ events'[Len(events) + 1] = row
      /\ \A i \in 1 .. Len(events) : events'[i] = events[i]
  BY <1>1 DEF CacheTypeOK
<1>3. DOMAIN events' = (DOMAIN events) \cup {Len(events) + 1}
  BY <1>1, <1>2
<1>4. Len(events) + 1 \notin DOMAIN events
  BY <1>1
<1>5. Answers(row.path, row.quiz)' = Answers(row.path, row.quiz) \cup {Len(events) + 1}
  BY <1>1, <1>2, <1>3 DEF Answers
<1>6. Len(events) + 1 \notin Answers(row.path, row.quiz)
  BY <1>4 DEF Answers
<1>7. \A i \in Answers(row.path, row.quiz) : events'[i] = events[i]
  BY <1>1, <1>2 DEF Answers
<1>8. Lapses(row.path, row.quiz)' =
         IF row.rating = "again"
         THEN Lapses(row.path, row.quiz) \cup {Len(events) + 1}
         ELSE Lapses(row.path, row.quiz)
  BY <1>2, <1>5, <1>7 DEF Lapses
<1> QED
  BY <1>5, <1>6, <1>8

(* Any other row leaves the answers of this quiz as they were. *)
LEMMA AnswersKept ==
    ASSUME CacheTypeOK, NEW row \in Event, events' = Append(events, row),
           NEW p \in Path, NEW q \in Quiz,
           ~(row.kind = "quiz_answered" /\ row.path = p /\ row.quiz = q)
    PROVE  /\ Answers(p, q)' = Answers(p, q)
           /\ Lapses(p, q)' = Lapses(p, q)
           /\ \A i \in Answers(p, q) : events'[i] = events[i]
<1>1. Len(events) \in Nat /\ DOMAIN events = 1 .. Len(events)
  BY DEF CacheTypeOK
<1>2. /\ DOMAIN events' = 1 .. Len(events) + 1
      /\ events'[Len(events) + 1] = row
      /\ \A i \in 1 .. Len(events) : events'[i] = events[i]
  BY <1>1 DEF CacheTypeOK
<1>3. DOMAIN events' = (DOMAIN events) \cup {Len(events) + 1}
  BY <1>1, <1>2
<1>4. Answers(p, q)' = Answers(p, q)
  BY <1>1, <1>2, <1>3 DEF Answers
<1>5. \A i \in Answers(p, q) : events'[i] = events[i]
  BY <1>1, <1>2 DEF Answers
<1> QED
  BY <1>4, <1>5 DEF Lapses
-----------------------------------------------------------------------------
(* The counters. *)

(* The part of CountsMatchLog about one quiz on one path. *)
CountsOf(p, q) ==
    IF Answers(p, q) = {} THEN cards[<<p, q>>] = NoCard
    ELSE /\ cards[<<p, q>>] # NoCard
         /\ cards[<<p, q>>].reps = Cardinality(Answers(p, q))
         /\ cards[<<p, q>>].lapses = Cardinality(Lapses(p, q))

(* CountsMatchLog speaks of each quiz of each path by itself. *)
LEMMA CountsByQuiz ==
    CountsMatchLog <=> \A p \in Path, q \in Quiz : CountsOf(p, q)
BY DEF CountsMatchLog, CountsOf

(* No answers, no cards. *)
LEMMA CountsInit == CacheInit => CountsMatchLog
<1> SUFFICES ASSUME CacheInit, NEW p \in Path, NEW q \in Quiz
             PROVE  CountsOf(p, q)
  BY CountsByQuiz
<1>1. Answers(p, q) = {}
  BY DEF CacheInit, Answers
<1>2. cards[<<p, q>>] = NoCard
  BY DEF CacheInit
<1> QED
  BY <1>1, <1>2 DEF CountsOf

(* Both counters of an answered quiz go up with the log. *)
LEMMA CountsOfAnswered ==
    ASSUME CacheTypeOK, NEW p \in Path, NEW q \in Quiz, NEW rating \in Rating,
           CountsOf(p, q), AppendAnswer(p, q, rating)
    PROVE  CountsOf(p, q)'
<1> DEFINE row == [kind |-> "quiz_answered", path |-> p, quiz |-> q,
                   rating |-> rating, ts |-> now]
           n == Len(events) + 1
           card == ApplyAnswer(cards[<<p, q>>], rating, now)
<1>1. row \in Event /\ events' = Append(events, row)
  BY DEF CacheTypeOK, Event, AppendAnswer, Log
<1>2. cards'[<<p, q>>] = card
  BY DEF CacheTypeOK, AppendAnswer
<1>3. /\ Answers(p, q)' = Answers(p, q) \cup {n}
      /\ Lapses(p, q)' = IF rating = "again"
                         THEN Lapses(p, q) \cup {n} ELSE Lapses(p, q)
      /\ n \notin Answers(p, q)
  BY <1>1, AnswersGrow
<1>4. /\ IsFiniteSet(Answers(p, q)) /\ Cardinality(Answers(p, q)) \in Nat
      /\ IsFiniteSet(Lapses(p, q)) /\ Cardinality(Lapses(p, q)) \in Nat
      /\ Lapses(p, q) \subseteq Answers(p, q)
  BY AnswersFinite
<1> HIDE DEF n
<1>5. Cardinality(Answers(p, q)') = Cardinality(Answers(p, q)) + 1
  <2>1. Cardinality(Answers(p, q) \cup {n}) = Cardinality(Answers(p, q)) + 1
    BY <1>3, <1>4, FS_AddElement
  <2> QED
    BY <1>3, <2>1
<1>6. Cardinality(Lapses(p, q)') =
        Cardinality(Lapses(p, q)) + (IF rating = "again" THEN 1 ELSE 0)
  <2>1. n \notin Lapses(p, q)
    BY <1>3, <1>4
  <2>2. Cardinality(Lapses(p, q) \cup {n}) = Cardinality(Lapses(p, q)) + 1
    BY <1>4, <2>1, FS_AddElement
  <2> QED
    BY <1>3, <1>4, <2>2
<1>7. card # NoCard
  BY ApplyAnswerType DEF CacheTypeOK
<1>8. /\ card.reps = Cardinality(Answers(p, q)) + 1
      /\ card.lapses = Cardinality(Lapses(p, q))
                         + (IF rating = "again" THEN 1 ELSE 0)
  <2>1. CASE Answers(p, q) = {}
    <3>1. Cardinality(Answers(p, q)) = 0 /\ Cardinality(Lapses(p, q)) = 0
      BY <2>1, <1>4, FS_EmptySet
    <3> QED
      BY <2>1, <3>1 DEF CountsOf, ApplyAnswer
  <2>2. CASE Answers(p, q) # {}
    BY <2>2 DEF CountsOf, ApplyAnswer
  <2> QED
    BY <2>1, <2>2
<1>9. Answers(p, q)' # {}
  BY <1>3
<1> HIDE DEF card
<1> QED
  BY <1>2, <1>5, <1>6, <1>7, <1>8, <1>9 DEF CountsOf

(* The cards of the other quizzes, and of the other paths, stay put. *)
LEMMA CountsOfOther ==
    ASSUME CacheTypeOK, NEW p \in Path, NEW q \in Quiz, NEW row \in Event,
           events' = Append(events, row), cards'[<<p, q>>] = cards[<<p, q>>],
           ~(row.kind = "quiz_answered" /\ row.path = p /\ row.quiz = q),
           CountsOf(p, q)
    PROVE  CountsOf(p, q)'
BY AnswersKept DEF CountsOf

(* Every step keeps the counters in agreement with the log. *)
LEMMA CountsStep ==
    CacheTypeOK /\ CountsMatchLog /\ [CacheNext]_cacheVars => CountsMatchLog'
<1> SUFFICES ASSUME CacheTypeOK, CountsMatchLog, [CacheNext]_cacheVars,
                    NEW p \in Path, NEW q \in Quiz
             PROVE  CountsOf(p, q)'
  BY CountsByQuiz DEF CountsMatchLog, CountsOf
<1>0. CountsOf(p, q)
  BY CountsByQuiz
<1>1. ASSUME NEW a \in Path, NEW b \in Quiz, NEW rating \in Rating,
             AppendAnswer(a, b, rating)
      PROVE  CountsOf(p, q)'
  <2>1. CASE a = p /\ b = q
    BY <1>0, <1>1, <2>1, CountsOfAnswered
  <2>2. CASE ~(a = p /\ b = q)
    <3> DEFINE row == [kind |-> "quiz_answered", path |-> a, quiz |-> b,
                       rating |-> rating, ts |-> now]
    <3>1. row \in Event /\ events' = Append(events, row)
      BY <1>1 DEF CacheTypeOK, Event, AppendAnswer, Log
    <3>2. cards'[<<p, q>>] = cards[<<p, q>>]
      BY <1>1, <2>2 DEF CacheTypeOK, AppendAnswer
    <3>3. ~(row.kind = "quiz_answered" /\ row.path = p /\ row.quiz = q)
      BY <2>2
    <3> HIDE DEF row
    <3> QED
      BY <1>0, <3>1, <3>2, <3>3, CountsOfOther
  <2> QED
    BY <2>1, <2>2
<1>2. ASSUME NEW a \in Path, NEW b \in Quiz, AppendOther(a, b)
      PROVE  CountsOf(p, q)'
  <2> DEFINE row == [kind |-> "other", path |-> a, quiz |-> b,
                     rating |-> NoRating, ts |-> now]
  <2>1. row \in Event /\ events' = Append(events, row)
    BY <1>2 DEF CacheTypeOK, Event, AppendOther, Log
  <2>2. cards'[<<p, q>>] = cards[<<p, q>>]
    BY <1>2 DEF AppendOther
  <2>3. row.kind # "quiz_answered"
    OBVIOUS
  <2> HIDE DEF row
  <2> QED
    BY <1>0, <2>1, <2>2, <2>3, CountsOfOther
<1>3. CASE UNCHANGED <<events, cards>>
  BY <1>0, <1>3 DEF CountsOf, Answers, Lapses
<1> QED
  BY <1>1, <1>2, <1>3 DEF CacheNext, ClockMoves, cacheVars

(* For every log the code can build, the two counters of each card are the *)
(* number of answers and of "again" answers in the log, and a quiz has a   *)
(* card exactly when it was answered: the cache never drifts.              *)
THEOREM CountsCorrect == CacheSpec => []CountsMatchLog
<1>1. CacheInit => CacheTypeOK /\ CountsMatchLog
  BY TypeInit, CountsInit
<1>2. CacheTypeOK /\ CountsMatchLog /\ [CacheNext]_cacheVars
        => CacheTypeOK' /\ CountsMatchLog'
  BY TypeStep, CountsStep
<1> QED
  BY <1>1, <1>2, PTL DEF CacheSpec

(* `reps > lapses` is a sound and complete test of "answered correctly at  *)
(* least once": two counters stand in for a scan of the log.               *)
LEMMA CountsDecideCorrect ==
    CacheTypeOK /\ CountsMatchLog => CorrectMeansAnswered
<1> SUFFICES ASSUME CacheTypeOK, CountsMatchLog, NEW p \in Path, NEW q \in Quiz
             PROVE  HasCorrect(cards[<<p, q>>]) <=>
                      \E i \in Answers(p, q) : IsCorrect(events[i].rating)
  BY DEF CorrectMeansAnswered
<1>1. CountsOf(p, q)
  BY CountsByQuiz
<1>2. (\E i \in Answers(p, q) : IsCorrect(events[i].rating))
        <=> Lapses(p, q) # Answers(p, q)
  BY DEF Lapses, IsCorrect
<1>3. /\ IsFiniteSet(Answers(p, q))
      /\ Lapses(p, q) \subseteq Answers(p, q)
      /\ Cardinality(Answers(p, q)) \in Nat
      /\ Cardinality(Lapses(p, q)) \in Nat
  BY AnswersFinite
<1>4. /\ Cardinality(Lapses(p, q)) <= Cardinality(Answers(p, q))
      /\ Cardinality(Lapses(p, q)) = Cardinality(Answers(p, q))
           => Lapses(p, q) = Answers(p, q)
  BY <1>3, FS_Subset
<1>5. Cardinality(Answers(p, q)) > Cardinality(Lapses(p, q))
        <=> Lapses(p, q) # Answers(p, q)
  BY <1>3, <1>4
<1>6. CASE Answers(p, q) = {}
  BY <1>1, <1>6 DEF CountsOf, HasCorrect
<1>7. CASE Answers(p, q) # {}
  BY <1>1, <1>2, <1>5, <1>7 DEF CountsOf, HasCorrect
<1> QED
  BY <1>6, <1>7

(* On every reachable state, completion read from the cards is completion  *)
(* read from the log: `correct_quiz_ids` never needs to look at events.    *)
THEOREM CorrectDecided == CacheSpec => []CorrectMeansAnswered
<1>1. CacheTypeOK /\ CountsMatchLog => CorrectMeansAnswered
  BY CountsDecideCorrect
<1> QED
  BY <1>1, TypeCorrect, CountsCorrect, PTL
-----------------------------------------------------------------------------
(* The instants on a card. *)

(* The part of CardTracksLastAnswer about one quiz on one path. *)
TracksLast(p, q) ==
    cards[<<p, q>>] # NoCard =>
        \E i \in Answers(p, q) :
            /\ \A j \in Answers(p, q) : j <= i
            /\ cards[<<p, q>>].last = events[i].ts
            /\ cards[<<p, q>>].due - cards[<<p, q>>].last \in Interval

(* An answer leaves its own instant on the card. *)
LEMMA TracksLastAnswered ==
    ASSUME CacheTypeOK, NEW p \in Path, NEW q \in Quiz, NEW rating \in Rating,
           AppendAnswer(p, q, rating)
    PROVE  TracksLast(p, q)'
<1> DEFINE row == [kind |-> "quiz_answered", path |-> p, quiz |-> q,
                   rating |-> rating, ts |-> now]
           n == Len(events) + 1
           card == ApplyAnswer(cards[<<p, q>>], rating, now)
<1>1. row \in Event /\ events' = Append(events, row)
  BY DEF CacheTypeOK, Event, AppendAnswer, Log
<1>2. cards'[<<p, q>>] = card
  BY DEF CacheTypeOK, AppendAnswer
<1>3. card.last = now /\ card.due - now \in Interval
  BY ApplyAnswerType DEF CacheTypeOK
<1>4. events'[n].ts = now
  BY <1>1 DEF CacheTypeOK
<1>5. Answers(p, q)' = Answers(p, q) \cup {n}
  BY <1>1, AnswersGrow
<1>6. \A j \in Answers(p, q)' : j <= n
  BY <1>5, AnswersFinite
<1> HIDE DEF card
<1>7. n \in Answers(p, q)'
  BY <1>5
<1> QED
  BY <1>2, <1>3, <1>4, <1>6, <1>7 DEF TracksLast

(* Any other row leaves the last answer of this quiz the last. *)
LEMMA TracksLastKept ==
    ASSUME CacheTypeOK, NEW p \in Path, NEW q \in Quiz, NEW row \in Event,
           events' = Append(events, row), cards'[<<p, q>>] = cards[<<p, q>>],
           ~(row.kind = "quiz_answered" /\ row.path = p /\ row.quiz = q),
           TracksLast(p, q)
    PROVE  TracksLast(p, q)'
<1>1. /\ Answers(p, q)' = Answers(p, q)
      /\ \A i \in Answers(p, q) : events'[i] = events[i]
  BY AnswersKept
<1> QED
  BY <1>1 DEF TracksLast

(* Every step keeps each card at its last answer. *)
LEMMA TracksLastStep ==
    CacheTypeOK /\ CardTracksLastAnswer /\ [CacheNext]_cacheVars
      => CardTracksLastAnswer'
<1> SUFFICES ASSUME CacheTypeOK, CardTracksLastAnswer, [CacheNext]_cacheVars,
                    NEW p \in Path, NEW q \in Quiz
             PROVE  TracksLast(p, q)'
  BY DEF CardTracksLastAnswer, TracksLast
<1>0. TracksLast(p, q)
  BY DEF CardTracksLastAnswer, TracksLast
<1>1. ASSUME NEW a \in Path, NEW b \in Quiz, NEW rating \in Rating,
             AppendAnswer(a, b, rating)
      PROVE  TracksLast(p, q)'
  <2>1. CASE a = p /\ b = q
    BY <1>1, <2>1, TracksLastAnswered
  <2>2. CASE ~(a = p /\ b = q)
    <3> DEFINE row == [kind |-> "quiz_answered", path |-> a, quiz |-> b,
                       rating |-> rating, ts |-> now]
    <3>1. row \in Event /\ events' = Append(events, row)
      BY <1>1 DEF CacheTypeOK, Event, AppendAnswer, Log
    <3>2. cards'[<<p, q>>] = cards[<<p, q>>]
      BY <1>1, <2>2 DEF CacheTypeOK, AppendAnswer
    <3>3. ~(row.kind = "quiz_answered" /\ row.path = p /\ row.quiz = q)
      BY <2>2
    <3> HIDE DEF row
    <3> QED
      BY <1>0, <3>1, <3>2, <3>3, TracksLastKept
  <2> QED
    BY <2>1, <2>2
<1>2. ASSUME NEW a \in Path, NEW b \in Quiz, AppendOther(a, b)
      PROVE  TracksLast(p, q)'
  <2> DEFINE row == [kind |-> "other", path |-> a, quiz |-> b,
                     rating |-> NoRating, ts |-> now]
  <2>1. row \in Event /\ events' = Append(events, row)
    BY <1>2 DEF CacheTypeOK, Event, AppendOther, Log
  <2>2. cards'[<<p, q>>] = cards[<<p, q>>]
    BY <1>2 DEF AppendOther
  <2>3. row.kind # "quiz_answered"
    OBVIOUS
  <2> HIDE DEF row
  <2> QED
    BY <1>0, <2>1, <2>2, <2>3, TracksLastKept
<1>3. CASE UNCHANGED <<events, cards>>
  BY <1>0, <1>3 DEF TracksLast, Answers
<1> QED
  BY <1>1, <1>2, <1>3 DEF CacheNext, ClockMoves, cacheVars

(* Whatever the clock does, the card carries the instant of the answer     *)
(* appended last and a due date an FSRS interval after it: FSRS is always  *)
(* given the time since the answer appended last.                          *)
THEOREM LastAnswerTracked == CacheSpec => []CardTracksLastAnswer
<1>1. CacheInit => CardTracksLastAnswer
  BY DEF CacheInit, CardTracksLastAnswer
<1>2. CacheTypeOK /\ CardTracksLastAnswer /\ [CacheNext]_cacheVars
        => CardTracksLastAnswer'
  BY TracksLastStep
<1> QED
  BY <1>1, <1>2, TypeCorrect, PTL DEF CacheSpec

-----------------------------------------------------------------------------
(* The log and the cache implement the abstract review schedule. *)

dueBar == [c \in Path \X Quiz |-> IF cards[c] = NoCard THEN NoDue ELSE cards[c].due]
correctBar == {c \in Path \X Quiz : HasCorrect(cards[c])}

(* A quiz never has more lapses than answers. *)
LEMMA LapsesBounded ==
    ASSUME CacheTypeOK, CountsMatchLog, NEW p \in Path, NEW q \in Quiz,
           cards[<<p, q>>] # NoCard
    PROVE  cards[<<p, q>>].lapses <= cards[<<p, q>>].reps
<1>1. CountsOf(p, q)
  BY CountsByQuiz
<1>2. Cardinality(Lapses(p, q)) <= Cardinality(Answers(p, q))
  BY AnswersFinite, FS_Subset
<1> QED
  BY <1>1, <1>2 DEF CountsOf

(* An answer keeps a card correct, and makes it so unless it is "again". *)
LEMMA AnswerDecidesCorrect ==
    ASSUME CacheTypeOK, CountsMatchLog, NEW p \in Path, NEW q \in Quiz,
           NEW rating \in Rating
    PROVE  HasCorrect(ApplyAnswer(cards[<<p, q>>], rating, now)) <=>
             HasCorrect(cards[<<p, q>>]) \/ IsCorrect(rating)
<1> DEFINE prev == cards[<<p, q>>]
           card == ApplyAnswer(prev, rating, now)
<1>1. prev \in Card \cup {NoCard} /\ card # NoCard
  BY ApplyAnswerType DEF CacheTypeOK
<1>2. CASE prev = NoCard
  <2>1. card.reps = 1 /\ card.lapses = (IF rating = "again" THEN 1 ELSE 0)
    BY <1>2 DEF ApplyAnswer
  <2> HIDE DEF card
  <2>2. HasCorrect(card) <=> IsCorrect(rating)
    BY <1>1, <2>1 DEF HasCorrect, IsCorrect
  <2>3. ~HasCorrect(prev)
    BY <1>2 DEF HasCorrect
  <2> QED
    BY <2>2, <2>3 DEF card
<1>3. CASE prev # NoCard
  <2>1. /\ card.reps = prev.reps + 1
        /\ card.lapses = prev.lapses + (IF rating = "again" THEN 1 ELSE 0)
    BY <1>3 DEF ApplyAnswer
  <2>2. prev.lapses <= prev.reps
    BY <1>3, LapsesBounded
  <2>3. prev.lapses \in Nat /\ prev.reps \in Nat
    BY <1>1, <1>3 DEF Card
  <2> HIDE DEF card, prev
  <2>4. HasCorrect(card) <=> HasCorrect(prev) \/ IsCorrect(rating)
    BY <1>1, <1>3, <2>1, <2>2, <2>3 DEF HasCorrect, IsCorrect
  <2> QED
    BY <2>4 DEF card, prev
<1> QED
  BY <1>2, <1>3

(* An answer of the code is an answer of the abstract schedule, with the   *)
(* interval FSRS chose as the abstract one.                                *)
LEMMA AnswerImplements ==
    ASSUME CacheTypeOK, CountsMatchLog, NEW p \in Path, NEW q \in Quiz,
           NEW rating \in Rating, AppendAnswer(p, q, rating)
    PROVE  Abstract!Answer(p, q, rating)
<1> DEFINE card == ApplyAnswer(cards[<<p, q>>], rating, now)
           interval == card.due - now
<1>1. cards' = [cards EXCEPT ![<<p, q>>] = card] /\ now' = now
  BY DEF AppendAnswer
<1>2. /\ card # NoCard
      /\ interval \in Interval
      /\ card.due \in Nat
  BY ApplyAnswerType DEF CacheTypeOK, Card
<1>3. now + interval = card.due
  BY <1>2, Ranges DEF CacheTypeOK
<1>4. HasCorrect(card) <=> HasCorrect(cards[<<p, q>>]) \/ IsCorrect(rating)
  BY AnswerDecidesCorrect
<1> HIDE DEF card
<1>5. dueBar' = [dueBar EXCEPT ![<<p, q>>] = now + interval]
  <2>1. /\ cards'[<<p, q>>] = card
        /\ \A c \in Path \X Quiz : c # <<p, q>> => cards'[c] = cards[c]
    BY <1>1 DEF CacheTypeOK
  <2> HIDE DEF interval
  <2> QED
    BY <1>2, <1>3, <2>1 DEF dueBar
<1>6. correctBar' = correctBar \cup (IF IsCorrect(rating) THEN {<<p, q>>} ELSE {})
  <2>1. /\ cards'[<<p, q>>] = card
        /\ \A c \in Path \X Quiz : c # <<p, q>> => cards'[c] = cards[c]
    BY <1>1 DEF CacheTypeOK
  <2>2. ASSUME NEW c \in Path \X Quiz
        PROVE  c \in correctBar' <=>
                 c \in correctBar \cup (IF IsCorrect(rating) THEN {<<p, q>>} ELSE {})
    <3>1. CASE c = <<p, q>>
      BY <1>4, <2>1, <3>1 DEF correctBar
    <3>2. CASE c # <<p, q>>
      BY <2>1, <3>2 DEF correctBar
    <3> QED
      BY <3>1, <3>2
  <2>3. /\ correctBar \subseteq Path \X Quiz
        /\ correctBar' \subseteq Path \X Quiz
        /\ <<p, q>> \in Path \X Quiz
    BY DEF correctBar
  <2> QED
    BY <2>2, <2>3
<1> QED
  BY <1>1, <1>2, <1>5, <1>6 DEF Abstract!Answer, Abstract!IsCorrect, IsCorrect, dueBar, correctBar

(* The write-through cache is a correct implementation of the schedule the *)
(* tutor relies on: right answers are never taken back, an answer moves    *)
(* the due date of its own card only, and never to the present.            *)
THEOREM CacheImplementsReview == CacheSpec => ImplementsReview
<1>1. CacheInit => Abstract!ReviewInit
  BY DEF CacheInit, Abstract!ReviewInit, HasCorrect
<1>2. CacheTypeOK /\ CountsMatchLog /\ [CacheNext]_cacheVars
        => [Abstract!ReviewNext]_(Abstract!reviewVars)
  <2> SUFFICES ASSUME CacheTypeOK, CountsMatchLog, [CacheNext]_cacheVars
               PROVE  [Abstract!ReviewNext]_(Abstract!reviewVars)
    OBVIOUS
  <2>1. ASSUME NEW p \in Path, NEW q \in Quiz, NEW rating \in Rating,
               AppendAnswer(p, q, rating)
        PROVE  Abstract!ReviewNext
    BY <2>1, AnswerImplements DEF Abstract!ReviewNext, Abstract!Rating, Rating
  <2>2. CASE UNCHANGED <<cards, now>>
    BY <2>2 DEF Abstract!reviewVars, HasCorrect
  <2>3. CASE ClockMoves
    BY <2>3 DEF ClockMoves, Abstract!ReviewNext, Abstract!Clock, HasCorrect
  <2> QED
    BY <2>1, <2>2, <2>3 DEF CacheNext, AppendOther, cacheVars
<1> QED
  BY <1>1, <1>2, TypeCorrect, CountsCorrect, PTL
     DEF CacheSpec, ImplementsReview, Abstract!ReviewSpec

HIDE DEF Time

-----------------------------------------------------------------------------
(* Migrate. *)

(* A statement of the import, with what it writes. *)
Statements ==
    [op : {"path", "target", "recompute"}, arg : Nat]
        \cup [op : {"event"}, arg : Event] \cup [op : {"overlay"}, arg : Key]

Started == <<Statement("path", 0)>>

MigrateTypeOK ==
    /\ events \in Seq(Event)
    /\ rows \subseteq Path
    /\ overlay \in [Key -> {NoRow, "legacy", "user"}]
    /\ Running => runner \in [dir : DOMAIN LegacyDirs, todo : Seq(Statements)]

Legacy(event) == event.ts # MaxTime

(* Legacy events are in the log once, and only those of imported paths. *)
LoggedOnce ==
    /\ now = MaxTime
    /\ \A i \in DOMAIN events : Legacy(events[i]) =>
         /\ events[i].path \in rows
         /\ \A j \in DOMAIN events : events[i] = events[j] => i = j

(* The events to come are legacy events, told apart, and not in the log. *)
PendingOnce ==
    Running => \A i \in DOMAIN runner.todo : runner.todo[i].op = "event" =>
        LET event == runner.todo[i].arg IN
        /\ Legacy(event)
        /\ event.path \in rows
        /\ \A j \in DOMAIN events : events[j] # event
        /\ \A j \in DOMAIN runner.todo : runner.todo[j] = runner.todo[i] => i = j

(* A row of the overlay is there, or its statement is still to come. *)
Pending(k) == \E i \in DOMAIN runner.todo : runner.todo[i] = Statement("overlay", k)
OverlayOf(d) == {LegacyDirs[d].overlay[i] : i \in DOMAIN LegacyDirs[d].overlay}

OverlayInStep ==
    /\ Running =>
         /\ \A d \in 1 .. runner.dir - 1 : \A k \in OverlayOf(d) : overlay[k] # NoRow
         /\ \/ runner.todo = Started
            \/ \A k \in OverlayOf(runner.dir) : overlay[k] # NoRow \/ Pending(k)
    /\ completed => \A d \in DOMAIN LegacyDirs : \A k \in OverlayOf(d) : overlay[k] # NoRow

IInv == MigrateTypeOK /\ LoggedOnce /\ PendingOnce /\ OverlayInStep

USE DEF Statement, Legacy

-----------------------------------------------------------------------------

(* What is in a sequence is of its kind. *)
LEMMA ElementOf == ASSUME NEW S, NEW s \in Seq(S), NEW i \in DOMAIN s PROVE s[i] \in S
  OBVIOUS

(* The directories are numbered. *)
LEMMA DirsNumbered ==
    DOMAIN LegacyDirs = 1 .. Len(LegacyDirs) /\ Len(LegacyDirs) \in Nat /\ 1 \in DOMAIN LegacyDirs
<1>1. ASSUME NEW S, NEW s \in Seq(S), s # <<>>
      PROVE  DOMAIN s = 1 .. Len(s) /\ Len(s) \in Nat /\ 1 \in DOMAIN s
  BY <1>1
<1>2. QED
  BY <1>1, MigrateAssumption

(* The record of a directory has the fields the import reads. *)
LEMMA DirShape ==
    ASSUME NEW d \in DOMAIN LegacyDirs
    PROVE  /\ LegacyDirs[d] \in [path : Path, targets : Nat, log : Seq(Event),
                                 overlay : Seq(Key)]
           /\ OverlayOf(d) \subseteq Key
<1>1. LegacyDirs[d] \in [path : Path, targets : Nat, log : Seq(Event), overlay : Seq(Key)]
  BY MigrateAssumption, ElementOf
<1>2. QED
  BY <1>1 DEF OverlayOf

(* A sequence is its head followed by its tail. *)
LEMMA TailOf ==
    ASSUME NEW S, NEW s \in Seq(S), s # <<>>
    PROVE  /\ Tail(s) \in Seq(S)
           /\ Head(s) = s[1] /\ s[1] \in S /\ 1 \in DOMAIN s
           /\ \A i \in DOMAIN Tail(s) : i + 1 \in DOMAIN s /\ i + 1 # 1 /\ Tail(s)[i] = s[i + 1]
           /\ \A i \in DOMAIN s : i # 1 => i - 1 \in DOMAIN Tail(s) /\ Tail(s)[i - 1] = s[i]
  OBVIOUS

(* Appending one element. *)
LEMMA Appended ==
    ASSUME NEW S, NEW s \in Seq(S), NEW x \in S
    PROVE  /\ Append(s, x) \in Seq(S)
           /\ DOMAIN Append(s, x) = DOMAIN s \cup {Len(s) + 1}
           /\ Len(s) + 1 \notin DOMAIN s
           /\ Append(s, x)[Len(s) + 1] = x
           /\ \A i \in DOMAIN s : Append(s, x)[i] = s[i]
           /\ IsPrefix(s, Append(s, x))
  BY DEF IsPrefix

(* Where the elements of a concatenation are. *)
LEMMA Concatenated ==
    ASSUME NEW S, NEW s \in Seq(S), NEW t \in Seq(S)
    PROVE  /\ s \o t \in Seq(S)
           /\ \A i \in DOMAIN s : i \in DOMAIN (s \o t) /\ (s \o t)[i] = s[i]
           /\ \A i \in DOMAIN t : Len(s) + i \in DOMAIN (s \o t) /\ (s \o t)[Len(s) + i] = t[i]
           /\ \A i \in DOMAIN (s \o t) :
                 \/ i \in DOMAIN s
                 \/ i - Len(s) \in DOMAIN t /\ (s \o t)[i] = t[i - Len(s)]
  OBVIOUS

(* The statements written for a directory: rows of the overlay always, and *)
(* the events of the log, each once, if the path is new.                   *)
LEMMA ScriptShape ==
    ASSUME Running, runner.dir \in DOMAIN LegacyDirs, NEW fresh \in BOOLEAN
    PROVE  /\ Script(fresh) \in Seq(Statements)
           /\ \A k \in OverlayOf(runner.dir) :
                 \E i \in DOMAIN Script(fresh) : Script(fresh)[i] = Statement("overlay", k)
           /\ \A i \in DOMAIN Script(fresh) : Script(fresh)[i].op = "event" =>
                 /\ fresh
                 /\ Script(fresh)[i].arg \in Event
                 /\ Legacy(Script(fresh)[i].arg)
                 /\ Script(fresh)[i].arg.path = Dir.path
                 /\ \A j \in DOMAIN Script(fresh) :
                       Script(fresh)[i] = Script(fresh)[j] => i = j
<1> DEFINE a == [i \in 1 .. Dir.targets |-> Statement("target", i)]
           b == [i \in DOMAIN Dir.log |-> Statement("event", Dir.log[i])]
           c == IF Dir.log = <<>> THEN <<>> ELSE <<Statement("recompute", 0)>>
           h == IF fresh THEN a \o b \o c ELSE <<>>
           o == [i \in DOMAIN Dir.overlay |-> Statement("overlay", Dir.overlay[i])]
<1>1. Dir \in [path : Path, targets : Nat, log : Seq(Event), overlay : Seq(Key)]
  BY DirShape DEF Dir
<1>2. a \in Seq(Statements) /\ Len(a) = Dir.targets /\ \A i \in DOMAIN a : a[i].op = "target"
  BY <1>1 DEF Statements
<1>3. /\ b \in Seq(Statements) /\ Len(b) = Len(Dir.log) /\ DOMAIN b = DOMAIN Dir.log
      /\ \A i \in DOMAIN b : b[i].op = "event" /\ b[i].arg = Dir.log[i] /\ Dir.log[i] \in Event
  <2>1. \A i \in DOMAIN Dir.log : Dir.log[i] \in Event BY <1>1
  <2>2. \A i \in DOMAIN Dir.log : Statement("event", Dir.log[i]) \in Statements
    BY <2>1 DEF Statements
  <2>3. DOMAIN Dir.log = 1 .. Len(Dir.log) /\ Len(Dir.log) \in Nat BY <1>1
  <2>4. QED BY <2>1, <2>2, <2>3
<1>4. c \in Seq(Statements) /\ \A i \in DOMAIN c : c[i].op = "recompute"
  <2>1. <<Statement("recompute", 0)>> \in Seq(Statements) BY DEF Statements
  <2>2. CASE Dir.log = <<>> BY <2>2
  <2>3. CASE Dir.log # <<>> BY <2>1, <2>3
  <2>4. QED BY <2>2, <2>3
<1>5. /\ o \in Seq(Statements) /\ DOMAIN o = DOMAIN Dir.overlay
      /\ \A i \in DOMAIN o : o[i].op = "overlay" /\ o[i] = Statement("overlay", Dir.overlay[i])
  <2>1. \A i \in DOMAIN Dir.overlay : Dir.overlay[i] \in Key BY <1>1
  <2>2. \A i \in DOMAIN Dir.overlay : Statement("overlay", Dir.overlay[i]) \in Statements
    BY <2>1 DEF Statements
  <2>3. DOMAIN Dir.overlay = 1 .. Len(Dir.overlay) /\ Len(Dir.overlay) \in Nat BY <1>1
  <2>4. QED BY <2>2, <2>3
<1>6. Script(fresh) = h \o o
  BY DEF Script
<1> HIDE DEF a, b, c, o
<1>7. a \o b \in Seq(Statements) /\ a \o b \o c \in Seq(Statements)
  BY <1>2, <1>3, <1>4
<1>8. ASSUME NEW i \in DOMAIN (a \o b \o c), (a \o b \o c)[i].op = "event"
      PROVE  /\ i - Len(a) \in DOMAIN b
             /\ (a \o b \o c)[i] = b[i - Len(a)]
  <2>1. CASE i \in DOMAIN a
    BY <2>1, <1>2, <1>3, <1>4, <1>8
  <2>2. CASE i - Len(a) \in DOMAIN b
    BY <2>2, <1>2, <1>3, <1>4, <1>8
  <2>3. CASE i - Len(a \o b) \in DOMAIN c
    <3>1. (a \o b \o c)[i] = c[i - Len(a \o b)] BY <2>3, <1>4, <1>7
    <3>2. QED BY <2>3, <3>1, <1>4, <1>8
  <2>4. QED
    BY <2>1, <2>2, <2>3, <1>2, <1>3, <1>4, <1>7
<1>9. h \in Seq(Statements)
  BY <1>7
<1>10. Script(fresh) \in Seq(Statements)
  BY <1>5, <1>6, <1>9
<1>11. ASSUME NEW k \in OverlayOf(runner.dir)
       PROVE  \E i \in DOMAIN Script(fresh) : Script(fresh)[i] = Statement("overlay", k)
  <2>1. PICK i \in DOMAIN o : o[i] = Statement("overlay", k)
    BY <1>5, <1>11 DEF OverlayOf, Dir
  <2> HIDE DEF h
  <2>2. Len(h) + i \in DOMAIN (h \o o) /\ (h \o o)[Len(h) + i] = o[i]
    BY <1>5, <1>9, Concatenated
  <2>3. QED BY <2>1, <2>2, <1>6
<1>12. ASSUME NEW i \in DOMAIN Script(fresh), Script(fresh)[i].op = "event"
       PROVE  /\ fresh
              /\ i - Len(a) \in DOMAIN b
              /\ Script(fresh)[i] = b[i - Len(a)]
              /\ i \in Nat
  <2>1. i \in DOMAIN h /\ Script(fresh)[i] = h[i] /\ i \in Nat
    <3> HIDE DEF h
    <3>1. CASE i \in DOMAIN h
      BY <3>1, <1>5, <1>6, <1>9
    <3>2. CASE i - Len(h) \in DOMAIN o
      <4>1. i \in DOMAIN h \/ (h \o o)[i] = o[i - Len(h)]
        BY <1>5, <1>6, <1>9, Concatenated
      <4>2. QED BY <3>1, <3>2, <4>1, <1>5, <1>6, <1>12
    <3>3. QED BY <3>1, <3>2, <1>5, <1>6, <1>9
  <2>2. fresh
    BY <2>1
  <2>3. h = a \o b \o c
    BY <2>2
  <2>4. QED
    BY <2>1, <2>2, <2>3, <1>8, <1>12
<1>13. ASSUME NEW i \in DOMAIN Script(fresh), Script(fresh)[i].op = "event"
       PROVE  /\ fresh
              /\ Script(fresh)[i].arg \in Event
              /\ Legacy(Script(fresh)[i].arg)
              /\ Script(fresh)[i].arg.path = Dir.path
              /\ \A j \in DOMAIN Script(fresh) : Script(fresh)[i] = Script(fresh)[j] => i = j
  <2> DEFINE x == i - Len(a)
  <2>1. /\ fresh /\ x \in DOMAIN Dir.log /\ i \in Nat
        /\ Script(fresh)[i].arg = Dir.log[x] /\ Dir.log[x] \in Event
    BY <1>3, <1>12, <1>13
  <2>2. /\ Dir.log[x].path = Dir.path /\ Dir.log[x].ts # MaxTime
        /\ \A y \in DOMAIN Dir.log : Dir.log[x] = Dir.log[y] => x = y
    BY <2>1, MigrateAssumption DEF Dir
  <2>3. ASSUME NEW j \in DOMAIN Script(fresh), Script(fresh)[i] = Script(fresh)[j]
        PROVE  i = j
    <3>1. /\ j - Len(a) \in DOMAIN Dir.log /\ j \in Nat
          /\ Script(fresh)[j].arg = Dir.log[j - Len(a)]
      BY <1>3, <1>12, <1>13, <2>3
    <3>2. i - Len(a) = j - Len(a) BY <2>1, <2>2, <2>3, <3>1
    <3>3. QED BY <2>1, <3>1, <3>2, <1>2
  <2>4. QED BY <2>1, <2>2, <2>3
<1>14. QED
  BY <1>10, <1>11, <1>13
-----------------------------------------------------------------------------

(* The invariant holds before the first run. *)
LEMMA ImportInit == MigrateInit => IInv
<1> SUFFICES ASSUME MigrateInit PROVE IInv
  OBVIOUS
<1>1. MigrateTypeOK
  BY DEF MigrateInit, CacheInit, MigrateTypeOK, Running
<1>2. LoggedOnce
  BY DEF MigrateInit, CacheInit, LoggedOnce
<1>3. PendingOnce /\ OverlayInStep
  BY DEF MigrateInit, PendingOnce, OverlayInStep, Running
<1>4. QED
  BY <1>1, <1>2, <1>3 DEF IInv

(* A run starts with the path row of the first directory. *)
LEMMA StartStep == IInv /\ StartRun => IInv'
<1> SUFFICES ASSUME IInv, StartRun PROVE IInv'
  OBVIOUS
<1> USE DEF IInv, StartRun, cacheVars
<1>1. 1 \in DOMAIN LegacyDirs
  BY DirsNumbered
<1>2. MigrateTypeOK'
  <2>1. Started \in Seq(Statements) BY DEF Started, Statements
  <2>2. QED BY <1>1, <2>1 DEF MigrateTypeOK, Started
<1>3. LoggedOnce'
  BY DEF LoggedOnce
<1>4. PendingOnce'
  BY DEF PendingOnce
<1>5. OverlayInStep'
  BY <1>1 DEF OverlayInStep, OverlayOf, Started
<1>6. QED
  BY <1>2, <1>3, <1>4, <1>5

(* A run that breaks off has nothing more to write. *)
LEMMA BreakStep == IInv /\ BreakOff => IInv'
  BY DEF IInv, BreakOff, cacheVars, MigrateTypeOK, LoggedOnce, PendingOnce, OverlayInStep,
         OverlayOf, Running

(* A new path is written with the script of its directory: nothing of its  *)
(* log is in the table yet.                                                *)
LEMMA PathStep == IInv /\ ImportPath => IInv'
<1> SUFFICES ASSUME IInv, ImportPath PROVE IInv'
  OBVIOUS
<1> DEFINE fresh == Dir.path \notin rows
<1>1. /\ Running /\ runner \in [dir : DOMAIN LegacyDirs, todo : Seq(Statements)]
      /\ runner' = [runner EXCEPT !.todo = Script(fresh)]
      /\ rows' = rows \cup {Dir.path}
      /\ UNCHANGED <<overlay, completed, events, cards, now>>
  BY DEF IInv, MigrateTypeOK, ImportPath, NextIs, cacheVars
<1>2. runner.dir \in DOMAIN LegacyDirs /\ fresh \in BOOLEAN
  BY <1>1
<1>3. /\ runner' \in [dir : DOMAIN LegacyDirs, todo : Seq(Statements)]
      /\ runner'.dir = runner.dir /\ runner'.todo = Script(fresh)
  <2>1. Script(fresh) \in Seq(Statements) BY <1>1, <1>2, ScriptShape
  <2>2. QED BY <1>1, <2>1
<1>4. Dir.path \in Path
  BY <1>2, DirShape DEF Dir
<1>5. MigrateTypeOK'
  BY <1>1, <1>3, <1>4 DEF IInv, MigrateTypeOK
<1>6. LoggedOnce'
  BY <1>1 DEF IInv, LoggedOnce
<1>7. PendingOnce'
  <2> SUFFICES ASSUME NEW i \in DOMAIN Script(fresh), Script(fresh)[i].op = "event"
               PROVE  /\ Legacy(Script(fresh)[i].arg)
                      /\ Script(fresh)[i].arg.path \in rows'
                      /\ \A j \in DOMAIN events : events[j] # Script(fresh)[i].arg
                      /\ \A j \in DOMAIN Script(fresh) :
                            Script(fresh)[j] = Script(fresh)[i] => i = j
    BY <1>1, <1>3 DEF PendingOnce
  <2>1. /\ fresh
        /\ Legacy(Script(fresh)[i].arg)
        /\ Script(fresh)[i].arg.path = Dir.path
        /\ \A j \in DOMAIN Script(fresh) : Script(fresh)[i] = Script(fresh)[j] => i = j
    BY <1>1, <1>2, ScriptShape
  <2>2. \A j \in DOMAIN events : events[j] # Script(fresh)[i].arg
    BY <2>1 DEF IInv, LoggedOnce
  <2>3. QED BY <1>1, <2>1, <2>2
<1>8. OverlayInStep'
  <2>1. \A k \in OverlayOf(runner.dir) :
           \E i \in DOMAIN Script(fresh) : Script(fresh)[i] = Statement("overlay", k)
    BY <1>1, <1>2, ScriptShape
  <2>2. \A k \in OverlayOf(runner.dir) : Pending(k)'
    BY <1>3, <2>1 DEF Pending
  <2>3. QED BY <1>1, <1>3, <2>2 DEF IInv, OverlayInStep, OverlayOf
<1>9. QED
  BY <1>5, <1>6, <1>7, <1>8 DEF IInv

(* A statement other than the path row takes itself off the list; what the *)
(* invariant says of the others stays.                                     *)
LEMMA ProceedStep ==
    ASSUME IInv, Running, runner.todo # <<>>, Proceed, Head(runner.todo).op # "path"
    PROVE  /\ runner \in [dir : DOMAIN LegacyDirs, todo : Seq(Statements)]
           /\ runner' \in [dir : DOMAIN LegacyDirs, todo : Seq(Statements)]
           /\ runner'.dir = runner.dir /\ runner'.todo = Tail(runner.todo)
           /\ \A k \in OverlayOf(runner.dir) :
                 overlay[k] # NoRow \/ Pending(k)' \/ Head(runner.todo) = Statement("overlay", k)
           /\ \A i \in DOMAIN runner'.todo : runner'.todo[i].op = "event" =>
                 LET event == runner'.todo[i].arg IN
                 /\ Legacy(event) /\ event.path \in rows
                 /\ \A j \in DOMAIN events : events[j] # event
                 /\ Head(runner.todo) # Statement("event", event)
                 /\ \A j \in DOMAIN runner'.todo :
                       runner'.todo[j] = runner'.todo[i] => i = j
<1> DEFINE s == runner.todo
<1>1. runner \in [dir : DOMAIN LegacyDirs, todo : Seq(Statements)]
  BY DEF IInv, MigrateTypeOK
<1>2. s \in Seq(Statements) /\ s # <<>>
  BY <1>1
<1>3. runner' = [runner EXCEPT !.todo = Tail(s)]
  BY DEF Proceed
<1>4. /\ runner' \in [dir : DOMAIN LegacyDirs, todo : Seq(Statements)]
      /\ runner'.dir = runner.dir /\ runner'.todo = Tail(s)
  BY <1>1, <1>2, <1>3, TailOf
<1>5. /\ Head(s) = s[1] /\ 1 \in DOMAIN s
      /\ \A i \in DOMAIN Tail(s) : i + 1 \in DOMAIN s /\ i + 1 # 1 /\ Tail(s)[i] = s[i + 1]
      /\ \A i \in DOMAIN s : i # 1 => i - 1 \in DOMAIN Tail(s) /\ Tail(s)[i - 1] = s[i]
      /\ \A i \in DOMAIN Tail(s) : i \in Nat
  <2>1. Tail(s) \in Seq(Statements) BY <1>2, TailOf
  <2>2. \A i \in DOMAIN Tail(s) : i \in Nat BY <2>1
  <2>3. QED BY <1>2, <2>2, TailOf
<1> HIDE DEF s
<1>6. ASSUME NEW k \in OverlayOf(runner.dir)
      PROVE  overlay[k] # NoRow \/ Pending(k)' \/ Head(s) = Statement("overlay", k)
  <2>1. s # Started
    BY <1>5 DEF Started, s
  <2>2. overlay[k] # NoRow \/ Pending(k)
    BY <2>1, <1>6 DEF IInv, OverlayInStep, s
  <2>3. CASE Pending(k)
    <3>1. PICK i \in DOMAIN s : s[i] = Statement("overlay", k) BY <2>3 DEF Pending, s
    <3>2. CASE i = 1 BY <3>1, <3>2, <1>5
    <3>3. CASE i # 1
      <4>1. i - 1 \in DOMAIN Tail(s) /\ Tail(s)[i - 1] = Statement("overlay", k)
        BY <3>1, <3>3, <1>5
      <4>2. QED BY <4>1, <1>4 DEF Pending
    <3>4. QED BY <3>2, <3>3
  <2>4. QED BY <2>2, <2>3
<1>7. ASSUME NEW i \in DOMAIN Tail(s), Tail(s)[i].op = "event"
      PROVE  /\ Legacy(Tail(s)[i].arg) /\ Tail(s)[i].arg.path \in rows
             /\ \A j \in DOMAIN events : events[j] # Tail(s)[i].arg
             /\ Head(s) # Statement("event", Tail(s)[i].arg)
             /\ \A j \in DOMAIN Tail(s) : Tail(s)[j] = Tail(s)[i] => i = j
  <2>1. i + 1 \in DOMAIN s /\ i + 1 # 1 /\ s[i + 1] = Tail(s)[i] /\ s[i + 1].op = "event"
    BY <1>5, <1>7
  <2>2. /\ Legacy(s[i + 1].arg) /\ s[i + 1].arg.path \in rows
        /\ \A j \in DOMAIN events : events[j] # s[i + 1].arg
        /\ \A j \in DOMAIN s : s[j] = s[i + 1] => i + 1 = j
    BY <2>1 DEF IInv, PendingOnce, s
  <2>3. Head(s) # s[i + 1]
    BY <2>1, <2>2, <1>5
  <2>4. s[i + 1] = Statement("event", s[i + 1].arg)
    <3>1. s[i + 1] \in Statements BY <1>2, <2>1, ElementOf
    <3>2. QED BY <2>1, <3>1 DEF Statements
  <2>5. \A j \in DOMAIN Tail(s) : Tail(s)[j] = Tail(s)[i] => i = j
    BY <2>1, <2>2, <1>5
  <2>6. QED BY <2>1, <2>2, <2>3, <2>4, <2>5
<1>8. QED
  BY <1>1, <1>4, <1>6, <1>7 DEF s

(* Statements that write neither events nor the overlay. *)
LEMMA QuietStep == IInv /\ (ImportTarget \/ RebuildCards) => IInv'
<1> SUFFICES ASSUME IInv, ImportTarget \/ RebuildCards PROVE IInv'
  OBVIOUS
<1>1. /\ Running /\ runner.todo # <<>> /\ Proceed /\ Head(runner.todo).op \in {"target", "recompute"}
      /\ UNCHANGED <<rows, overlay, completed, events, now>>
  BY DEF ImportTarget, RebuildCards, NextIs, cacheVars
<1>2. MigrateTypeOK'
  BY <1>1, ProceedStep DEF IInv, MigrateTypeOK
<1>3. LoggedOnce'
  BY <1>1 DEF IInv, LoggedOnce
<1>4. PendingOnce'
  BY <1>1, ProceedStep DEF PendingOnce
<1>5. OverlayInStep'
  <2>1. \A k \in OverlayOf(runner.dir) : overlay[k] # NoRow \/ Pending(k)'
    <3>1. \A k \in OverlayOf(runner.dir) :
             overlay[k] # NoRow \/ Pending(k)' \/ Head(runner.todo) = Statement("overlay", k)
      BY <1>1, ProceedStep
    <3>2. \A k : Head(runner.todo) # Statement("overlay", k)
      BY <1>1
    <3>3. QED BY <3>1, <3>2
  <2>2. runner'.dir = runner.dir
    BY <1>1, ProceedStep
  <2>3. QED BY <1>1, <2>1, <2>2 DEF IInv, OverlayInStep, OverlayOf
<1>6. QED
  BY <1>2, <1>3, <1>4, <1>5 DEF IInv

(* One more event: legacy and new to the log, or answered by the user now. *)
LEMMA LoggedStep ==
    ASSUME IInv, NEW event \in Event, events' = Append(events, event),
           UNCHANGED <<rows, now>>,
           Legacy(event) => event.path \in rows /\ \A i \in DOMAIN events : events[i] # event
    PROVE  /\ events' \in Seq(Event)
           /\ LoggedOnce'
           /\ \A e : Legacy(e) /\ e # event /\ (\A j \in DOMAIN events : events[j] # e)
                       => \A j \in DOMAIN events' : events'[j] # e
<1>1. events \in Seq(Event)
  BY DEF IInv, MigrateTypeOK
<1>2. /\ events' \in Seq(Event)
      /\ DOMAIN events' = DOMAIN events \cup {Len(events) + 1}
      /\ Len(events) + 1 \notin DOMAIN events
      /\ events'[Len(events) + 1] = event
      /\ \A i \in DOMAIN events : events'[i] = events[i]
  BY <1>1, Appended
<1>3. LoggedOnce'
  BY <1>2 DEF IInv, LoggedOnce
<1>4. QED
  BY <1>2, <1>3

(* An event of the script goes into the log, and is no longer to come. *)
LEMMA EventStep == IInv /\ ImportEvent => IInv'
<1> SUFFICES ASSUME IInv, ImportEvent PROVE IInv'
  OBVIOUS
<1> DEFINE event == Head(runner.todo).arg
<1>1. /\ Running /\ runner.todo # <<>> /\ Proceed /\ Head(runner.todo).op = "event"
      /\ events' = Append(events, event)
      /\ UNCHANGED <<rows, overlay, completed, now>>
  BY DEF ImportEvent, NextIs
<1>2. /\ Head(runner.todo) = Statement("event", event) /\ event \in Event
      /\ Legacy(event) /\ event.path \in rows /\ \A i \in DOMAIN events : events[i] # event
  <2>1. runner.todo \in Seq(Statements) BY <1>1, ProceedStep
  <2>2. Head(runner.todo) = runner.todo[1] /\ runner.todo[1] \in Statements
        /\ 1 \in DOMAIN runner.todo
    BY <1>1, <2>1, TailOf
  <2>3. Head(runner.todo) = Statement("event", event) /\ event \in Event
    BY <1>1, <2>2 DEF Statements
  <2>4. QED BY <1>1, <2>2, <2>3 DEF IInv, PendingOnce
<1> HIDE DEF event
<1>3. /\ events' \in Seq(Event)
      /\ LoggedOnce'
      /\ \A e : Legacy(e) /\ e # event /\ (\A j \in DOMAIN events : events[j] # e)
                  => \A j \in DOMAIN events' : events'[j] # e
  BY <1>1, <1>2, LoggedStep
<1>4. MigrateTypeOK'
  BY <1>1, <1>3, ProceedStep DEF IInv, MigrateTypeOK
<1>5. PendingOnce'
  <2> SUFFICES ASSUME NEW i \in DOMAIN runner'.todo, runner'.todo[i].op = "event"
               PROVE  /\ Legacy(runner'.todo[i].arg)
                      /\ runner'.todo[i].arg.path \in rows'
                      /\ \A j \in DOMAIN events' : events'[j] # runner'.todo[i].arg
                      /\ \A j \in DOMAIN runner'.todo :
                            runner'.todo[j] = runner'.todo[i] => i = j
    BY DEF PendingOnce
  <2>1. /\ Legacy(runner'.todo[i].arg) /\ runner'.todo[i].arg.path \in rows
        /\ \A j \in DOMAIN events : events[j] # runner'.todo[i].arg
        /\ Head(runner.todo) # Statement("event", runner'.todo[i].arg)
        /\ \A j \in DOMAIN runner'.todo : runner'.todo[j] = runner'.todo[i] => i = j
    BY <1>1, ProceedStep
  <2>2. runner'.todo[i].arg # event
    BY <1>2, <2>1
  <2>3. QED BY <1>1, <1>3, <2>1, <2>2
<1>6. OverlayInStep'
  <2>1. \A k \in OverlayOf(runner.dir) : overlay[k] # NoRow \/ Pending(k)'
    <3>1. \A k \in OverlayOf(runner.dir) :
             overlay[k] # NoRow \/ Pending(k)' \/ Head(runner.todo) = Statement("overlay", k)
      BY <1>1, ProceedStep
    <3>2. \A k : Head(runner.todo) # Statement("overlay", k)
      BY <1>1
    <3>3. QED BY <3>1, <3>2
  <2>2. runner'.dir = runner.dir
    BY <1>1, ProceedStep
  <2>3. QED BY <1>1, <2>1, <2>2 DEF IInv, OverlayInStep, OverlayOf
<1>7. QED
  BY <1>3, <1>4, <1>5, <1>6 DEF IInv

(* A row of the overlay is written where there is none, and stays. *)
LEMMA OverlayStep == IInv /\ ImportOverlay => IInv'
<1> SUFFICES ASSUME IInv, ImportOverlay PROVE IInv'
  OBVIOUS
<1> DEFINE key == Head(runner.todo).arg
<1>1. /\ Running /\ runner.todo # <<>> /\ Proceed /\ Head(runner.todo).op = "overlay"
      /\ overlay' = [overlay EXCEPT ![key] = IF @ = NoRow THEN "legacy" ELSE @]
      /\ UNCHANGED <<rows, completed, events, now>>
  BY DEF ImportOverlay, NextIs, cacheVars
<1>2. key \in Key
  <2>1. runner.todo \in Seq(Statements) BY <1>1, ProceedStep
  <2>2. Head(runner.todo) \in Statements BY <1>1, <2>1, TailOf
  <2>3. QED BY <1>1, <2>2 DEF Statements
<1>3. overlay \in [Key -> {NoRow, "legacy", "user"}]
  BY DEF IInv, MigrateTypeOK
<1> HIDE DEF key
<1>4. /\ overlay' \in [Key -> {NoRow, "legacy", "user"}]
      /\ \A k \in Key : overlay[k] # NoRow => overlay'[k] # NoRow
      /\ overlay'[key] # NoRow
  BY <1>1, <1>2, <1>3, MigrateAssumption
<1>5. MigrateTypeOK'
  BY <1>1, <1>4, ProceedStep DEF IInv, MigrateTypeOK
<1>6. LoggedOnce'
  BY <1>1 DEF IInv, LoggedOnce
<1>7. PendingOnce'
  BY <1>1, ProceedStep DEF PendingOnce
<1>8. OverlayInStep'
  <2>1. /\ runner \in [dir : DOMAIN LegacyDirs, todo : Seq(Statements)]
        /\ runner'.dir = runner.dir
    BY <1>1, ProceedStep
  <2>2. runner.dir \in DOMAIN LegacyDirs /\ \A d \in 1 .. runner.dir : d \in DOMAIN LegacyDirs
    BY <2>1, DirsNumbered
  <2>3. \A d \in 1 .. runner.dir - 1 : d \in DOMAIN LegacyDirs
    BY <2>2, DirsNumbered
  <2>4. \A d \in DOMAIN LegacyDirs : OverlayOf(d) \subseteq Key
    BY DirShape
  <2>5. \A k \in OverlayOf(runner.dir) : overlay'[k] # NoRow \/ Pending(k)'
    <3> SUFFICES ASSUME NEW k \in OverlayOf(runner.dir)
                 PROVE  overlay'[k] # NoRow \/ Pending(k)'
      OBVIOUS
    <3>1. overlay[k] # NoRow \/ Pending(k)' \/ Head(runner.todo) = Statement("overlay", k)
      BY <1>1, ProceedStep
    <3>2. Head(runner.todo) = Statement("overlay", k) => k = key
      BY DEF key
    <3>3. k \in Key BY <2>2, <2>4
    <3>4. QED BY <1>4, <3>1, <3>2, <3>3
  <2>6. \A d \in 1 .. runner.dir - 1 : \A k \in OverlayOf(d) : overlay'[k] # NoRow
    BY <1>1, <1>4, <2>3, <2>4 DEF IInv, OverlayInStep
  <2>7. completed' => \A d \in DOMAIN LegacyDirs : \A k \in OverlayOf(d) : overlay'[k] # NoRow
    BY <1>1, <1>4, <2>4 DEF IInv, OverlayInStep
  <2>8. QED BY <2>1, <2>5, <2>6, <2>7 DEF OverlayInStep, OverlayOf
<1>9. QED
  BY <1>5, <1>6, <1>7, <1>8 DEF IInv

(* A directory is done with all rows of its overlay there. *)
LEMMA DirectoryStep == IInv /\ NextDirectory => IInv'
<1> SUFFICES ASSUME IInv, NextDirectory PROVE IInv'
  OBVIOUS
<1>1. /\ Running /\ runner.todo = <<>>
      /\ UNCHANGED <<rows, overlay, events, now>>
  BY DEF NextDirectory, cacheVars
<1>2. /\ runner.dir \in DOMAIN LegacyDirs /\ runner.dir \in 1 .. Len(LegacyDirs)
      /\ DOMAIN LegacyDirs = 1 .. Len(LegacyDirs) /\ Len(LegacyDirs) \in Nat
  BY <1>1, DirsNumbered DEF IInv, MigrateTypeOK
<1>3. \A k \in OverlayOf(runner.dir) : overlay[k] # NoRow
  BY <1>1 DEF IInv, OverlayInStep, Started, Pending
<1>4. \A d \in 1 .. runner.dir : \A k \in OverlayOf(d) : overlay[k] # NoRow
  <2>1. \A d \in 1 .. runner.dir : d = runner.dir \/ d \in 1 .. runner.dir - 1
    BY <1>2
  <2>2. QED BY <1>1, <1>3, <2>1 DEF IInv, OverlayInStep
<1>5. CASE runner.dir < Len(LegacyDirs)
  <2>1. /\ runner' = [dir |-> runner.dir + 1, todo |-> Started]
        /\ UNCHANGED completed
    BY <1>5 DEF NextDirectory, Started
  <2>2. runner'.dir \in DOMAIN LegacyDirs /\ runner'.dir - 1 = runner.dir
        /\ runner'.todo = Started
    BY <1>2, <1>5, <2>1
  <2>3. MigrateTypeOK'
    <3>1. Started \in Seq(Statements) BY DEF Started, Statements
    <3>2. QED BY <1>1, <1>2, <1>5, <2>1, <3>1 DEF IInv, MigrateTypeOK
  <2>4. LoggedOnce' BY <1>1 DEF IInv, LoggedOnce
  <2>5. PendingOnce' BY <2>2 DEF PendingOnce, Started
  <2>6. OverlayInStep'
    BY <1>1, <1>4, <2>1, <2>2 DEF IInv, OverlayInStep, OverlayOf
  <2>7. QED BY <2>3, <2>4, <2>5, <2>6 DEF IInv
<1>6. CASE ~(runner.dir < Len(LegacyDirs))
  <2>1. runner' = NotRunning
    BY <1>6 DEF NextDirectory
  <2>2. ~Running' BY <2>1 DEF Running
  <2>3. MigrateTypeOK' BY <1>1, <2>2 DEF IInv, MigrateTypeOK
  <2>4. LoggedOnce' BY <1>1 DEF IInv, LoggedOnce
  <2>5. PendingOnce' BY <2>2 DEF PendingOnce
  <2>6. 1 .. runner.dir = DOMAIN LegacyDirs BY <1>2, <1>6
  <2>7. OverlayInStep' BY <1>1, <1>4, <2>2, <2>6 DEF OverlayInStep, OverlayOf
  <2>8. QED BY <2>3, <2>4, <2>5, <2>7 DEF IInv
<1>7. QED
  BY <1>5, <1>6

(* What the user does: an answer is no legacy event, an edit leaves a row. *)
LEMMA UserStep ==
    ASSUME IInv,
           \/ \E p \in Path, q \in Quiz, rating \in Rating : UserAnswers(p, q, rating)
           \/ \E k \in Key : UserEdits(k)
    PROVE  IInv'
<1>1. ASSUME NEW p \in Path, NEW q \in Quiz, NEW rating \in Rating, UserAnswers(p, q, rating)
      PROVE  IInv'
  <2> DEFINE event == [kind |-> "quiz_answered", path |-> p, quiz |-> q,
                       rating |-> rating, ts |-> now]
  <2>1. /\ events' = Append(events, event)
        /\ UNCHANGED <<rows, overlay, runner, completed, now>>
    BY <1>1 DEF UserAnswers, AppendAnswer, Log, importVars
  <2>2. now = MaxTime /\ event \in Event /\ ~Legacy(event)
    BY CacheAssumption DEF IInv, LoggedOnce, Event, Time
  <2> HIDE DEF event
  <2>3. /\ events' \in Seq(Event)
        /\ LoggedOnce'
        /\ \A e : Legacy(e) /\ e # event /\ (\A j \in DOMAIN events : events[j] # e)
                    => \A j \in DOMAIN events' : events'[j] # e
    BY <2>1, <2>2, LoggedStep
  <2>4. MigrateTypeOK'
    BY <2>1, <2>3 DEF IInv, MigrateTypeOK, Running
  <2>5. PendingOnce'
    BY <2>1, <2>2, <2>3 DEF IInv, PendingOnce, Running
  <2>6. OverlayInStep'
    BY <2>1 DEF IInv, OverlayInStep, OverlayOf, Pending, Running
  <2>7. QED BY <2>3, <2>4, <2>5, <2>6 DEF IInv
<1>2. ASSUME NEW k \in Key, UserEdits(k)
      PROVE  IInv'
  <2>1. /\ overlay' = [overlay EXCEPT ![k] = "user"]
        /\ UNCHANGED <<rows, runner, completed, events, now>>
    BY <1>2 DEF UserEdits, cacheVars
  <2>2. overlay \in [Key -> {NoRow, "legacy", "user"}]
    BY DEF IInv, MigrateTypeOK
  <2>3. /\ overlay' \in [Key -> {NoRow, "legacy", "user"}]
        /\ \A key \in Key : overlay[key] # NoRow => overlay'[key] # NoRow
    BY <2>1, <2>2, MigrateAssumption
  <2>4. \A d \in DOMAIN LegacyDirs : OverlayOf(d) \subseteq Key
    BY DirShape
  <2>5. MigrateTypeOK' BY <2>1, <2>3 DEF IInv, MigrateTypeOK, Running
  <2>6. LoggedOnce' BY <2>1 DEF IInv, LoggedOnce
  <2>7. PendingOnce' BY <2>1 DEF IInv, PendingOnce, Running
  <2>8. Running => /\ runner.dir \in DOMAIN LegacyDirs
                   /\ \A d \in 1 .. runner.dir - 1 : d \in DOMAIN LegacyDirs
    BY DirsNumbered DEF IInv, MigrateTypeOK
  <2>9. OverlayInStep'
    BY <2>1, <2>3, <2>4, <2>8 DEF IInv, OverlayInStep, OverlayOf, Pending, Running
  <2>10. QED BY <2>5, <2>6, <2>7, <2>9 DEF IInv
<1>3. QED
  BY <1>1, <1>2

(* No step of the import or of the user breaks the invariant. *)
LEMMA ImportStep == IInv /\ [MigrateNext]_migrateVars => IInv'
<1> SUFFICES ASSUME IInv, [MigrateNext]_migrateVars PROVE IInv'
  OBVIOUS
<1>1. CASE MigrateNext
  BY <1>1, StartStep, BreakStep, PathStep, QuietStep, EventStep, OverlayStep, DirectoryStep,
     UserStep DEF MigrateNext
<1>2. CASE UNCHANGED migrateVars
  BY <1>2 DEF migrateVars, importVars, cacheVars, IInv, MigrateTypeOK, LoggedOnce, PendingOnce,
              OverlayInStep, OverlayOf, Pending, Running
<1>3. QED
  BY <1>1, <1>2

(* The invariant holds throughout. *)
THEOREM Invariance == MigrateSpec => []IInv
<1>1. MigrateInit => IInv
  BY ImportInit
<1>2. IInv /\ [MigrateNext]_migrateVars => IInv'
  BY ImportStep
<1>3. QED
  BY <1>1, <1>2, PTL DEF MigrateSpec

(* A set without two elements. *)
LEMMA AtMostOne ==
    ASSUME NEW S, \A x, y \in S : x = y
    PROVE  Cardinality(S) <= 1
<1>1. CASE S = {}
  <2>1. Cardinality(S) = 0 BY <1>1, FS_EmptySet
  <2>2. QED BY <2>1
<1>2. CASE S # {}
  <2>1. PICK x \in S : S = {x} BY <1>2
  <2>2. Cardinality(S) = 1 BY <2>1, FS_Singleton
  <2>3. QED BY <2>2
<1>3. QED
  BY <1>1, <1>2

(* However often `mt migrate` runs and wherever it breaks off, no event of *)
(* a legacy log comes twice into the table.                                *)
THEOREM NoDuplicates == MigrateSpec => []ImportedOnce
<1>1. IInv => ImportedOnce
  <2> SUFFICES ASSUME IInv, NEW d \in ToSet(LegacyDirs), NEW event \in ToSet(d.log)
               PROVE  Cardinality({i \in DOMAIN events : events[i] = event}) <= 1
    BY DEF ImportedOnce
  <2> DEFINE copies == {i \in DOMAIN events : events[i] = event}
  <2>1. PICK n \in DOMAIN LegacyDirs : d = LegacyDirs[n]
    BY DEF ToSet
  <2>2. Legacy(event)
    <3>1. PICK i \in DOMAIN d.log : event = d.log[i]
      BY DEF ToSet
    <3>2. QED BY <2>1, <3>1, MigrateAssumption
  <2>3. \A i, j \in copies : i = j
    BY <2>2 DEF IInv, LoggedOnce
  <2>4. QED BY <2>3, AtMostOne
<1>2. QED
  BY <1>1, Invariance, PTL

(* When a run has ended, every overlay row of every directory is there,    *)
(* those that earlier runs left out included.                              *)
THEOREM OverlayComplete == MigrateSpec => []OverlayImported
<1>1. IInv => OverlayImported
  <2> SUFFICES ASSUME IInv, completed, NEW d \in ToSet(LegacyDirs), NEW k \in ToSet(d.overlay)
               PROVE  overlay[k] # NoRow
    BY DEF OverlayImported
  <2>1. PICK n \in DOMAIN LegacyDirs : d = LegacyDirs[n]
    BY DEF ToSet
  <2>2. k \in OverlayOf(n)
    BY <2>1 DEF OverlayOf, ToSet
  <2>3. QED BY <2>1, <2>2 DEF IInv, OverlayInStep
<1>2. QED
  BY <1>1, Invariance, PTL

(* No step of any run overwrites an edit of the user, nor takes an event   *)
(* out of the log.                                                         *)
THEOREM EditsKept == MigrateSpec => ImportKeepsEdits
<1> DEFINE Kept == /\ \A k \in Key : overlay[k] = "user" => overlay'[k] = "user"
                   /\ IsPrefix(events, events')
<1>1. IInv /\ [MigrateNext]_migrateVars => [Kept]_migrateVars
  <2> SUFFICES ASSUME IInv, MigrateNext PROVE Kept
    OBVIOUS
  <2>1. events \in Seq(Event) /\ overlay \in [Key -> {NoRow, "legacy", "user"}]
    BY DEF IInv, MigrateTypeOK
  <2>2. events' = events \/ \E event \in Event : events' = Append(events, event)
    <3>1. CASE ImportEvent
      <4>1. Running /\ runner.todo # <<>> /\ Head(runner.todo).op = "event"
            /\ events' = Append(events, Head(runner.todo).arg)
        BY <3>1 DEF ImportEvent, NextIs
      <4>2. runner.todo \in Seq(Statements)
        BY <4>1 DEF IInv, MigrateTypeOK
      <4>3. Head(runner.todo) \in Statements
        BY <4>1, <4>2, TailOf
      <4>4. Head(runner.todo).arg \in Event
        BY <4>1, <4>3 DEF Statements
      <4>5. QED BY <4>1, <4>4
    <3>2. ASSUME NEW p \in Path, NEW q \in Quiz, NEW rating \in Rating, UserAnswers(p, q, rating)
          PROVE  \E event \in Event : events' = Append(events, event)
      <4> DEFINE event == [kind |-> "quiz_answered", path |-> p, quiz |-> q,
                           rating |-> rating, ts |-> now]
      <4>1. events' = Append(events, event)
        BY <3>2 DEF UserAnswers, AppendAnswer, Log
      <4>2. event \in Event
        BY CacheAssumption DEF IInv, LoggedOnce, Event, Time
      <4>3. QED BY <4>1, <4>2
    <3>3. CASE \/ StartRun \/ ImportPath \/ ImportTarget \/ RebuildCards \/ ImportOverlay
               \/ NextDirectory \/ BreakOff \/ \E k \in Key : UserEdits(k)
      BY <3>3 DEF StartRun, ImportPath, ImportTarget, RebuildCards, ImportOverlay,
                  NextDirectory, BreakOff, UserEdits, cacheVars
    <3>4. QED BY <3>1, <3>2, <3>3 DEF MigrateNext
  <2>3. IsPrefix(events, events')
    <3>1. IsPrefix(events, events) BY <2>1 DEF IsPrefix
    <3>2. \A event \in Event : IsPrefix(events, Append(events, event))
      BY <2>1, Appended
    <3>3. QED BY <2>2, <3>1, <3>2
  <2>4. ASSUME NEW k \in Key, overlay[k] = "user" PROVE overlay'[k] = "user"
    <3>1. CASE ImportOverlay
      BY <2>1, <2>4, <3>1, MigrateAssumption DEF ImportOverlay
    <3>2. ASSUME NEW key \in Key, UserEdits(key) PROVE overlay'[k] = "user"
      BY <2>1, <2>4, <3>2 DEF UserEdits
    <3>3. CASE \/ StartRun \/ ImportPath \/ ImportTarget \/ ImportEvent \/ RebuildCards
               \/ NextDirectory \/ BreakOff
               \/ \E p \in Path, q \in Quiz, rating \in Rating : UserAnswers(p, q, rating)
      <4>1. overlay' = overlay
        BY <3>3 DEF StartRun, ImportPath, ImportTarget, ImportEvent, RebuildCards,
                    NextDirectory, BreakOff, UserAnswers, importVars
      <4>2. QED BY <2>4, <4>1
    <3>4. QED BY <3>1, <3>2, <3>3 DEF MigrateNext
  <2>5. QED BY <2>3, <2>4
<1>2. QED
  BY <1>1, Invariance, PTL DEF MigrateSpec, ImportKeepsEdits
-----------------------------------------------------------------------------
(* The replay of a log. *)

(* An event that `fold_history` counts for the card of q on p. *)
AnswerOf(event, p, q) ==
    event.kind = "quiz_answered" /\ event.path = p /\ event.quiz = q /\ event.rating # NoRating

(* card[n] is the card of q on p after the first n rows of a log. *)
Replays(card, log, p, q) ==
    /\ card \in [0 .. Len(log) -> Card \cup {NoCard}]
    /\ card[0] = NoCard
    /\ \A n \in 1 .. Len(log) :
          card[n] = IF AnswerOf(log[n], p, q)
                    THEN ApplyAnswer(card[n - 1], log[n].rating, log[n].ts) ELSE card[n - 1]

LEMMA ReplaySteps ==
    ASSUME NEW log \in Seq(Event), NEW p, NEW q
    PROVE  \E card : Replays(card, log, p, q) /\ Replay(log, p, q) = card[Len(log)]
<1> DEFINE V == Card \cup {NoCard}
           step == [n \in 1 .. Len(log) |->
                      [v \in V |-> IF AnswerOf(log[n], p, q)
                                   THEN ApplyAnswer(v, log[n].rating, log[n].ts) ELSE v]]
<1>1. Len(log) \in Nat /\ NoCard \in V
  OBVIOUS
<1>2. ASSUME NEW n \in 1 .. Len(log), NEW v \in V
      PROVE  (IF AnswerOf(log[n], p, q) THEN ApplyAnswer(v, log[n].rating, log[n].ts) ELSE v) \in V
  <2>1. log[n] \in Event /\ n \in DOMAIN log
    OBVIOUS
  <2>2. log[n].ts \in Time
    BY <2>1 DEF Event
  <2>3. CASE AnswerOf(log[n], p, q)
    <3>1. log[n].rating \in Rating
      BY <2>1, <2>3 DEF Event, AnswerOf
    <3>2. ApplyAnswer(v, log[n].rating, log[n].ts) \in Card
      BY <2>2, <3>1, ApplyAnswerType
    <3>3. QED BY <2>3, <3>2
  <2>4. CASE ~AnswerOf(log[n], p, q)
    BY <2>4
  <2>5. QED BY <2>3, <2>4
<1>3. step \in [1 .. Len(log) -> [V -> V]]
  <2> HIDE DEF V
  <2>1. QED BY <1>2
<1>4. PICK f : CountsUp(f, Len(log), V, NoCard, step)
  <2> HIDE DEF step, V
  <2>1. QED BY <1>1, <1>3, CountRecursion
<1>5. /\ f \in [0 .. Len(log) -> V] /\ f[0] = NoCard
      /\ \A n \in 1 .. Len(log) : f[n] = step[n][f[n - 1]]
  BY <1>4 DEF CountsUp
<1>6. ASSUME NEW n \in 1 .. Len(log)
      PROVE  f[n] = IF AnswerOf(log[n], p, q)
                    THEN ApplyAnswer(f[n - 1], log[n].rating, log[n].ts) ELSE f[n - 1]
  <2>1. n - 1 \in 0 .. Len(log)
    BY <1>1
  <2>2. f[n - 1] \in V
    BY <2>1, <1>5
  <2> HIDE DEF V
  <2>3. QED BY <2>2, <1>5
<1> HIDE DEF step
<1> DEFINE card[n \in 0 .. Len(log)] ==
             IF n = 0 THEN NoCard
             ELSE IF AnswerOf(log[n], p, q)
                  THEN ApplyAnswer(card[n - 1], log[n].rating, log[n].ts)
                  ELSE card[n - 1]
<1>7. Replay(log, p, q) = card[Len(log)]
  BY DEF Replay, AnswerOf
<1>8. f = [n \in 0 .. Len(log) |->
             IF n = 0 THEN NoCard
             ELSE IF AnswerOf(log[n], p, q)
                  THEN ApplyAnswer(f[n - 1], log[n].rating, log[n].ts) ELSE f[n - 1]]
  <2>1. DOMAIN f = 0 .. Len(log) /\ f = [n \in 0 .. Len(log) |-> f[n]]
    BY <1>5
  <2>2. \A n \in 0 .. Len(log) :
           f[n] = IF n = 0 THEN NoCard
                  ELSE IF AnswerOf(log[n], p, q)
                       THEN ApplyAnswer(f[n - 1], log[n].rating, log[n].ts) ELSE f[n - 1]
    <3> TAKE n \in 0 .. Len(log)
    <3>1. n = 0 \/ n \in 1 .. Len(log)
      BY <1>1
    <3>2. n \in 1 .. Len(log) => n # 0
      BY <1>1
    <3>3. QED BY <3>1, <3>2, <1>5, <1>6, Zenon
  <2>3. QED BY <2>1, <2>2, Zenon
<1>9. PICK g : /\ g = card
               /\ g = [n \in 0 .. Len(log) |->
                         IF n = 0 THEN NoCard
                         ELSE IF AnswerOf(log[n], p, q)
                              THEN ApplyAnswer(g[n - 1], log[n].rating, log[n].ts) ELSE g[n - 1]]
  BY <1>8, Zenon
<1> HIDE DEF card
<1>10. DOMAIN g = 0 .. Len(log) /\ g[0] = NoCard
  <2>1. 0 \in 0 .. Len(log)
    BY <1>1
  <2>2. QED BY <1>9, <2>1, Zenon
<1>11. ASSUME NEW n \in 1 .. Len(log)
       PROVE  g[n] = IF AnswerOf(log[n], p, q)
                     THEN ApplyAnswer(g[n - 1], log[n].rating, log[n].ts) ELSE g[n - 1]
  <2>1. n \in 0 .. Len(log) /\ n # 0
    BY <1>1
  <2>2. QED BY <1>9, <2>1, Zenon
<1>12. \A n \in 0 .. Len(log) : g[n] \in V
  <2> DEFINE T == {n \in 0 .. Len(log) : g[n] \in V}
  <2>1. 0 \in T
    BY <1>1, <1>10
  <2>2. ASSUME NEW n \in 1 .. Len(log), n - 1 \in T PROVE n \in T
    <3>1. g[n - 1] \in V
      BY <2>2
    <3>2. g[n] \in V
      <4> HIDE DEF V
      <4>1. QED BY <3>1, <1>2, <1>11, Zenon
    <3>3. n \in 0 .. Len(log)
      BY <1>1
    <3>4. QED BY <3>2, <3>3
  <2> HIDE DEF T
  <2>3. \A n \in 0 .. Len(log) : n \in T
    BY <1>1, <2>1, <2>2, CountInduction
  <2>4. QED BY <2>3 DEF T
<1>13. g \in [0 .. Len(log) -> V]
  <2>1. g = [n \in 0 .. Len(log) |-> g[n]]
    BY <1>9, <1>10, Zenon
  <2> HIDE DEF V
  <2>2. QED BY <1>12, <2>1
<1>14. Replay(log, p, q) = g[Len(log)]
  BY <1>7, <1>9
<1>15. QED
  BY <1>10, <1>11, <1>13, <1>14 DEF Replays

(* Two replays of logs that begin alike agree so far. *)
LEMMA ReplaysAgree ==
    ASSUME NEW log, NEW longer, NEW p, NEW q, NEW f, NEW g,
           Len(log) \in Nat, Len(longer) \in Nat, Len(log) <= Len(longer),
           \A n \in 1 .. Len(log) : log[n] = longer[n],
           Replays(f, log, p, q), Replays(g, longer, p, q)
    PROVE  \A n \in 0 .. Len(log) : f[n] = g[n]
<1> DEFINE T == {n \in 0 .. Len(log) : f[n] = g[n]}
<1>1. 0 \in T
  BY DEF Replays
<1>2. ASSUME NEW n \in 1 .. Len(log), n - 1 \in T PROVE n \in T
  <2>1. n \in 1 .. Len(longer) /\ n \in 0 .. Len(log)
    OBVIOUS
  <2>2. f[n - 1] = g[n - 1] /\ log[n] = longer[n]
    BY <1>2
  <2>3. f[n] = g[n]
    BY <2>1, <2>2, Zenon DEF Replays
  <2>4. QED BY <2>1, <2>3
<1> HIDE DEF T
<1>3. \A n \in 0 .. Len(log) : n \in T
  BY <1>1, <1>2, CountInduction
<1>4. QED BY <1>3 DEF T

(* The replay of no rows, and of one row more. *)
LEMMA ReplayGrows ==
    /\ \A p, q : Replay(<<>>, p, q) = NoCard
    /\ \A log \in Seq(Event), event \in Event : \A p, q :
           /\ Replay(log, p, q) \in Card \cup {NoCard}
           /\ Replay(Append(log, event), p, q) =
                IF AnswerOf(event, p, q) THEN ApplyAnswer(Replay(log, p, q), event.rating, event.ts)
                ELSE Replay(log, p, q)
<1>1. ASSUME NEW p, NEW q PROVE Replay(<<>>, p, q) = NoCard
  <2>1. PICK none : none = <<>>
    OBVIOUS
  <2>2. none \in Seq(Event) /\ Len(none) = 0
    BY <2>1
  <2>3. PICK f : Replays(f, none, p, q) /\ Replay(none, p, q) = f[Len(none)]
    BY <2>2, ReplaySteps
  <2>4. QED BY <2>1, <2>2, <2>3 DEF Replays
<1>2. ASSUME NEW log \in Seq(Event), NEW event \in Event, NEW p, NEW q
      PROVE  /\ Replay(log, p, q) \in Card \cup {NoCard}
             /\ Replay(Append(log, event), p, q) =
                  IF AnswerOf(event, p, q)
                  THEN ApplyAnswer(Replay(log, p, q), event.rating, event.ts)
                  ELSE Replay(log, p, q)
  <2>1. PICK longer : longer = Append(log, event)
    OBVIOUS
  <2>2. /\ longer \in Seq(Event) /\ Len(longer) = Len(log) + 1 /\ Len(log) \in Nat
        /\ longer[Len(log) + 1] = event /\ \A n \in 1 .. Len(log) : log[n] = longer[n]
    BY <2>1
  <2>4. PICK f : Replays(f, log, p, q) /\ Replay(log, p, q) = f[Len(log)]
    BY ReplaySteps
  <2>5. PICK g : Replays(g, longer, p, q) /\ Replay(longer, p, q) = g[Len(longer)]
    BY <2>2, ReplaySteps
  <2>6. f[Len(log)] = g[Len(log)]
    BY <2>2, <2>4, <2>5, ReplaysAgree
  <2>7. g[Len(log) + 1] = IF AnswerOf(event, p, q)
                          THEN ApplyAnswer(g[Len(log)], event.rating, event.ts) ELSE g[Len(log)]
    <3>1. Len(log) + 1 \in 1 .. Len(longer) /\ (Len(log) + 1) - 1 = Len(log)
      BY <2>2
    <3>2. QED BY <2>2, <2>5, <3>1 DEF Replays
  <2>8. f[Len(log)] \in Card \cup {NoCard}
    BY <2>2, <2>4 DEF Replays
  <2>9. QED BY <2>1, <2>2, <2>4, <2>5, <2>6, <2>7, <2>8
<1>3. QED BY <1>1, <1>2

-----------------------------------------------------------------------------
(* The cards after an import. *)

(* The cards of p are still to be rebuilt. *)
Rebuilding(p) ==
    Running /\ Dir.path = p /\ \E i \in DOMAIN runner.todo : runner.todo[i].op = "recompute"

(* Events to come are of the path being imported, and its cards are        *)
(* rebuilt after the last of them; a path row comes alone.                 *)
HistoryInOrder ==
    Running =>
        /\ \A i \in DOMAIN runner.todo : runner.todo[i].op = "event" =>
              /\ runner.todo[i].arg.path = Dir.path
              /\ \E j \in DOMAIN runner.todo : i < j /\ runner.todo[j].op = "recompute"
        /\ \A i \in DOMAIN runner.todo : runner.todo[i].op = "path" => runner.todo = Started

(* Every card is the replay of its log, unless it is still to be rebuilt,  *)
(* or never will be.                                                       *)
CardsInStep ==
    /\ cards \in [Path \X Quiz -> Card \cup {NoCard}]
    /\ \A p \in Path, q \in Quiz :
          p \notin halfImported /\ ~Rebuilding(p) => cards[<<p, q>>] = Replay(events, p, q)

RebuildInv == IInv /\ HistoryInOrder /\ CardsInStep
(* The script of a directory is in that order. *)
LEMMA ScriptOrder ==
    ASSUME Running, runner.dir \in DOMAIN LegacyDirs, NEW fresh \in BOOLEAN,
           NEW i \in DOMAIN Script(fresh)
    PROVE  /\ Script(fresh)[i].op # "path"
           /\ Script(fresh)[i].op = "event" =>
                \E j \in DOMAIN Script(fresh) : i < j /\ Script(fresh)[j].op = "recompute"
<1> DEFINE a == [n \in 1 .. Dir.targets |-> Statement("target", n)]
           b == [n \in DOMAIN Dir.log |-> Statement("event", Dir.log[n])]
           c == IF Dir.log = <<>> THEN <<>> ELSE <<Statement("recompute", 0)>>
           h == IF fresh THEN a \o b \o c ELSE <<>>
           o == [n \in DOMAIN Dir.overlay |-> Statement("overlay", Dir.overlay[n])]
<1>1. Dir \in [path : Path, targets : Nat, log : Seq(Event), overlay : Seq(Key)]
  BY DirShape DEF Dir
<1>2. a \in Seq(Statements) /\ \A n \in DOMAIN a : a[n].op = "target"
  BY <1>1 DEF Statements
<1>3. /\ b \in Seq(Statements) /\ DOMAIN b = DOMAIN Dir.log /\ Len(b) \in Nat
      /\ \A n \in DOMAIN b : b[n].op = "event"
  <2>1. \A n \in DOMAIN Dir.log : Dir.log[n] \in Event BY <1>1
  <2>2. \A n \in DOMAIN Dir.log : Statement("event", Dir.log[n]) \in Statements BY <2>1 DEF Statements
  <2>3. DOMAIN Dir.log = 1 .. Len(Dir.log) /\ Len(Dir.log) \in Nat BY <1>1
  <2>4. QED BY <2>2, <2>3
<1>4. /\ c \in Seq(Statements) /\ \A n \in DOMAIN c : c[n].op = "recompute"
      /\ DOMAIN b # {} => Len(c) = 1
  <2>1. <<Statement("recompute", 0)>> \in Seq(Statements) BY DEF Statements
  <2>2. Dir.log = <<>> => DOMAIN b = {} BY <1>3
  <2>3. QED BY <2>1, <2>2
<1>5. o \in Seq(Statements) /\ \A n \in DOMAIN o : o[n].op = "overlay"
  <2>1. \A n \in DOMAIN Dir.overlay : Dir.overlay[n] \in Key BY <1>1
  <2>2. \A n \in DOMAIN Dir.overlay : Statement("overlay", Dir.overlay[n]) \in Statements BY <2>1 DEF Statements
  <2>3. DOMAIN Dir.overlay = 1 .. Len(Dir.overlay) /\ Len(Dir.overlay) \in Nat BY <1>1
  <2>4. QED BY <2>2, <2>3
<1>6. Script(fresh) = h \o o
  BY DEF Script
<1> HIDE DEF a, b, c, o
<1>7. a \o b \in Seq(Statements) /\ (a \o b) \o c \in Seq(Statements)
  BY <1>2, <1>3, <1>4
<1>8. ASSUME NEW n \in DOMAIN ((a \o b) \o c)
      PROVE  /\ ((a \o b) \o c)[n].op # "path"
             /\ ((a \o b) \o c)[n].op = "event" =>
                  \E j \in DOMAIN ((a \o b) \o c) :
                     n < j /\ ((a \o b) \o c)[j].op = "recompute"
  <2>1. PICK ab \in Seq(Statements) : ab = a \o b
    BY <1>7
  <2>2. \/ n \in DOMAIN ab /\ (ab \o c)[n] = ab[n]
        \/ n - Len(ab) \in DOMAIN c /\ (ab \o c)[n] = c[n - Len(ab)]
    BY <1>4, <2>1, <1>8
  <2>3. CASE n - Len(ab) \in DOMAIN c /\ (ab \o c)[n] = c[n - Len(ab)]
    BY <1>4, <2>1, <2>3
  <2>4. CASE n \in DOMAIN ab /\ (ab \o c)[n] = ab[n]
    <3>1. \/ n \in DOMAIN a /\ ab[n] = a[n]
          \/ n - Len(a) \in DOMAIN b /\ ab[n] = b[n - Len(a)]
      BY <1>2, <1>3, <2>1, <2>4
    <3>2. CASE n \in DOMAIN a /\ ab[n] = a[n]
      BY <1>2, <2>1, <2>4, <3>2
    <3>3. CASE n - Len(a) \in DOMAIN b /\ ab[n] = b[n - Len(a)]
      <4>1. Len(c) = 1 /\ 1 \in DOMAIN c /\ c[1].op = "recompute"
        BY <1>4, <3>3
      <4>2. Len(ab) + 1 \in DOMAIN (ab \o c) /\ (ab \o c)[Len(ab) + 1] = c[1]
        BY <1>4, <2>1, <4>1, Concatenated
      <4>3. n < Len(ab) + 1
        BY <2>4
      <4>4. (ab \o c)[n].op = "event"
        BY <1>3, <2>4, <3>3
      <4>5. QED BY <2>1, <4>1, <4>2, <4>3, <4>4
    <3>4. QED BY <3>1, <3>2, <3>3
  <2>5. QED BY <2>2, <2>3, <2>4
<1>9. /\ h \in Seq(Statements)
      /\ \A n \in DOMAIN h :
           /\ h[n].op # "path"
           /\ h[n].op = "event" => \E j \in DOMAIN h : n < j /\ h[j].op = "recompute"
  <2>1. CASE fresh
    <3>1. h = (a \o b) \o c
      BY <2>1
    <3> HIDE DEF h
    <3>2. QED BY <1>7, <1>8, <3>1
  <2>2. CASE ~fresh
    BY <2>2
  <2>3. QED BY <2>1, <2>2
<1> HIDE DEF h
<1>10. \/ i \in DOMAIN h /\ (h \o o)[i] = h[i]
       \/ i - Len(h) \in DOMAIN o /\ (h \o o)[i] = o[i - Len(h)]
  BY <1>5, <1>6, <1>9
<1>11. CASE i - Len(h) \in DOMAIN o /\ (h \o o)[i] = o[i - Len(h)]
  BY <1>5, <1>6, <1>11
<1>12. CASE i \in DOMAIN h /\ (h \o o)[i] = h[i]
  <2>1. \A j \in DOMAIN h : j \in DOMAIN (h \o o) /\ (h \o o)[j] = h[j]
    BY <1>5, <1>9
  <2>2. QED BY <1>6, <1>9, <1>12, <2>1
<1>13. QED BY <1>10, <1>11, <1>12

(* A run under way is told from none. *)
LEMMA NotRunningApart ==
    ASSUME NEW run \in [dir : DOMAIN LegacyDirs, todo : Seq(Statements)]
    PROVE  run # NotRunning
<1> DEFINE S == [op : {"path", "target", "event", "recompute", "overlay"},
                 arg : Nat \cup Event \cup Key]
<1>1. Statements \subseteq S
  BY DEF Statements
<1>2. \A list \in Seq(Statements) : list \in Seq(S)
  <2> HIDE DEF S
  <2>1. QED BY <1>1
<1>3. DOMAIN LegacyDirs \subseteq Nat
  BY DirsNumbered
<1>4. run \in [dir : Nat, todo : Seq(S)]
  <2> HIDE DEF S
  <2>1. QED BY <1>2, <1>3
<1>5. QED BY <1>4, MigrateAssumption

(* A statement of the script is carried out: those to come are in order. *)
LEMMA ProceedOrder ==
    ASSUME IInv, HistoryInOrder, Running, runner.todo # <<>>, Proceed, Head(runner.todo).op # "path"
    PROVE  /\ HistoryInOrder'
           /\ Head(runner.todo).op # "recompute" => \A p : Rebuilding(p) => Rebuilding(p)'
           /\ Head(runner.todo).op = "event" =>
                /\ Head(runner.todo).arg.path = Dir.path
                /\ \A p : p = Dir.path => Rebuilding(p)'
           /\ \A p : p # Dir.path => ~Rebuilding(p)
<1>1. /\ runner \in [dir : DOMAIN LegacyDirs, todo : Seq(Statements)]
      /\ runner' \in [dir : DOMAIN LegacyDirs, todo : Seq(Statements)]
      /\ runner'.dir = runner.dir /\ runner'.todo = Tail(runner.todo)
  BY ProceedStep
<1>2. PICK s \in Seq(Statements) : s = runner.todo
  BY <1>1
<1>3. PICK t \in Seq(Statements) : t = runner'.todo
  BY <1>1
<1>4. /\ Head(s) = s[1] /\ 1 \in DOMAIN s
      /\ \A i \in DOMAIN t : i + 1 \in DOMAIN s /\ t[i] = s[i + 1]
      /\ \A i \in DOMAIN s : i # 1 => i - 1 \in DOMAIN t /\ t[i - 1] = s[i]
      /\ DOMAIN s \subseteq Nat /\ DOMAIN t \subseteq Nat
  BY <1>1, <1>2, <1>3, TailOf
<1>5. Dir' = Dir
  BY <1>1 DEF Dir
<1>6. /\ \A i \in DOMAIN s : s[i].op = "event" =>
            /\ s[i].arg.path = Dir.path
            /\ \E j \in DOMAIN s : i < j /\ s[j].op = "recompute"
      /\ \A i \in DOMAIN s : s[i].op = "path" => s = Started
  BY <1>2 DEF HistoryInOrder
<1>7. \A i \in DOMAIN s : s[i].op # "path"
  <2>1. s # Started
    BY <1>2, <1>4 DEF Started
  <2>2. QED BY <1>6, <2>1
<1>8. HistoryInOrder'
  <2>1. ASSUME NEW i \in DOMAIN t, t[i].op = "event"
        PROVE  /\ t[i].arg.path = Dir.path
               /\ \E j \in DOMAIN t : i < j /\ t[j].op = "recompute"
    <3>1. i + 1 \in DOMAIN s /\ s[i + 1] = t[i] /\ i \in Nat
      BY <1>4
    <3>2. PICK j \in DOMAIN s : i + 1 < j /\ s[j].op = "recompute"
      BY <1>6, <2>1, <3>1
    <3>3. j # 1 /\ j \in Nat
      BY <1>4, <3>1, <3>2
    <3>4. j - 1 \in DOMAIN t /\ t[j - 1] = s[j] /\ i < j - 1
      BY <1>4, <3>1, <3>2, <3>3
    <3>5. QED BY <1>6, <2>1, <3>1, <3>2, <3>4
  <2>2. \A i \in DOMAIN t : t[i].op # "path"
    BY <1>4, <1>7
  <2>3. QED BY <1>3, <1>5, <2>1, <2>2 DEF HistoryInOrder
<1>9. ASSUME NEW p, Rebuilding(p), Head(s).op # "recompute" PROVE Rebuilding(p)'
  <2>1. PICK i \in DOMAIN s : s[i].op = "recompute" /\ Dir.path = p
    BY <1>2, <1>9 DEF Rebuilding
  <2>2. i - 1 \in DOMAIN t /\ t[i - 1].op = "recompute"
    BY <1>4, <1>9, <2>1
  <2>3. Running'
    BY <1>1, <1>3, <2>2, NotRunningApart DEF Running
  <2>4. QED BY <1>3, <1>5, <2>1, <2>2, <2>3 DEF Rebuilding
<1>10. Head(s).op = "event" => Rebuilding(Dir.path) /\ Head(s).arg.path = Dir.path
  BY <1>2, <1>4, <1>6 DEF Rebuilding
<1>11. Head(s).op = "event" => Head(s).op # "recompute"
  OBVIOUS
<1>12. Head(s).op = "event" => \A p : p = Dir.path => Rebuilding(p)'
  BY <1>9, <1>10, <1>11
<1>13. QED BY <1>2, <1>8, <1>9, <1>10, <1>12 DEF Rebuilding
(* What is not rebuilt stays as it is while log and cards do. *)
LEMMA CardsStay ==
    ASSUME CardsInStep, UNCHANGED <<events, cards>>, halfImported \subseteq halfImported',
           \A p \in Path : Rebuilding(p) => Rebuilding(p)' \/ p \in halfImported'
    PROVE  CardsInStep'
  BY DEF CardsInStep

(* One more row: its card is folded, or it is of a path being rebuilt.     *)
LEMMA CardsGrow ==
    ASSUME IInv, CardsInStep, NEW event \in Event, events' = Append(events, event),
           UNCHANGED halfImported, \A p \in Path : Rebuilding(p) => Rebuilding(p)',
           cards' \in [Path \X Quiz -> Card \cup {NoCard}],
           \A p \in Path, q \in Quiz :
             \/ Rebuilding(p)'
             \/ cards'[<<p, q>>] = IF AnswerOf(event, p, q)
                                   THEN ApplyAnswer(cards[<<p, q>>], event.rating, event.ts)
                                   ELSE cards[<<p, q>>]
    PROVE  CardsInStep'
<1>1. events \in Seq(Event)
  BY DEF IInv, MigrateTypeOK
<1>2. \A p, q : Replay(events', p, q) =
                  IF AnswerOf(event, p, q)
                  THEN ApplyAnswer(Replay(events, p, q), event.rating, event.ts)
                  ELSE Replay(events, p, q)
  BY <1>1, ReplayGrows
<1>3. ASSUME NEW p \in Path, NEW q \in Quiz, p \notin halfImported', ~Rebuilding(p)'
      PROVE  cards'[<<p, q>>] = Replay(events', p, q)
  <2>1. cards[<<p, q>>] = Replay(events, p, q)
    BY <1>3 DEF CardsInStep
  <2>2. QED BY <1>2, <1>3, <2>1
<1>4. QED BY <1>3 DEF CardsInStep

(* The steps of the import and of the user. *)
LEMMA RebuildStep == RebuildInv /\ [MigrateNext]_migrateVars => RebuildInv'
<1> SUFFICES ASSUME RebuildInv, [MigrateNext]_migrateVars PROVE RebuildInv'
  OBVIOUS
<1>1. IInv /\ HistoryInOrder /\ CardsInStep
  BY DEF RebuildInv
<1>2. IInv'
  BY <1>1, ImportStep
<1>3. events \in Seq(Event) /\ events' \in Seq(Event)
  BY <1>1, <1>2 DEF IInv, MigrateTypeOK
<1>4. CASE StartRun
  <2>1. /\ ~Running /\ runner' = [dir |-> 1, todo |-> Started]
        /\ UNCHANGED <<halfImported, events, cards>>
    BY <1>4 DEF StartRun, cacheVars, Started
  <2>2. HistoryInOrder'
    BY <2>1 DEF HistoryInOrder, Started
  <2>3. CardsInStep'
    BY <1>1, <2>1, CardsStay DEF Rebuilding
  <2>4. QED BY <1>2, <2>2, <2>3 DEF RebuildInv
<1>5. CASE ImportPath
  <2>1. PICK fresh \in BOOLEAN : fresh = (Dir.path \notin rows)
    OBVIOUS
  <2>2. /\ Running /\ runner \in [dir : DOMAIN LegacyDirs, todo : Seq(Statements)]
        /\ runner.todo # <<>> /\ Head(runner.todo).op = "path"
        /\ runner' = [runner EXCEPT !.todo = Script(fresh)]
        /\ UNCHANGED <<halfImported, events, cards>>
    BY <1>1, <1>5, <2>1 DEF IInv, MigrateTypeOK, ImportPath, NextIs, cacheVars
  <2>3. Script(fresh) \in Seq(Statements)
    BY <2>2, ScriptShape
  <2>4. runner'.dir = runner.dir /\ runner'.todo = Script(fresh)
    BY <2>2, <2>3
  <2>5. Dir' = Dir
    BY <2>4 DEF Dir
  <2>6. \A i \in DOMAIN Script(fresh) :
           /\ Script(fresh)[i].op # "path"
           /\ Script(fresh)[i].op = "event" =>
                /\ Script(fresh)[i].arg.path = Dir.path
                /\ \E j \in DOMAIN Script(fresh) : i < j /\ Script(fresh)[j].op = "recompute"
    BY <2>2, ScriptShape, ScriptOrder
  <2>7. HistoryInOrder'
    BY <2>4, <2>5, <2>6 DEF HistoryInOrder
  <2>8. runner.todo = Started
    <3>1. Head(runner.todo) = runner.todo[1] /\ 1 \in DOMAIN runner.todo
      BY <2>2, TailOf
    <3>2. QED BY <1>1, <2>2, <3>1 DEF HistoryInOrder
  <2>9. \A p : ~Rebuilding(p)
    BY <2>8 DEF Rebuilding, Started
  <2>10. CardsInStep'
    BY <1>1, <2>2, <2>9, CardsStay
  <2>11. QED BY <1>2, <2>7, <2>10 DEF RebuildInv
<1>6. CASE ImportTarget \/ ImportOverlay
  <2>1. /\ Running /\ runner.todo # <<>> /\ Proceed
        /\ Head(runner.todo).op # "path" /\ Head(runner.todo).op # "recompute"
        /\ UNCHANGED <<halfImported, events, cards>>
    BY <1>6 DEF ImportTarget, ImportOverlay, NextIs, cacheVars
  <2>2. HistoryInOrder' /\ \A p : Rebuilding(p) => Rebuilding(p)'
    BY <1>1, <2>1, ProceedOrder
  <2>3. CardsInStep'
    BY <1>1, <2>1, <2>2, CardsStay
  <2>4. QED BY <1>2, <2>2, <2>3 DEF RebuildInv
<1>7. CASE ImportEvent
  <2>1. PICK event : event = Head(runner.todo).arg
    OBVIOUS
  <2>2. /\ Running /\ runner.todo # <<>> /\ Proceed /\ Head(runner.todo).op = "event"
        /\ events' = Append(events, event)
        /\ UNCHANGED <<halfImported, cards>>
    BY <1>7, <2>1 DEF ImportEvent, NextIs
  <2>3. event \in Event
    <3>1. runner.todo \in Seq(Statements) BY <1>1, <2>2 DEF IInv, MigrateTypeOK
    <3>2. Head(runner.todo) \in Statements BY <2>2, <3>1, TailOf
    <3>3. QED BY <2>1, <2>2, <3>2 DEF Statements
  <2>4. Head(runner.todo).op # "path" /\ Head(runner.todo).op # "recompute"
    BY <2>2
  <2>5. /\ HistoryInOrder' /\ \A p : Rebuilding(p) => Rebuilding(p)'
        /\ event.path = Dir.path /\ \A p : p = Dir.path => Rebuilding(p)'
    BY <1>1, <2>1, <2>2, <2>4, ProceedOrder
  <2>6. \A p \in Path, q \in Quiz : AnswerOf(event, p, q) => Rebuilding(p)'
    BY <2>5 DEF AnswerOf
  <2>7. CardsInStep'
    <3>1. cards' \in [Path \X Quiz -> Card \cup {NoCard}]
      BY <1>1, <2>2 DEF CardsInStep
    <3>2. QED BY <1>1, <2>2, <2>3, <2>5, <2>6, <3>1, CardsGrow
  <2>8. QED BY <1>2, <2>5, <2>7 DEF RebuildInv
<1>8. CASE RebuildCards
  <2>1. /\ Running /\ runner.todo # <<>> /\ Proceed /\ Head(runner.todo).op = "recompute"
        /\ cards' = [c \in Path \X Quiz |-> IF c[1] = Dir.path THEN Replay(events, c[1], c[2])
                                            ELSE cards[c]]
        /\ UNCHANGED <<halfImported, events>>
    BY <1>8 DEF RebuildCards, NextIs
  <2>2. HistoryInOrder' /\ \A p : p # Dir.path => ~Rebuilding(p)
    <3>1. Head(runner.todo).op # "path"
      BY <2>1
    <3>2. QED BY <1>1, <2>1, <3>1, ProceedOrder
  <2>3. ASSUME NEW p \in Path, NEW q \in Quiz
        PROVE  Replay(events, p, q) \in Card \cup {NoCard}
    <3>1. CASE events = <<>>
      BY <3>1, ReplayGrows
    <3>2. PICK card : Replays(card, events, p, q) /\ Replay(events, p, q) = card[Len(events)]
      BY <1>3, ReplaySteps
    <3>3. Len(events) \in 0 .. Len(events)
      BY <1>3
    <3>4. QED BY <3>2, <3>3 DEF Replays
  <2>4. cards' \in [Path \X Quiz -> Card \cup {NoCard}]
    <3>1. ASSUME NEW c \in Path \X Quiz
          PROVE  (IF c[1] = Dir.path THEN Replay(events, c[1], c[2]) ELSE cards[c])
                    \in Card \cup {NoCard}
      <4>1. c[1] \in Path /\ c[2] \in Quiz
        OBVIOUS
      <4>2. Replay(events, c[1], c[2]) \in Card \cup {NoCard}
        BY <2>3, <4>1
      <4>3. cards[c] \in Card \cup {NoCard}
        BY <1>1 DEF CardsInStep
      <4>4. QED BY <4>2, <4>3
    <3>2. QED BY <2>1, <3>1
  <2>5. ASSUME NEW p \in Path, NEW q \in Quiz, p \notin halfImported'
        PROVE  cards'[<<p, q>>] = Replay(events', p, q)
    <3>1. cards'[<<p, q>>] = IF p = Dir.path THEN Replay(events, p, q) ELSE cards[<<p, q>>]
      BY <2>1
    <3>2. p # Dir.path => cards[<<p, q>>] = Replay(events, p, q)
      BY <1>1, <2>1, <2>2, <2>5 DEF CardsInStep
    <3>3. QED BY <2>1, <3>1, <3>2
  <2>6. CardsInStep'
    BY <2>4, <2>5 DEF CardsInStep
  <2>7. QED BY <1>2, <2>2, <2>6 DEF RebuildInv
<1>9. CASE NextDirectory
  <2>1. /\ runner.todo = <<>> /\ UNCHANGED <<halfImported, events, cards>>
        /\ \/ runner'.todo = Started
           \/ runner' = NotRunning
    BY <1>9 DEF NextDirectory, cacheVars, Started
  <2>2. HistoryInOrder'
    BY <2>1 DEF HistoryInOrder, Started, Running
  <2>3. CardsInStep'
    BY <1>1, <2>1, CardsStay DEF Rebuilding
  <2>4. QED BY <1>2, <2>2, <2>3 DEF RebuildInv
<1>10. CASE BreakOff
  <2>1. /\ runner' = NotRunning /\ UNCHANGED <<events, cards>>
        /\ halfImported' = halfImported \cup {p \in Path : Importing(p)}
    BY <1>10 DEF BreakOff, cacheVars
  <2>2. HistoryInOrder'
    BY <2>1 DEF HistoryInOrder, Running
  <2>3. \A p \in Path : Rebuilding(p) => p \in halfImported'
    BY <2>1 DEF Rebuilding, Importing
  <2>4. CardsInStep'
    BY <1>1, <2>1, <2>3, CardsStay
  <2>5. QED BY <1>2, <2>2, <2>4 DEF RebuildInv
<1>11. ASSUME NEW p \in Path, NEW q \in Quiz, NEW rating \in Rating, UserAnswers(p, q, rating)
       PROVE  RebuildInv'
  <2>1. PICK event : event = [kind |-> "quiz_answered", path |-> p, quiz |-> q,
                              rating |-> rating, ts |-> now]
    OBVIOUS
  <2>2. /\ events' = Append(events, event)
        /\ cards' = [cards EXCEPT ![<<p, q>>] = ApplyAnswer(cards[<<p, q>>], rating, now)]
        /\ UNCHANGED <<runner, halfImported>>
    BY <1>11, <2>1 DEF UserAnswers, AppendAnswer, Log, importVars
  <2>3. now \in Time /\ rating # NoRating
    BY <1>1, CacheAssumption DEF IInv, LoggedOnce, Time
  <2>4. event \in Event
    BY <2>1, <2>3 DEF Event
  <2>5. cards \in [Path \X Quiz -> Card \cup {NoCard}]
    BY <1>1 DEF CardsInStep
  <2>6. cards' \in [Path \X Quiz -> Card \cup {NoCard}]
    <3>1. ApplyAnswer(cards[<<p, q>>], rating, now) \in Card
      BY <2>3, <2>5, ApplyAnswerType
    <3>2. QED BY <2>2, <2>5, <3>1
  <2>7. \A r : Rebuilding(r) => Rebuilding(r)'
    BY <2>2 DEF Rebuilding, Running, Dir
  <2>8. ASSUME NEW r \in Path, NEW s \in Quiz
        PROVE  cards'[<<r, s>>] = IF AnswerOf(event, r, s)
                                  THEN ApplyAnswer(cards[<<r, s>>], event.rating, event.ts)
                                  ELSE cards[<<r, s>>]
    <3>1. AnswerOf(event, r, s) <=> r = p /\ s = q
      BY <2>1, <2>3 DEF AnswerOf
    <3>2. event.rating = rating /\ event.ts = now
      BY <2>1
    <3>3. QED BY <2>2, <2>5, <3>1, <3>2
  <2>9. CardsInStep'
    BY <1>1, <2>2, <2>4, <2>6, <2>7, <2>8, CardsGrow
  <2>10. HistoryInOrder'
    BY <1>1, <2>2 DEF HistoryInOrder, Running, Dir
  <2>11. QED BY <1>2, <2>9, <2>10 DEF RebuildInv
<1>12. CASE UNCHANGED <<runner, halfImported, events, cards>>
  <2>1. HistoryInOrder'
    BY <1>1, <1>12 DEF HistoryInOrder, Running, Dir
  <2>2. CardsInStep'
    BY <1>1, <1>12, CardsStay DEF Rebuilding, Running, Dir
  <2>3. QED BY <1>2, <2>1, <2>2 DEF RebuildInv
<1>13. ASSUME NEW k \in Key, UserEdits(k) PROVE RebuildInv'
  BY <1>12, <1>13 DEF UserEdits, cacheVars
<1>14. CASE UNCHANGED migrateVars
  BY <1>12, <1>14 DEF migrateVars, importVars, cacheVars
<1>15. QED
  BY <1>4, <1>5, <1>6, <1>7, <1>8, <1>9, <1>10, <1>11, <1>13, <1>14 DEF MigrateNext

(* The cards a run rebuilds are the replay of the whole log of the path,   *)
(* answers given while the import was under way included; an answer before *)
(* or after folds into the same card.  Only a path whose import is under   *)
(* way, or broke off, may have others.                                     *)
THEOREM CardsReplayed == MigrateSpec => []CardsReplayTheLog
<1>1. MigrateInit => RebuildInv
  <2> SUFFICES ASSUME MigrateInit PROVE RebuildInv
    OBVIOUS
  <2>1. IInv
    BY ImportInit
  <2>2. HistoryInOrder
    BY DEF MigrateInit, HistoryInOrder, Running
  <2>3. CardsInStep
    BY ReplayGrows DEF MigrateInit, CacheInit, CardsInStep
  <2>4. QED BY <2>1, <2>2, <2>3 DEF RebuildInv
<1>2. RebuildInv => CardsReplayTheLog
  BY DEF RebuildInv, CardsInStep, CardsReplayTheLog, Rebuilding, Importing
<1>3. QED
  BY <1>1, <1>2, RebuildStep, PTL DEF MigrateSpec
=============================================================================
