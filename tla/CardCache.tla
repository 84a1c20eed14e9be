------------------------------ MODULE CardCache ------------------------------
(***************************************************************************)
(* The append-only event log and the `cards` table kept beside it as a     *)
(* write-through cache (src/src/event_log.rs, src/src/cards.rs).           *)
(*                                                                         *)
(* Every command appends to `events` inside its own transaction; an answer *)
(* also folds its rating into the card of the quiz with one FSRS step.     *)
(* The scheduler and the progress reports then trust the cards alone.      *)
(* FSRS itself is a library: an operator of the module, of which only the  *)
(* shape of the result is assumed.                                         *)
(***************************************************************************)
EXTENDS Domain

CONSTANTS
    Path,           \* path ids
    Quiz,           \* quiz ids
    MaxTime,        \* the clock shows 0..MaxTime, in ticks of one minute
    TicksPerDay,    \* FSRS is given whole days between two answers
    MaxEvents,      \* bound on the length of the log
    Memory,         \* FSRS memory states (stability, difficulty)
    NoMemory,       \* the memory of a quiz never answered
    Interval,       \* the lengths FSRS schedules, in ticks
    Fsrs(_, _, _),  \* Fsrs(memory, rating, days) = [memory, interval]
    NoCard,         \* a quiz without a row in `cards`
    NoRating        \* the rating column of events that are not answers

Time == 0 .. MaxTime

(* The floor of 60 seconds in `apply_answer` makes every interval a tick. *)
ASSUME CacheAssumption ==
    /\ MaxTime \in Nat
    /\ TicksPerDay \in Nat \ {0}
    /\ MaxEvents \in Nat
    /\ Interval \subseteq Nat \ {0}
    /\ NoRating \notin Rating
    /\ NoCard \notin [memory : Memory, due : Nat, last : Time,
                      reps : Nat, lapses : Nat]

ASSUME FsrsAssumption ==
    \A m \in Memory \cup {NoMemory}, rating \in Rating, days \in Time :
        Fsrs(m, rating, days) \in [memory : Memory, interval : Interval]

VARIABLES
    events,     \* the rows of `events`, in order of their id
    cards,      \* cards[<<p, q>>]: the row of `cards`, or NoCard
    now         \* the wall clock; it can be set back between commands

cacheVars == <<events, cards, now>>

Card == [memory : Memory, due : Nat, last : Time, reps : Nat, lapses : Nat]

(* Only answers are told apart: no other kind touches the cache. *)
Event == [kind : {"quiz_answered", "other"}, path : Path, quiz : Quiz,
          rating : Rating \cup {NoRating}, ts : Time]

CacheTypeOK ==
    /\ events \in Seq(Event)
    /\ cards \in [Path \X Quiz -> Card \cup {NoCard}]
    /\ now \in Time

-----------------------------------------------------------------------------
(* One FSRS step, pure. *)

(* Whole days from one answer to the next; a clock set back counts as 0. *)
DaysElapsed(last, ts) == IF ts < last THEN 0 ELSE (ts - last) \div TicksPerDay

(* Mutant: a first answer is never a lapse. *)
ApplyAnswerFirstLapse(prev, rating, ts) ==
    LET first == prev = NoCard
        step  == IF first THEN Fsrs(NoMemory, rating, 0)
                 ELSE Fsrs(prev.memory, rating, DaysElapsed(prev.last, ts))
    IN  [memory |-> step.memory,
         due    |-> ts + step.interval,
         last   |-> ts,
         reps   |-> (IF first THEN 0 ELSE prev.reps) + 1,
         lapses |-> (IF first THEN 0 ELSE prev.lapses)
                      + (IF ~first /\ rating = "again" THEN 1 ELSE 0)]

(* Mutant: a review never moves back in time. *)
ApplyAnswerLatest(prev, rating, ts) ==
    LET first == prev = NoCard
        step  == IF first THEN Fsrs(NoMemory, rating, 0)
                 ELSE Fsrs(prev.memory, rating, DaysElapsed(prev.last, ts))
    IN  [memory |-> step.memory,
         due    |-> ts + step.interval,
         last   |-> IF first \/ prev.last < ts THEN ts ELSE prev.last,
         reps   |-> (IF first THEN 0 ELSE prev.reps) + 1,
         lapses |-> (IF first THEN 0 ELSE prev.lapses)
                      + (IF rating = "again" THEN 1 ELSE 0)]

(* Mutant: a lapse starts the count of repetitions over. *)
ApplyAnswerResets(prev, rating, ts) ==
    LET first == prev = NoCard
        step  == IF first THEN Fsrs(NoMemory, rating, 0)
                 ELSE Fsrs(prev.memory, rating, DaysElapsed(prev.last, ts))
    IN  [memory |-> step.memory,
         due    |-> ts + step.interval,
         last   |-> ts,
         reps   |-> (IF first \/ rating = "again" THEN 0 ELSE prev.reps) + 1,
         lapses |-> (IF first THEN 0 ELSE prev.lapses)
                      + (IF rating = "again" THEN 1 ELSE 0)]

(* The card after one more answer. *)
ApplyAnswer(prev, rating, ts) ==
    LET first == prev = NoCard
        step  == IF first THEN Fsrs(NoMemory, rating, 0)
                 ELSE Fsrs(prev.memory, rating, DaysElapsed(prev.last, ts))
    IN  [memory |-> step.memory,
         due    |-> ts + step.interval,
         last   |-> ts,
         reps   |-> (IF first THEN 0 ELSE prev.reps) + 1,
         lapses |-> (IF first THEN 0 ELSE prev.lapses)
                      + (IF rating = "again" THEN 1 ELSE 0)]

(* Mutant: one lapse and the quiz is not learned. *)
HasNoLapse(card) == card # NoCard /\ card.lapses = 0

(* `correct_quiz_ids`: lapses only counts the answers graded "again". *)
HasCorrect(card) == card # NoCard /\ card.reps > card.lapses

-----------------------------------------------------------------------------
(* The commands, as far as the log and the cache can tell them apart. *)

CacheInit ==
    /\ events = <<>>
    /\ cards = [c \in Path \X Quiz |-> NoCard]
    /\ now \in Time

Log(kind, p, q, rating) ==
    events' = Append(events, [kind |-> kind, path |-> p, quiz |-> q,
                              rating |-> rating, ts |-> now])

(* `append` of a `quiz_answered` event: the row and the card together. *)
AppendAnswer(p, q, rating) ==
    /\ Len(events) < MaxEvents
    /\ Log("quiz_answered", p, q, rating)
    /\ cards' = [cards EXCEPT ![<<p, q>>] = ApplyAnswer(cards[<<p, q>>], rating, now)]
    /\ UNCHANGED now

(* `append` of any other event. *)
AppendOther(p, q) ==
    /\ Len(events) < MaxEvents
    /\ Log("other", p, q, NoRating)
    /\ UNCHANGED <<cards, now>>

(* Any time may pass between two commands, and the clock may be set back. *)
ClockMoves ==
    /\ now' \in Time
    /\ UNCHANGED <<events, cards>>

CacheNext ==
    \/ \E p \in Path, q \in Quiz, rating \in Rating : AppendAnswer(p, q, rating)
    \/ \E p \in Path, q \in Quiz : AppendOther(p, q)
    \/ ClockMoves

CacheSpec == CacheInit /\ [][CacheNext]_cacheVars

-----------------------------------------------------------------------------
(* What the cache must say of the log. *)

Answers(p, q) == {i \in DOMAIN events : /\ events[i].kind = "quiz_answered"
                                        /\ events[i].path = p
                                        /\ events[i].quiz = q}

Lapses(p, q) == {i \in Answers(p, q) : events[i].rating = "again"}

(* A card exists exactly for the quizzes answered on a path, and its two   *)
(* counters are those of the log: `reps > lapses`, on which completion of  *)
(* an atom rests, is then what a scan of the answers would say.            *)
CountsMatchLog ==
    \A p \in Path, q \in Quiz :
        IF Answers(p, q) = {} THEN cards[<<p, q>>] = NoCard
        ELSE /\ cards[<<p, q>>] # NoCard
             /\ cards[<<p, q>>].reps = Cardinality(Answers(p, q))
             /\ cards[<<p, q>>].lapses = Cardinality(Lapses(p, q))

(* The card was reviewed when its last answer in the log was given, not    *)
(* when the latest timestamp was: after the clock was set back those two   *)
(* differ.  It is due after that review by an interval FSRS gave.          *)
CardTracksLastAnswer ==
    \A p \in Path, q \in Quiz :
        cards[<<p, q>>] # NoCard =>
            \E i \in Answers(p, q) :
                /\ \A j \in Answers(p, q) : j <= i
                /\ cards[<<p, q>>].last = events[i].ts
                /\ cards[<<p, q>>].due - cards[<<p, q>>].last \in Interval

(* Completion read from the cards is completion read from the log: a quiz  *)
(* counts as answered correctly exactly when some answer was not "again".  *)
CorrectMeansAnswered ==
    \A p \in Path, q \in Quiz :
        HasCorrect(cards[<<p, q>>]) <=>
            \E i \in Answers(p, q) : IsCorrect(events[i].rating)

-----------------------------------------------------------------------------
(* The abstraction the tutor is built on. *)

NoDue == -1

Abstract == INSTANCE Review WITH
    due     <- [c \in Path \X Quiz |->
                  IF cards[c] = NoCard THEN NoDue ELSE cards[c].due],
    correct <- {c \in Path \X Quiz : HasCorrect(cards[c])}

(* Log and cache together behave as the review schedule promises: no       *)
(* answer ever takes a right answer back, moves another card, or leaves    *)
(* its own card due at once.                                               *)
ImplementsReview == Abstract!ReviewSpec
=============================================================================
