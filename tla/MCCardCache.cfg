\* Two quizzes on two paths, a clock that may be set back, three events.
CONSTANTS
    Path = {p1, p2}
    Quiz = {q1, q2}
    MaxTime = 1
    TicksPerDay = 1
    MaxEvents = 3
    Memory <- MCMemory
    NoMemory = NoMemory
    Interval <- MCInterval
    Fsrs <- MCFsrs
    NoCard = NoCard
    NoRating = NoRating
SPECIFICATION CacheSpec
INVARIANTS
    CountsMatchLog
    CardTracksLastAnswer
    CorrectMeansAnswered
PROPERTY ImplementsReview
