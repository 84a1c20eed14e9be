\* Two agents fill the same slot; one of the quizzes is never presented.
CONSTANTS
    Id = {1}
    Segments <- OneSegments
    MaxQuiz = 4
    Difficulties <- EasyMedium
    NoQuiz = NoQuiz
    Path = {p1, p2}
    Quiz <- MCQuiz
    Time = {0}
    Interval = {1}
    NoDue = NoDue
    Releases <- BlankReleases
    TargetLists <- BlankTargets
    SubpathLists = {}
    Commands = {"path new", "path strategy", "lesson upsert", "quiz create", "quiz update", "quiz delete", "quiz answer", "next"}
    NoPath = NoPath
    NoRequest = NoRequest
    Switched = {}
    Amendable = {}
    Removable = {}
    NoReply = NoReply
SPECIFICATION PlaySpec
INVARIANT CompleteMeansAllAnswered
CHECK_DEADLOCK FALSE
