\* Two agents on two paths over two atoms, fixing content at will; one switches its strategy.
CONSTANTS
    Id = {1, 2}
    Segments <- TwoSegments
    MaxQuiz = 10
    Difficulties <- EasyOnly
    NoQuiz = NoQuiz
    Path = {p1, p2}
    Quiz <- MCQuiz
    Time = {0}
    Interval = {1}
    NoDue = NoDue
    Releases <- BackwardReleases
    TargetLists <- BackwardTargets
    SubpathLists = {}
    Commands = {"path new", "path strategy", "lesson upsert", "quiz create", "quiz update", "quiz delete", "quiz answer", "next"}
    NoPath = NoPath
    NoRequest = NoRequest
    Switched = {p1}
    Amendable <- BackwardAmendable
    Removable <- BackwardRemovable
    NoReply = NoReply
SPECIFICATION PlaySpec
INVARIANT StepsStayPossible
PROPERTIES
    DoneIsFinal
    EveryPathFinishes
CHECK_DEADLOCK FALSE
