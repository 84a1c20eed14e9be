\* A release drops an atom that has a due card.
CONSTANTS
    Id = {1, 2}
    Segments <- FlatSegments
    MaxQuiz = 1
    Difficulties <- EasyOnly
    NoQuiz = NoQuiz
    Path = {p1}
    Quiz <- MCQuiz
    Time = {0, 1}
    Interval = {1}
    NoDue = NoDue
    Releases <- PruneReleases
    TargetLists <- PairTargets
    SubpathLists = {}
    Commands = {"path new", "quiz answer", "next"}
    NoPath = NoPath
    NoRequest = NoRequest
SPECIFICATION Spec
INVARIANT DueIsServed
