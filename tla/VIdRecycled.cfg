\* A release withdraws a quiz that was answered; the next quiz takes its id.
CONSTANTS
    Id = {1}
    Segments <- OneSegments
    MaxQuiz = 2
    Difficulties <- EasyOnly
    NoQuiz = NoQuiz
    Path = {p1}
    Quiz <- MCQuiz
    Time = {0}
    Interval = {1}
    NoDue = NoDue
    Releases <- WithdrawReleases
    TargetLists <- SingleTargets
    SubpathLists = {}
    Commands = {"path new", "quiz create", "quiz answer", "next"}
    NoPath = NoPath
    NoRequest = NoRequest
SPECIFICATION Spec
INVARIANT FreshIds
