\* One atom, its lesson to write: quizzes up to the tenth in two difficulties, due cards, a clock that may be set back.
CONSTANTS
    Id = {1}
    Segments <- OneSegments
    MaxQuiz = 10
    Difficulties <- EasyMedium
    NoQuiz = NoQuiz
    Path = {p1}
    Quiz <- MCQuiz
    Time = {0, 1}
    Interval = {1}
    NoDue = NoDue
    Releases <- EighthReleases
    TargetLists <- SingleTargets
    SubpathLists = {}
    Commands = {"path new", "lesson upsert", "quiz create", "quiz update", "quiz delete", "quiz answer", "next"}
    NoPath = NoPath
    NoRequest = NoRequest
SPECIFICATION Spec
INVARIANTS
    FreshIds
    DueIsServed
    PresentedIsLive
PROPERTY CompletionKept
