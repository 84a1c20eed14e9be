\* One path over five concepts: both strategies, subpaths, authoring, reviews, a new release.
CONSTANTS
    Id = {1, 2, 3, 4, 5}
    Segments <- LadderSegments
    MaxQuiz = 1
    Difficulties <- EasyOnly
    NoQuiz = NoQuiz
    Path = {p1}
    Quiz <- MCQuiz
    Time = {0, 1}
    Interval = {1}
    NoDue = NoDue
    Releases <- LadderReleases
    TargetLists <- LadderTargets
    SubpathLists <- LadderSubpaths
    Commands = {"path new", "path strategy", "subpath set", "subpath clear", "lesson upsert", "quiz create", "quiz answer", "next"}
    NoPath = NoPath
    NoRequest = NoRequest
SPECIFICATION Spec
INVARIANTS
    TypeOK
    FoundationsFirst
    DoneMeansLearned
    SyllabusPredictsTeaching
    TreeMarksNext
    SubpathLeadsToTarget
    DetourFirst
