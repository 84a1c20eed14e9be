\* Two runs over two directories, broken off anywhere; the user answers meanwhile.
CONSTANTS
    Path = {"p1", "p2"}
    Quiz = {"q1"}
    MaxTime = 2
    TicksPerDay = 1
    MaxEvents = 3
    Memory <- MCMemory
    NoMemory = NoMemory
    Interval <- MCInterval
    Fsrs <- MCFsrs
    NoCard = NoCard
    NoRating = NoRating
    LegacyDirs <- MCLegacyDirs
    Key = {"k1", "k2"}
    NoRow = NoRow
    MaxRuns = 2
    NotRunning = NotRunning
SPECIFICATION MigrateSpec
INVARIANTS
    ImportedOnce
    CardsReplayTheLog
    OverlayImported
PROPERTY ImportKeepsEdits
CHECK_DEADLOCK FALSE
