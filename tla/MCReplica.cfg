\* A server and a laptop; one table with both hazards: keys that may collide, a column more.
CONSTANTS
    Device = {"laptop", "server"}
    Servers = {"server"}
    Local = {"laptop"}
    Table = {"paths"}
    Numbered = {"paths"}
    Columns <- MCColumns
    Latest = 2
    MaxWrites = 1
SPECIFICATION Spec
INVARIANTS
    NothingDestroyed
    ConflictsExplained
    SchemaOnce
CHECK_DEADLOCK FALSE
PROPERTY ServedWritesReachRemote
