\* One device turns sync on and the upgrade of its file stops halfway.
CONSTANTS
    Device = {"laptop"}
    Servers = {}
    Local = {"laptop"}
    Table = {"paths", "events"}
    Numbered = {"events"}
    Columns <- MCColumns
    Latest = 2
    MaxWrites = 1
SPECIFICATION Spec
INVARIANT UpgradeKeepsRows
CHECK_DEADLOCK FALSE
