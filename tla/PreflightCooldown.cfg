SPECIFICATION MCSpec
CONSTANTS
    Parts = 2
    Forms <- AgentForms
    Answers <- AgentAnswers
    Entries <- AgentEntries
    Exempt = {"b"}
    BlockUnknown = TRUE
    MaxShells = 1
    Pinned = {"p"}
    Deps = {"d"}
    Said <- PreSaid
    Honored <- PreEntries
    Spared = {"d"}
    HoldUnknown = TRUE
    Files <- ScanFiles
    Replies <- ScanReplies
    Remembered <- ScanEntries
    Surfaces = {"hook", "staged", "machine", "plain", "lockfile", "package"}
    Names = {"in", "out"}
    UnsafeName = {"out"}
    MaxHeaders = 4
    MaxSlots = 2
    Download = {"d1", "d2", "d3"}
    Chunk = {1, 2}
    MaxOne = 3
    MaxAll = 5
    MaxChunks = 3
INVARIANT ProxyStillEnforces
CHECK_DEADLOCK FALSE
