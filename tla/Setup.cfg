SPECIFICATION MCSpec
CONSTANTS
    Shim = {"npm", "pip"}
    Agent = {"claude", "codex"}
    Owned = {"codex"}
    Toml = {"codex"}
    Backup = {"b1", "b2"}
    UserHook = {"h1", "h2"}
    MaxCommands = 4
    MaxTampers = 2
    MaxFaults = 1
INVARIANTS SetupTypeOK ChainedHookIsKept
PROPERTY UninstallLeavesNothing
CHECK_DEADLOCK FALSE
