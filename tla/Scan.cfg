SPECIFICATION MCSpec
CONSTANTS
    Ecosystem = {"npm", "pypi"}
    BatchCount <- Batches
    Concurrency = 2
    MaxAttempts = 2
    MaxScans = 2
    RowCount = 5
    LogoRows = 8
    TextRows = 3
    NoteLines = 3
    CompactRows = 24
    Height <- Heights
    Quiet = {5}
    Queries <- Matches
    TermRows = {18, 30}
    PaneLines = 5
    Licenses = 6
    LicensePkgs = {0, 6}
    Logins = {"plain", "screen"}
    OnScreen = {"screen"}
    MaxPolls = 2
    MaxOthers = 2
INVARIANTS WholeVerdict SelectionVisible LoginsAreHonest
PROPERTIES OutcomesStand ScansEnd LoginsEnd
CHECK_DEADLOCK FALSE
