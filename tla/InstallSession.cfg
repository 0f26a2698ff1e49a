CONSTANT MaxLost = 1
SPECIFICATION FairSpec
INVARIANT LeavesNothingBehind
PROPERTIES ExitZeroIsVerified LiveSessionsStay SessionsGoAway
CHECK_DEADLOCK FALSE
