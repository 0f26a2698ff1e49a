SPECIFICATION LockFairSpec
CONSTANTS
    Proc = {p1, p2, p3}
    Name = {n1}
    Stale = {n1}
    Mortal = {p1, p2}
    MaxFailures = 1
INVARIANTS MutexUnlessStolen NamesOnlyHolders
PROPERTIES GetsTheLock
