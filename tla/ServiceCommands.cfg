CONSTANTS
    MaxWorkers = 2
    MaxRotations = 1
    MaxFaults = 1
SPECIFICATION Spec
INVARIANTS AnchorsRecorded WorkersNamed StatusHonest
CHECK_DEADLOCK FALSE
