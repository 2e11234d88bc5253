CONSTANTS
    h = h
    r1 = r1
    r2 = r2
    Handler = h
    Recoverers = {r1}
    LastStep = 4
    Irreversible = {4}
    SlowHandler = FALSE
    LostDeleteAck = FALSE
    UnlockOnError = FALSE
    MaxRuns = 2
    MaxFaults = 4
SPECIFICATION FairSpec
INVARIANTS TypeOK Atomic SagaInv
PROPERTIES WriteAhead Implements RecoveryCompletes LockFreed
CHECK_DEADLOCK FALSE
