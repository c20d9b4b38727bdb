CONSTANTS
    Procs = {p1, p2}
    Scenes = {login}
    MaxRetry = 2
    CodeTtl = 2
    LockTtl = 2
    RetryTtl = 1
    IntervalTtl = 2
    Faults = {"crash", "sendLock", "sendInterval", "store", "mark", "send", "rollback", "lock", "get", "incr", "expire", "expireLock", "setLock", "delCode", "delCount", "clear"}
    GuessBound = 5
SPECIFICATION Spec
SYMMETRY Symmetry
INVARIANTS GuessesBounded SpentCodeLocked MessagesBounded
