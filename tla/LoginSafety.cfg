CONSTANTS
    Procs = {p1, p2}
    MaxFailed = 3
    Faults = {"get", "del", "incr", "reply", "pttl", "pexpire", "crash"}
    TriesBound = 6
SPECIFICATION FairSpec
INVARIANTS TriesBounded NoFalseLock CounterExpires
PROPERTY LockEndsUnlessBroken
