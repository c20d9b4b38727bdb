\* Four request threads on two connections; createConnFunc_ may succeed,
\* return nullptr or throw.
CONSTANTS
    Threads = {t1, t2, t3, t4}
    PoolSize = 2
    RebuildOutcomes = {"ok", "null", "throw"}
SPECIFICATION Spec
SYMMETRY ThreadSymmetry
INVARIANTS OnePlace NoLostWakeup
PROPERTY CustodySpec
