CONSTANTS
    Threads = {t1, t2, t3}
    PoolSize = 2
    RebuildOutcomes = {"ok", "throw"}
SPECIFICATION Spec
SYMMETRY ThreadSymmetry
INVARIANT ReleaseDoesNotThrow
