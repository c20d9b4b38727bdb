CONSTANTS
    Threads = {t1, t2}
    PoolSize = 2
    RebuildOutcomes = {"ok", "null", "throw"}
SPECIFICATION FairSpec
PROPERTIES AcquireReturns RequestsEnd
