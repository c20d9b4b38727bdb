CONSTANTS
    Instances = {i1, i2}
    Apps = {"app"}
    Faults = {"session", "read"}
    MaxEvents = 3
SPECIFICATION FairSpec
INVARIANTS CacheCurrentUnlessStale
PROPERTY WatchComesBack
