CONSTANTS
    Signals = {"INT", "TERM"}
    Hosts = {"main", "monitor", "cleanup", "rpc"}
    MaxSignals = 2
    Data = {d1, d2}
    Depth = 2
    MaxSessions = 3
SPECIFICATION ServerSpec
INVARIANTS NodeGoneFirst ThreadsEndFirst RegisteredIsAnnounced AnnouncedIsCurrent NoGhost
PROPERTIES SignalEndsProcess StoppedServerLeaves
CHECK_DEADLOCK FALSE
