\* Only the settings matter here: the other computations get next to no input.
CONSTANTS
    IntSpan = 65536
    Issuers = {}
    Subjects <- SubjectTexts
    Uids <- UidTexts
    Weights = {1}
    MaxInstances = 1
    IntMax = 7
    Templates = {}
    Params = {}
    MaxParams = 0
    RetryLimits = {0}
    Values <- SettingValues
    Junk = Junk
    MaxPort = 2
    MaxGiven = 2
    MaxUsers = 0
    Recent = 1
    MaxInt = 7
    DefaultSize = 2
    MaxSize = 3
    AskedPages = {}
    AskedSizes = {}
    AskedFilters <- Filters
SPECIFICATION Spec
INVARIANT BuiltConfigValid
CHECK_DEADLOCK FALSE
