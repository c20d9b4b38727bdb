\* Ints of 16 bits for the codec, and a largest int of 7 for the weights, which
\* sums of three weights exceed; ports up to 2.  ListUsers is asked for pages and
\* sizes below, inside and beyond what it takes; with a largest int of 7 the
\* offset of page 7 overflows.
CONSTANTS
    IntSpan = 65536
    Issuers <- IssuerTexts
    Subjects <- SubjectTexts
    Uids <- UidTexts
    Weights <- SomeWeights
    MaxInstances = 3
    IntMax = 7
    Templates <- SqlTemplates
    Params <- SqlParams
    MaxParams = 2
    RetryLimits = {0, 1, 2}
    Values <- SettingValues
    Junk = Junk
    MaxPort = 2
    MaxGiven = 1
    MaxUsers = 3
    Recent = 2
    MaxInt = 7
    DefaultSize = 2
    MaxSize = 3
    AskedPages = {0, 2, 7}
    AskedSizes = {0, 1, 5}
    AskedFilters <- Filters
SPECIFICATION Spec
INVARIANTS PayloadIsBase64 ClaimsSurvive DrawsFollowWeights
    StatementMeansTemplate OneHandle AttemptsBounded
    WalkMissesNothing WalkRepeatsNothing PagesAgree
CHECK_DEADLOCK FALSE
