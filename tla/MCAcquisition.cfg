\* Three runs over two sources, two faults; three ingestions; two pipelines.
SPECIFICATION AcquisitionSpec
CONSTANTS
    s1 = s1
    s2 = s2
    a = a
    b = b
    empty = empty
    bad = bad
    SourceOrder <- MCSourceOrder
    Contents = {a, b, empty, bad}
    Offered <- MCOffered
    ClaimKeys <- MCClaimKeys
    Malformed = {bad}
    Modes <- MCModes
    MaxRuns = 3
    MaxFaults = 2
    Ingesters = {i1, i2}
    Documents <- MCDocuments
    Stem <- MCStem
    JsonLines = {"notes.jsonl"}
    Texts = {"t1", "t2", "t3", "raw", "cut"}
    Held <- MCHeld
    RowsIn <- MCRowsIn
    Unreadable = {"cut"}
    Implicit = {"raw"}
    MappingOf <- MCMappingOf
    Place <- MCPlace
    Flags <- MCFlags
    MaxIngests = 3
    MaxEdits = 1
    MaxBreaks = 1
    Runners = {r1, r2}
    Targets = {"p", "q"}
    Feeds = {"two", "rejected", "unmapped"}
    FeedKeys <- MCFeedKeys
    Broken = {"rejected"}
    Unmapped = {"unmapped"}
    MaxPipelines = 2
    MaxMeddlings = 1
    MaxFailures = 1
INVARIANTS
    PacksTraceable
    KnownIsWhole
    CompleteIsIngested
    IngestTellsTruth
    PassedMeansMade
PROPERTIES
    NothingLost
    FrozenStays
\* The operator may start no further run.
CHECK_DEADLOCK FALSE
