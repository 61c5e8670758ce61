SPECIFICATION FairSpec
CONSTANTS
    MaxCaptures = 2
    MaxRuns = 2
    MaxWritten = 2
    DurationLimit = 2
INVARIANT SinksAreSafe
PROPERTIES
    NoOpenFileIsDropped
    AttachIsApplied
