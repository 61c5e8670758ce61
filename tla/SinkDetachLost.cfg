SPECIFICATION FairSpec
CONSTANTS
    MaxCaptures = 1
    MaxRuns = 1
    MaxWritten = 2
    DurationLimit = 0
PROPERTY StoppedMeansDetached
