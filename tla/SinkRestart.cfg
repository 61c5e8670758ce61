SPECIFICATION Spec
CONSTANTS
    MaxCaptures = 2
    MaxRuns = 1
    MaxWritten = 2
    DurationLimit = 0
INVARIANT ReportNamesItsFile
