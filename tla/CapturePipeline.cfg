SPECIFICATION FairSpec
CONSTANTS
    RunOptions <- RaceOptions
    SlotCount = 2
    SlotLimit = 4
    DiscardSlots = 1
INVARIANT RunIsSound
PROPERTIES
    FirstFailureStands
    RunsEnd
