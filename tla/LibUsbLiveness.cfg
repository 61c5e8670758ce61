SPECIFICATION FairSpec
CONSTANTS
    SlotCount = 4
    SlotPackets = 2
    TargetPackets = 1
    MaxFaults = 1
    SourceOptions <- SplitSlots
PROPERTY EveryRunEnds
