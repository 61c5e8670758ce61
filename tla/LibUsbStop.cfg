SPECIFICATION FairSpec
CONSTANTS
    SlotCount = 4
    SlotPackets = 2
    TargetPackets = 1
    MaxFaults = 0
    SourceOptions <- WholeSlots
PROPERTY StopNeverHangs
