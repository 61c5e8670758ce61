SPECIFICATION Spec
CONSTANTS
    SlotCount = 4
    SlotPackets = 2
    TargetPackets = 1
    MaxFaults = 1
    SourceOptions <- AllLayouts
INVARIANT BuffersAreSafe
