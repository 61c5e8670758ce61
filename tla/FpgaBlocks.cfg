SPECIFICATION BlocksSpec
CONSTANTS
    Depth = 3
    Words = {a, b}
    Junk = Junk
    PacketWords = 8 FifoDepth = 16 ErrorHoldCycles = 2 Prompt = FALSE
    MonitoredDepth = 2 MonitoredPacket = 2 NearFullWords = 1
    CounterMaximum = 1 Prescale = 2 LatchModulus = 1
    FlashSize = 16 WordModulus = 32
    BootBlockAddress = 2 ApplicationAddress = 8
    BootBlockBytes = 4 HeaderCrcBytes = 3
    Lengths = {0, 2, 9, 26}
    SettleClocks = 1 ShiftClocks = 3 ReadClocks = 2 HoldClocks = 12 ReconfigClocks = 8
    MaxTriggers = 2
    ByteBits = 4
    IdValue = 4 Led = 1 BridgeData = 2 TelemetryId = 4 PortValue = 7 TelemetryIdValue = 11
    Figures = {5, 10}
    Accesses <- RegisterAccesses
    Phase = 7 MaxFaults = 1
INVARIANTS HeadShown PacketsAreWhole CountsAreTrue FlashIsSafe AccessIsWhole
PROPERTIES IsAQueue CatchesUp EveryStartIsDecided
