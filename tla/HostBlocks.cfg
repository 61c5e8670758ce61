SPECIFICATION BlocksSpec
CONSTANTS
    SlotCount = 3
    SlotLimit = 4
    Words = {w1, w2}
    Readers = {r1}
    MaxPublished = 3
    SnapshotWords = {w1, w2}
    MaxSnapshots = 5
    kSequenceCounterValues = 3
    kLegacySamplesPerSequenceCounter = 4
    BufferSamples = {5, 6, 7}
    MaxHole = 24
    PacketSamples = 2
    MaxSlotPackets = 12
    MaxSlots = 6
    MaxTarget = 5
    Controls = {"keyLock", "disc", "mode", "stop"}
    kStallReadings = 2
    kStoppedReadings = 2
    LastAddress = 2
    MaxMishaps = 1
    Clients = {s1, s2}
    MaxFiles = 2
    Instances = {i1, i2, i3}
INVARIANTS
    RingInv
    NoSharedSlot
    PeakCoversBacklog
    ReadIsSettled
    SnapshotIsWhole
    HolesAloneAreCaught
    PlanIsSafe
    RunUndoesItself
    TrayStaysShut
    CompletedIsWhole
    AnswersAreTrue
    OneListens
PROPERTIES
    ImplementsHandoff
    EachReadIsNewer
    NobodyIsLeftWaiting
CHECK_DEADLOCK FALSE
