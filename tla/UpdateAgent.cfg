CONSTANTS
    Images = {i1, i2}
    Shipped = i1
    OldDesign = {}
    Targets = {"eeprom", "application", "factory"}
    Pages = 2
    UpdateMaxChunk = 2
    SectorPages = 2
    Blank = Blank
    Junk = Junk
    MaxBegins = 2
    MaxBoots = 1
    MaxFaults = 1
    FaultAfterStray = FALSE
SPECIFICATION Spec
INVARIANTS UpdateIsSafe BootsWhatWasProved
PROPERTIES FailureIsRemembered EveryUpdateSettles
