SPECIFICATION HostSpec
CONSTANTS
    Images = {legacy, i1, i2}
    Shipped = i1
    OldDesign = {legacy}
    Targets = {"eeprom", "application", "factory"}
    Pages = 2
    UpdateMaxChunk = 1
    SectorPages = 2
    Blank = Blank
    Junk = Junk
    MaxBegins = 9
    MaxBoots = 9
    MaxFaults = 1
    FaultAfterStray = TRUE
    Releases = {i2}
    Bundles = {{"eeprom"}, {"application"}, {"factory"}, {"eeprom", "application", "factory"}}
    MaxTroubles = 1
INVARIANT StoppedKeepsItsFirmware
CHECK_DEADLOCK FALSE
