SPECIFICATION Spec
CONSTANTS
    Top = 4
    Limits <- ActLimits
    Deadband = 1
    PwmMin = 1
    PwmMax = 2
    Gain = 1
    Slew = 1
    StallDelta = 0
    OcCycles = 0
    StallCycles = 1
    CmdCycles = 1
    NPack = 2
    VerifyCycles = 1
    ImuCycles = 1
    Settings = {"s1", "s2"}
    PvConfigs <- Chargers
    TopV = 3
    MinOff = 2
    MaxPlugEvents = 3
    MaxWrites = 1
    Params = {"a", "b"}
    StartArgs <- ArgValues
    Unconvertible = {"b"}
    CfgValues = {0, 1, 2, 3}
    UserValues = {1}
    Receivers <- Chips
    Factory <- Defaults
    Byte = 2
    Unset = Unset
    MaxConnections = 2
    MaxSets = 1
    UsbTransfers <- Received
    Polls <- Sendable
    MaxTransfers = 2
    MaxPolls = 1
    DesiredCount = 2
    NedCovs <- Covs
    FixTypes <- Types
    StaticItems = {"a", "b", "c"}
    MinItems = 2
    Broken = Broken
    FileContents <- Contents
    FamilyArgs = {"F9R", "X20P", "bogus"}
    ArgItems = {"a", "c", "x"}
    UsbLists <- Lists
    SerialArgs = {NoSerial, "s1"}
    NoSerial = NoSerial
    MaxOpens = 2
    MaxBlocks = 3
    KeyLengths = {16, 32}
INVARIANTS DevTypeOK DrivesSafely GnssParamsOK GnssFramesOK GnssDataOK
PROPERTIES SwitchesObey KeepsInTouch ChargerFollows GnssReads GnssTasksEnd
CHECK_DEADLOCK FALSE
