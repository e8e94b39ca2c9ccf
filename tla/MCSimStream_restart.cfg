SPECIFICATION StreamFairSpec
CONSTANTS
    Aircraft <- OneAircraft
    ModuleAddresses <- SmallModule
    StartAddresses <- MCStart
    AircraftName <- MCName
    HookValues <- SmallValues
    MayBeMissing <- NoneMissing
    Unset = Unset
    CounterModulus = 2
    InitialSkips = 0
    MaxFaults = 1
    MaxSkips = 0
INVARIANTS ParserTypeOK
PROPERTIES Repaired FramesKeepComing
