SPECIFICATION StreamSpec
CONSTANTS
    Aircraft <- MCAircraft
    ModuleAddresses <- MCModule
    StartAddresses <- MCStart
    AircraftName <- MCName
    HookValues <- MCValues
    MayBeMissing <- MCMissing
    Unset = Unset
    CounterModulus = 2
    InitialSkips = 0
    MaxFaults = 0
    MaxSkips = 1
INVARIANTS FrameConsistent
