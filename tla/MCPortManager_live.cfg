SPECIFICATION FairSpec
CONSTANTS
    com1 = com1
    com2 = com2
    c1 = c1
    c2 = c2
    NoEntry = NoEntry
    NoConnection = NoConnection
    Port <- TwoPorts
    Connection <- TwoConnections
    Occupied <- SecondPort
    Active <- FirstPort
    MaxLines = 0
    OpenMayFail = TRUE
    Preferences <- AllPreferences
    EarlyPreferences = FALSE
    MaxStops = 1
INVARIANTS TypeOK ConnectedHasConnection PreferencesPersisted ConnectionOfPort
PROPERTIES Disconnects ConnectsUnlessGivenUp
