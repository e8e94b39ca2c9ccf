SPECIFICATION ConnectionSpec
CONSTANTS
    com1 = com1
    c1 = c1
    c2 = c2
    Port <- OnePort
    Connection <- TwoConnections
    Occupied <- NoPort
    MaxLines = 2
    OpenMayFail = TRUE
PROPERTIES ClosingEnds
INVARIANTS OnlyClosePanics
