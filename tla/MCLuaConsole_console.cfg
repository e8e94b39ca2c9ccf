SPECIFICATION FairSpec
CONSTANTS
    r1 = r1
    r2 = r2
    c1 = c1
    c2 = c2
    c3 = c3
    Request <- TwoRequests
    Conn <- ThreeConns
    None = None
    NoAnswer = NoAnswer
    Refused = Refused
INVARIANTS ShownIsConnected
PROPERTIES ExecutesSnippets SnippetsEnd
CHECK_DEADLOCK FALSE
