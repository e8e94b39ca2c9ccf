SPECIFICATION Spec
CONSTANTS
    r1 = r1
    r2 = r2
    Request <- TwoRequests
    UserLine <- OneLine
    MaxLines = 3
SYMMETRY Symmetry
INVARIANTS UserLinesKept SetupAsAsked HookAsAsked
