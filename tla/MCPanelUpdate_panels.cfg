SPECIFICATION FairSpec
CONSTANTS
    SimValues <- MCSimValues
    Outputs <- MCOutputs
    ScriptValues <- MCScriptValues
    AutosyncWords = 1
    MaxRestarts = 1
    Unknown = Unknown
    Nobody = Nobody
INVARIANTS TypeOK CleanIsSent PacketEndsUpdate
PROPERTIES PanelsCatchUp
