SPECIFICATION FairSpec
CONSTANTS
    s1 = s1
    s2 = s2
    Nobody = Nobody
    Session <- TwoSessions
    MayClose <- OneSession
    MaxUpdates = 2
    SimCommandCapacity = 1
    EnableIdleUpdates = TRUE
INVARIANTS TypeOK ReceiversAlive
PROPERTIES OnlyClosingBlocks
CHECK_DEADLOCK FALSE
