SPECIFICATION FairSpec
CONSTANTS
    s1 = s1
    s2 = s2
    Nobody = Nobody
    Session <- OneSession
    MayClose <- OneSession
    MaxUpdates = 2
    SimCommandCapacity = 2
    EnableIdleUpdates = FALSE
PROPERTIES FramesReachPanels
CHECK_DEADLOCK FALSE
