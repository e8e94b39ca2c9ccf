SPECIFICATION FairSpec
CONSTANTS
    s1 = s1
    s2 = s2
    t1 = t1
    Session <- TwoSessions
    Watcher <- TwoSessions
    Sender <- OneSender
    Nobody = Nobody
    MaxVersion = 2
INVARIANTS SessionsCurrent StatusTrue NoListLost ScriptsInOrder
PROPERTIES TrySendReturns ChangeEnds
CHECK_DEADLOCK FALSE
