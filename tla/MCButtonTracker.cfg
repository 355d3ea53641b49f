SPECIFICATION MessagesSpec
CONSTANTS
    Refs = {m1, m2, m3}
    Values = {f1, f2, f3}
    Fingerprints = {f1, f2, f3}
    TTL = 2
    MaxEntries = 2
    LabelTTL = 2
    LabelMax = 2
    MaxTime = 5
CHECK_DEADLOCK FALSE
INVARIANTS
    TypeOK
    StoreConsistent
    ButtonsHaveLabels
PROPERTIES
    KeepsDeadlines
    LiveLeavesOnlyConsumedOrOldest
    EventuallyReleased
    LabelsLeaveInTurn
