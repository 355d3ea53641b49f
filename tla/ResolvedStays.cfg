CONSTANTS
    Refs = {m1}
    ButtonTTL = 2
    UndoWindow = 2
    HandleTimeout = 1
    MaxEntries = 1
    Attempts = 2
    Setups <- SlackOnly
    MaxPresses = 0
    MaxSilences = 3
    MaxRestarts = 1
    MaxTime = 5
SPECIFICATION Spec
CHECK_DEADLOCK FALSE
PROPERTIES
    ResolvedStays
