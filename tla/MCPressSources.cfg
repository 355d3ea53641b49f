SPECIFICATION FairSpec
CONSTANTS
    MaxPods = 2
    MaxUpdates = 3
    BatchLimit = 2
    Poisoned <- MCPoisoned
    Setups <- MCSetups
    Envelopes <- MCEnvelopes
    QueueSize = 1
INVARIANTS
    TypeOK
    ConfirmedWereHandled
    
PROPERTIES
    OncePerPod
    UpdatesAreHandled
    EnvelopesAreAcked
CHECK_DEADLOCK FALSE
