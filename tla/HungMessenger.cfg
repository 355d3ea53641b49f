SPECIFICATION Spec
CONSTANTS
    Senders <- MCSenders
    MaxAttempts = 3
    InitialBackoff = 1
    MaxBackoff = 2
    Margin = 1
    RequestTimeout = 2
    SendBudget = 6
    ProbeTimeout = 2
    GlobalInterval = 1
    ChatInterval = 2
    RetryAfters <- MCRetryAfters
    Window = 2
    Threshold = 2
    ProbeInterval = 1
    ProbeBackoff = 1
    ProbeBackoffMax = 1
    Setups <- MCSetups
    Limit = 24
    CloseSlack = 6
    MaxRefinements = 4
    Texts <- MCTexts
PROPERTIES
    CanceledWereUnseen
CHECK_DEADLOCK FALSE
