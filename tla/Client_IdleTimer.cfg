CONSTANTS
    Role = "client"
    Async = TRUE
    Reconnect = TRUE
    HasWork = TRUE
    IsConnAccepted = TRUE
    MaxCalls = 1
    MaxFailures = 1
SPECIFICATION Spec
INVARIANT IdleTimerExists
