CONSTANTS
    Role = "client"
    Async = TRUE
    Reconnect = TRUE
    HasWork = TRUE
    IsConnAccepted = FALSE
    MaxCalls = 1
    MaxFailures = 1
SPECIFICATION Spec
PROPERTY ToldConnected
