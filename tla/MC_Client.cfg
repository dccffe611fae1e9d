CONSTANTS
    Role = "client"
    Async = TRUE
    Reconnect = TRUE
    HasWork = TRUE
    IsConnAccepted = TRUE
    MaxCalls = 2
    MaxFailures = 2
SPECIFICATION Spec
INVARIANTS TypeOK NeverDeaf SocketReleased IdleWatch
PROPERTIES HandlerProtocol Implements Reconnects StopReturns
