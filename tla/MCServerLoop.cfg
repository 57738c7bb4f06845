SPECIFICATION Spec
CONSTANTS
    MaxFd = 13
    MaxDepth = 2
    Conn <- MCConn
    Connections <- MCConnections
    Scripts <- MCScripts
    Nested <- MCNested
\* Once all is sent and handled the server waits for ever.
CHECK_DEADLOCK FALSE
INVARIANTS
    WatchersAreOwners
    KeysInOrder
PROPERTIES
    EvalIsComplete
    OnlyFailuresLeak
    NothingStartsMeanwhile
    KeysAreHandled
