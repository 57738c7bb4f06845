\* Parses may time out; safety and liveness.
SPECIFICATION Spec
CONSTANTS
    MaxTime = 4
    MayTimeOut = TRUE
INVARIANTS
    NoResultLost
PROPERTIES
    TimedOutIsNotRetried
    ImplementsHostParse
    CatchesUp
CHECK_DEADLOCK FALSE
