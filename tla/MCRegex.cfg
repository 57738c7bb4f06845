\* A call stops when it is over, hence CHECK_DEADLOCK FALSE.
SPECIFICATION Spec
CONSTANTS
    Alphabet = {"a", "b", "nl", "uu"}
    MultiByte = {"uu"}
    NewLine = "nl"
    WordChars = {"a", "b"}
    MaxOffset = 2
    Infinite = 9
    InitialCapacity = 4
    MaxStep = 2
    MaskBits = 32
    WithKnownFaults = FALSE
CHECK_DEADLOCK FALSE
INVARIANTS
    MatchesAsSpecified
    RingIsBounded
    SavesAreCounted
PROPERTIES
    CallsEnd
