\* Also the regexes whose start descriptions miss matches.
SPECIFICATION Spec
CONSTANTS
    Alphabet = {"a", "b", "nl", "uu"}
    MultiByte = {"uu"}
    NewLine = "nl"
    WordChars = {"a", "b"}
    MaxOffset = 2
    Infinite = 9
    InitialCapacity = 4
    MaxStep = 2
    MaskBits = 32
    WithKnownFaults = TRUE
CHECK_DEADLOCK FALSE
INVARIANTS
    MatchesAsSpecified
