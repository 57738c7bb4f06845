SPECIFICATION MCSpec
CONSTANTS
    a = a
    EOL = EOL
    Char <- MCChar
    Contents <- MCContents
    FileTexts <- MCFileTexts
    MaxLen = 3
    MaxHistory = 5
    MaxGroup = 2
    FifoMidEdit = FALSE
\* The bounds on the text and on the history stop the model.
CHECK_DEADLOCK FALSE
INVARIANTS
    ModificationsFit
    UnmodifiedIsSaved
    RedoFollowsCurrentBranch
PROPERTIES
    ImplementsVersionTree
