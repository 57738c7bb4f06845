SPECIFICATION Spec
CONSTANTS
    a = a
    EOL = EOL
    Char <- MCChar
    Contents <- MCOneContent
    FileTexts <- MCNoFile
    MaxLen = 3
    MaxHistory = 2
    MaxGroup = 1
    FifoMidEdit = TRUE
\* The bounds on the text and on the history stop the model.
CHECK_DEADLOCK FALSE
INVARIANTS
    ModificationsFit
