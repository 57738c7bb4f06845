SPECIFICATION Spec
CONSTANTS
    a = a
    EOL = EOL
    Char <- MCChar
    Scrolls <- MCAllScrolls
    BufferSize = 2
    MaxLoop = 2
    MaxData = 5
\* A fifo that is closed stays closed.
CHECK_DEADLOCK FALSE
INVARIANTS
    BufferShowsLines
    AnnouncedIsRead
PROPERTIES
    ClosedInTheEnd
