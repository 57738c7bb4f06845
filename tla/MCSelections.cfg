SPECIFICATION MCSpec
CONSTANTS
 a = a
 b = b
 EOL = EOL
 Char <- MCChar
 Inserted <- MCInserted
 Pasted <- MCPasted
 MaxLineText = 5
 MaxChanges = 3
 MaxSelections = 2
 MayOverlap = FALSE
\* The bounds on the text and on the number of changes stop the model.
CHECK_DEADLOCK FALSE
INVARIANTS CheckInvariant EditedIsSelected ModifiedIsSelected
PROPERTIES EditsGoForward FollowsItsCharacters MergedAsInTheEnd BackspaceKeepsCursors
