SPECIFICATION Spec
CONSTANTS
 a = a
 b = b
 EOL = EOL
 words = words
 specs = specs
 regions = regions
 NoRegex = NoRegex
 Char <- MCChar
 Inserted <- MCInserted
 RegionSets <- MCRegionSets
 MaxLineText = 5
 MaxChanges = 3
 MaxLastText = 3
\* The bounds on the text and on the number of changes stop the model.
CHECK_DEADLOCK FALSE
INVARIANTS LinesAreTheText WordsOfText ModificationsAreExact RangesFollow RegionsOfText
PROPERTIES FlagsFollow
