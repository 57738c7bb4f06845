\* Five texts, drawn in time or late.
SPECIFICATION SyntaxSpec
CONSTANTS
    MaxTime = 5
    HasInjectionQuery = TRUE
INVARIANTS
    TreeInItsSpace
    LayerFollowsTree
