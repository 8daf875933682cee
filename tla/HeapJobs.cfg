SPECIFICATION Spec
CONSTANTS
    N = 6
    MaxKey = 1
    TieBreak = TRUE
INVARIANTS
    HeapHoldsMembers
    RootIsLeast
