SPECIFICATION Spec
CONSTANTS
    N = 2
    MaxKey = 1
    TieBreak = FALSE
INVARIANTS
    HeapHoldsMembers
