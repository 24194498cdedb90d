SPECIFICATION Spec
CONSTANTS
    p1 = p1 p2 = p2 n1 = n1 n2 = n2 n3 = n3 t1 = t1 t2 = t2
    Calls <- MCCalls
    Names <- MCNames
    Trees <- MCTrees
    Requests <- AllRequests
    External = External
    Absent = Absent
    Incomplete = Incomplete
    Torn = Torn
    Darwin = FALSE
    Faults = TRUE
    CleanupFaults = TRUE
    WallCeiling = TRUE
SYMMETRY Symmetry
INVARIANT OutputIsTarget
INVARIANT NoStageLeft
PROPERTY ForeignUntouched
PROPERTY ImplementsNewEntry
