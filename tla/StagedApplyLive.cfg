SPECIFICATION FairSpec
CONSTANTS
    p1 = p1 p2 = p2 n1 = n1 n2 = n2 n3 = n3 t1 = t1 t2 = t2
    Calls <- MCCalls
    Names <- MCNames
    Trees <- MCTrees
    Requests <- FreshStages
    External = External
    Absent = Absent
    Incomplete = Incomplete
    Torn = Torn
    Darwin = TRUE
    Faults = FALSE
    CleanupFaults = FALSE
    WallCeiling = FALSE
 
 
PROPERTY OutputAppears
