SPECIFICATION Spec
CONSTANTS
    p1 = p1 p2 = p2 n1 = n1 n2 = n2 n3 = n3
    Calls <- MCCalls
    Names <- MCNames
    Requests <- MCRequests
    External = External
    Absent = Absent
    Faults = TRUE
    PowerFails = TRUE
SYMMETRY Symmetry
INVARIANT OutputIsWhole
PROPERTY ImplementsNewEntry
