SPECIFICATION Spec
CONSTANTS
    N = 4
    Data = {x, y}
INVARIANT RebaseIsValid
INVARIANT GroupsKept
