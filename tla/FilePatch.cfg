\* Both implementations apply a patch that may be damaged; with and without
\* writes to the mapped source, failing allocations and panics.
SPECIFICATION Spec
CONSTANTS
    empty = empty
    one = one
    other = other
    full = full
    huge = huge
    Blobs <- MCBlobs
    Size <- MCSize
    LogMin = 1
    LogMax = 2
    PatchLengths = {3}
    Ceilings <- MCCeilings
    Impls <- BothImpls
    MaxWrites = 2
    Damages = TRUE
    Faults = {TRUE, FALSE}
INVARIANT OutputVerified
INVARIANT BufferBounded
INVARIANT NothingHeldOnFailure
INVARIANT PrefixInWindow
INVARIANT RoundTrips
INVARIANT PortAgrees
