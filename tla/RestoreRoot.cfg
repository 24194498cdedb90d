SPECIFICATION Spec
CONSTANTS
    Snapshots <- ReadOnlyRoots
    Hosts <- AllHosts
    LinkRoom = 1
INVARIANT NothingDenied
