SPECIFICATION Spec
CONSTANTS
    Snapshots <- AllSnapshots
    Hosts <- AllHosts
    LinkRoom = 1
INVARIANT ReadsBack
 
 
