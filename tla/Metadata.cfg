SPECIFICATION Spec
CONSTANTS
    Inputs <- MCInputs
    Omits <- MCOmits
    Forged <- MCForged
    Capabilities <- MCCapabilities
    MaxOffset = 7
    Nanoseconds = 2
    MaxCompromises = 10
    KernelAcls <- MCKernelAcls
    MaxId = 15
    Metas <- MCMetas
    RecordLists <- MCRecordLists
    ForgedBytes <- MCForgedBytes
    MaxBytes = 110
    MaxPath = 2
INVARIANT NormalizeAgrees
INVARIANT NormalFormKeepsAll
INVARIANT OneEncoding
INVARIANT PlansAgree
 
 
INVARIANT TransportKept
