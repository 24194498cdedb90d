SPECIFICATION Spec
CONSTANTS
    Places <- MCPlaces
    Options <- MCOptions
    FileSystems <- MCFileSystems
    Streams <- MCStreams
    SizeOf <- MCSizeOf
    PatchSizes = {2, 4, 5}
INVARIANT ExitTellsOutcome
INVARIANT ComputedFromOriginals
INVARIANT FileCeilingsHold
