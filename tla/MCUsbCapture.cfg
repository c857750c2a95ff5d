SPECIFICATION Spec
CONSTANTS
    FrameLength = 3
    RequiredLength = 3
    Plan <- MCPlan
    OtherReads <- MCOtherReads
    Faults = {"refused", "silent", "cut", "page", "undecodable"}
    MaxCycles = 3
    MaxFaults = 3
INVARIANT CoveredBytesInPlace
INVARIANT FramesAreWhole
INVARIANT FramesInOrder
INVARIANT WholeCyclesAreDecoded
