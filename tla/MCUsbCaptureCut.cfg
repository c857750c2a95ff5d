SPECIFICATION Spec
CONSTANTS
    FrameLength = 3
    RequiredLength = 3
    Plan <- MCPlan
    OtherReads <- MCOtherReads
    Faults = {"cut"}
    MaxCycles = 3
    MaxFaults = 2
PROPERTY AcceptedOncePresent
