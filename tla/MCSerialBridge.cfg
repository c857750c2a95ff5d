SPECIFICATION SerialFairSpec
CONSTANTS
    FrameLength = 3
    RequiredLength = 3
    ReadSizes <- MCReadSizes
    LineFaults = {"refused", "silent", "cut", "undecodable"}
    Pieces = {4}
    ArbitraryLengths = {0, 4}
    MaxPolls = 3
INVARIANT SentIsWholeAndRecent
INVARIANT AnsweredPollHasFrame
PROPERTY StopEndsProcess
