SPECIFICATION FairSpec
CONSTANTS
    FlatKeys <- MCFlatKeys
    NestedKeys <- MCNestedKeys
    Children <- MCChildren
    FrameLeaves <- MCFrameLeaves
    MaxPatches = 3
INVARIANT FramesStayWhole
INVARIANT ShutdownLosesNothing
PROPERTY FeedSpec
PROPERTY StopEndsOrWaits
