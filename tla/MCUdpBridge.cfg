SPECIFICATION FairSpec
CONSTANTS
    FlatKeys <- MCFlatKeys
    NestedKeys <- MCNestedKeys
    Children <- MCChildren
    MaxPatches = 3
INVARIANT NoLostUpdate
INVARIANT ShutdownLosesNothing
PROPERTY PayloadFrozen
PROPERTY ClosedIsSilent
PROPERTY FeedSpec
PROPERTY StopEndsProcess
PROPERTY MergedIsShown
