SPECIFICATION FairSpec
CONSTANTS
    FlatKeys <- MCFlatKeys
    NestedKeys <- MCNestedKeys
    Children <- MCChildren
    MaxPatches = 3
INVARIANT NoLostUpdate
INVARIANT ClosedStaysClosed
INVARIANT CloseLosesNothing
PROPERTY PayloadFrozen
PROPERTY FeedSpec
PROPERTY MergedIsShown
PROPERTY CloseReturns
