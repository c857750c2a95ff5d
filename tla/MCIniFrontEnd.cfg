SPECIFICATION Spec
CONSTANTS
    Symbols <- MCSymbols
    Channels <- MCChannels
    Expressions <- MCExpressions
    Depth <- MCDepth
    MaxDepth = 2
    Directories <- MCDirectories
    Inputs <- MCInputs
    FieldMap <- MCFieldMap
    Raws = {0, 1, 2, 3}
INVARIANT LastSelectedDefinitionCounts
INVARIANT FieldsDecodeRight
INVARIANT WarningsAreDue
INVARIANT NoChannelTwice
