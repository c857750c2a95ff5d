SPECIFICATION SweepSpec
CONSTANTS
    RequiredLength = 4
    Ranges <- MCRanges
INVARIANT VerdictIsRight
