SPECIFICATION FixedSpec
CONSTANTS
    Layouts <- MCLayouts
    ByteValues = {0, 1}
    MaxStream = 7
INVARIANT FramesOfTheStream
INVARIANT BufferStaysSmall
