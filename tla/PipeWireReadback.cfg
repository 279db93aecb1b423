SPECIFICATION PipeSpec
CHECK_DEADLOCK FALSE
CONSTANTS
  Buffers = {b1, b2}
  Sizes = 2
  MaxDrawn = 4
  MaxPools = 2
PROPERTY ReadbackEnds
