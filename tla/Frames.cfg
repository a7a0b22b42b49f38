SPECIFICATION Spec
CONSTANTS
  MAX_FRAME_SIZE = 2
  READ_BUF_SIZE = 7
  Sizes = {2}
  MaxFrames = 4
INVARIANTS InSync NeverRefused NoneStranded
PROPERTIES Dispatched
