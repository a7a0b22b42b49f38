SPECIFICATION Spec
CONSTANTS
  Clients = {c1, c2}
  Nobody = Nobody
  Sizes = {0, 2, 3}
  DEFAULT_SIZE = 3
  MaxChanges = 2
PROPERTIES AgreedIfSerial ResizeApplied
