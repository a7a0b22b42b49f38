SPECIFICATION Spec
CONSTANTS
  Clients = {c1, c2}
  Nobody = Nobody
  MaxChunks = 2
  Chunks <- Busy
  QueueCap = 1
SYMMETRY Symmetry
INVARIANTS NoLineTwice NotificationOnce SingleOwner NobodyNoClient FinalFrame
