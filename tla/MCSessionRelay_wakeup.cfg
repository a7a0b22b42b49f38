SPECIFICATION Spec
CONSTANTS
  Clients = {c1, c2}
  Nobody = Nobody
  MaxChunks = 1
  Chunks <- Redraws
  QueueCap = 1
PROPERTIES OwnerSeesOutput
