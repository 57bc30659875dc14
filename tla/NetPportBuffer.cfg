SPECIFICATION Spec
CONSTANTS
  Senders = {"cmd", "con"}
  MaxClient = 3
  MaxFpga = 3
  Chunk = 1
  BufSize = 3
  MaxIter = 2
  MayClose = FALSE
INVARIANTS
  BufferFits
  ForwardedInOrder
