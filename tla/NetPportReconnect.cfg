SPECIFICATION Spec
CONSTANTS
  Senders = {"cmd"}
  MaxClient = 2
  MaxFpga = 2
  Chunk = 2
  BufSize = 6
  MaxIter = 2
  MayClose = TRUE
INVARIANTS
  DeliveredIntact
PROPERTIES
  EverythingDelivered
CHECK_DEADLOCK FALSE
