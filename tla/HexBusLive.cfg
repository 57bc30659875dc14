SPECIFICATION Spec
CONSTANTS
  Base = 8
  Addrs = {4}
  Data = {9}
  Lens = {1, 2}
  Kinds = {"readio", "writeio", "writez"}
  Errors = TRUE
  SlowBus = FALSE
  SplitReads = TRUE
  Interrupts = FALSE
  MaxIdle = 0
  Backlog = 2
PROPERTIES
  CallsEnd
