SPECIFICATION Spec
CONSTANTS
  Base = 8
  Addrs = {0, 4}
  Data = {3, 9}
  Lens = {1, 2}
  Kinds = {"readio", "readz"}
  Errors = TRUE
  SlowBus = TRUE
  SplitReads = FALSE
  Interrupts = FALSE
  MaxIdle = 2
  Backlog = 12
INVARIANTS
  AccessesAreTheCallsOwn
  ReturnsWhatTheBusDid
