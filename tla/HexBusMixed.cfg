SPECIFICATION Spec
CONSTANTS
  Base = 8
  Addrs = {0, 4, 8}
  Data = {0, 9}
  Lens = {1, 3}
  Kinds = {"readio", "readi", "readz", "writeio", "writez"}
  Errors = FALSE
  SlowBus = FALSE
  SplitReads = FALSE
  Interrupts = TRUE
  MaxIdle = 0
  Backlog = 12
INVARIANTS
  AccessesAreTheCallsOwn
  ReturnsWhatTheBusDid
  AddressBeliefIsTrue
