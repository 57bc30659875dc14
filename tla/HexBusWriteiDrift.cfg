SPECIFICATION Spec
CONSTANTS
  Base = 8
  Addrs = {0, 8}
  Data = {9}
  Lens = {1}
  Kinds = {"readi", "writei"}
  Errors = FALSE
  SlowBus = FALSE
  SplitReads = FALSE
  Interrupts = FALSE
  MaxIdle = 0
  Backlog = 12
INVARIANTS
  AccessesAreTheCallsOwn
