SPECIFICATION MCSpec
CONSTANTS
  UartBytes <- MCBytes
  UartSetups <- MCSetups
  MaxChars = 2
  SimPrograms <- MCPrograms
  SimRegs = {1}
  ClockSets <- MCClocks
  MaxTime = 400
  NumTasks = 3
  Loops = 2
  Checks = 2
  W = 4
  Dividends <- MCDividends
  Divisors <- MCDivisors
  Chars = {"a", "CR", "LF"}
  Messages <- MCMessages
  Numbers <- MCNumbers
  IntBits = 8
  TxLen = 2
  RxLen = 2
  MaxCalls = 2
  MaxTyped = 3
  MaxLen = 2
  NM = 2
  NS = 2
  MaxPending = 2
  Faulty = {2}
  MaxIssued <- MCIssued
INVARIANTS
  TypesOK
  CharactersAreKept
  HarnessIsFaithful
  LockIsSafe
  DivisionIsRight
  TextIsKept
  AnswersReachTheirMaster
PROPERTIES
  ProgramsEnd
CHECK_DEADLOCK FALSE
