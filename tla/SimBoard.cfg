SPECIFICATION MCSpec
CONSTANTS
  N = 3
  d1 = d1
  d2 = d2
  Data <- MCData
  CmdWords <- MCCmdWords
  Banks = {0, 1}
  Rows = {0, 1}
  Columns = {0, 1}
  Startup = 4
  PowerUpWait = 3
  Refresh = 14
  RefreshLow = 4
  BankOpen = 32
  Words <- MCWords
  Selects <- MCSelects
  MaxRequests = 2
  Targets <- MCTargets
  SCLKS = 3
  PP_DELAY = 2
  PPORTSIMBUFLEN = 4
  PortBytes <- MCPortBytes
  MaxIn = 1
  MaxOut = 2
  MemWords = 2
  Delays = {0, 1, 3}
  Lanes <- MCLanes
  MaxAccesses = 3
  FLEN = 4
  Chars <- MCChars
  RXFIFO = TRUE
  Lines = {"timer", "dev"}
  BUSTIMER = "timer"
  TimerMax = 3
  RELOADABLE = TRUE
INVARIANTS
  TypesOK
  CommandsAreCarriedOut
  SdramIsRight
  EachByteCrossesOnce
  MemoriesHoldTheWords
  InterruptsArrive
PROPERTIES
  StalledRequestHolds
  BoardAnswers
  FifoIsAQueue
CHECK_DEADLOCK FALSE
