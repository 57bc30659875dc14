SPECIFICATION MCSpec
CONSTANTS
  PageSize = 2
  SectorSize = 4
  FlashSize = 8
  MaxBytes = 5
  MaxTrans = 4
  Images <- MCImages
  WornSets <- MCWorn
  MaxLen = 4
  WordSize = 2
  Sdram <- MCSdram
  Bkram <- MCBkram
  Files <- MCFiles
  Port = "direct"
  DbgRegs <- MCRegs
  RegValues = {0, 1}
  MAXERR = 2
  MaxKeys = 2
  LGMEM = 3
  ScopeHoldoffs = {0, 2}
  MaxStep = 2
  MaxChanges = 2
  MaxClocks = 13
  Width = 16
  Levels = 2
  Pictures <- MCPictures
  Burst = 8
  MaxPictures = 2
  NDigits = 2
  Digits = {"0", "1"}
  Zero = "0"
  ConsoleChars = {"7f"}
  MaxDigits = 3
PROPERTIES
  GoReleasesTheCpu
CHECK_DEADLOCK FALSE
