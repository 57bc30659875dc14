SPECIFICATION Spec
CONSTANTS
  Words <- MCWords
  ConsoleChars = {"x"}
  Window = 2
  MinGap = 3
  Interrupts = TRUE
  Idles = TRUE
  Resets = TRUE
PROPERTIES
  NothingGarbled
  ResponsesComeOut
  InterruptsReportedInTraffic
