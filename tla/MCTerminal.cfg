SPECIFICATION Spec
CONSTANTS
  VGA_WIDTH = 6
  VGA_HEIGHT = 2
  TAB = 2
  CMD_LABEL = 2
  ERROR_LABEL = 3
  FLOPPY_ERROR = 2
  Splash <- MCSplash
  EarlyWraps = {0, 1}
  Keys = {" ", "nul", "help", "echo", "text", "newline", "backspace", "end"}
  MaxIrqs = 4
INVARIANTS
  TypeOK
  LineIsWritten
PROPERTY
  RunsWhatIsWritten
