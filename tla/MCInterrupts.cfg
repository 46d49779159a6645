SPECIFICATION Spec
CONSTANTS
  MaxEvents = 1
  MaxKeys = 3
  Sectors = 1
INVARIANTS
  TypeOK
  OneHandler
  InService
  NoPanic
  FloppyWait
  NoStuckKeyboard
PROPERTIES
  BootReachesSplash
  HandlerReturns
  KeyServiced
