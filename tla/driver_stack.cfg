CONSTANTS
  main = main
  app = app
  bgd = bgd
  none = none
  tcpip = tcpip
  Threads = {main, tcpip}
  Main = main
  StackThreads = {tcpip}
  Bg = bgd
  NoOwner = none
  RxCap = 1
  MaxFrames = 2
  SleepMax = 2
  OwnContext = TRUE
  DisableLocked = FALSE
SPECIFICATION Spec
INVARIANTS MaskedIrqIsServiced IrqHasHandler SleepChainUnbroken LockGivenBack Inductive
PROPERTIES LockRunsDown
