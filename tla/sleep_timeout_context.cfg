CONSTANTS
  main = main
  app = app
  bgd = bgd
  none = none
  tcpip = tcpip
  Threads = {main}
  Main = main
  StackThreads = {}
  Bg = bgd
  NoOwner = none
  RxCap = 1
  MaxFrames = 0
  SleepMax = 2
  OwnContext = FALSE
  DisableLocked = TRUE
SPECIFICATION Spec
PROPERTIES SleepTimeoutContext
