CONSTANTS
  main = main
  app = app
  bgd = bgd
  none = none
  tcpip = tcpip
  Threads = {main}
  Main = main
  StackThreads = {}
  Bg = bgd
  NoOwner = none
  RxCap = 1
  MaxFrames = 1
  SleepMax = 1
  OwnContext = TRUE
  DisableLocked = TRUE
SPECIFICATION FairSpec
PROPERTIES FramesServiced
