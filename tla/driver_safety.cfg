CONSTANTS
  main = main
  app = app
  bgd = bgd
  none = none
  tcpip = tcpip
  Threads = {main, app, tcpip}
  Main = main
  StackThreads = {tcpip}
  Bg = bgd
  NoOwner = none
  RxCap = 2
  MaxFrames = 2
  SleepMax = 1
  OwnContext = FALSE
  DisableLocked = TRUE
SPECIFICATION StackOutSpec
INVARIANTS TypeOK PollHasDriver ItfMeansRunning LwipExclusive TxFrameIntact LockHasContext DeinitAlone AppInductive ListedMeansItf DeliveredInOrder
PROPERTIES LossyFifo InterfaceKept
