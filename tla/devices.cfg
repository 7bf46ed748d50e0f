SPECIFICATION Spec
CONSTANTS
  NumberInterrupts = 3
  AplicHarts = {1}
  AplicEiids = {5}
  AplicModes = {"INACTIVE", "DELEGATED", "EDGE1", "EDGE0", "LEVEL1"}
  MsiAddrCfgs <- MCMsiAddrCfgs
  FeIrqs = {1, 2}
  FeMaxPriority = 2
  FePriorityWrites = {0, 1, 3}
  FuHarts = {1}
  FuIrqs = {1, 2}
  FuMaxPrio = 1
  FuMaxThr = 1
  DmaMem = 6
  DmaBuffer = 2
  DmaSrcs = {0}
  DmaDsts = {1, 3}
  DmaLens = {0, 2, 3}
  DmaMaxStarts = 2
  ClintHarts = {0}
  ClintScaler = 2
  ClintQuantum = 3
  ClintCompares = {0, 2}
  ClintMaxTime = 6
  RcHarts = {0, 1}
  RcDividend = 2
  RcCompares = {0, 1, 2}
  RcMaxUsec = 4
  UART_FIFO_DEPTH = 2
  UartMaxSent = 3
  UartMaxTyped = 4
  UartWatermarks = {0, 1}
  UartFrames = {2, 4}
  SlipMaxPacket = 3
INVARIANTS ControllersExact DmaCopyExact TimersOnTime SerialExact
PROPERTIES AplicEdgeOnce UartStops
CHECK_DEADLOCK FALSE
