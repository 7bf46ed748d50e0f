SPECIFICATION AplicSpec
CONSTANTS
  NumberInterrupts = 3
  AplicHarts = {1}
  AplicEiids = {5}
  AplicModes = {"INACTIVE", "EDGE1"}
  MsiAddrCfgs <- MCMsiAddrCfgs
PROPERTY AplicPendingIsSent
