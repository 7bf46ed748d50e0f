SPECIFICATION Spec
CONSTANTS
  IMSIC_MAX_IRQS = 3
  NV_MODE_MAX_VECTOR = 1
  BITS_PER_CSR = 3
  TOPEI_IID_MOD = 6
  MAX_GUEST = 2
  EnableWrites = {{2}, {1, 2}}
  ThresholdWrites = {0, 2, 3}
  ModeWrites = {0, 3}
  HgeieWrites = {{}, {2}}
INVARIANTS TypeOK GuestSignalsFresh RunningGuestSeesItsFile
PROPERTY ClaimsOwnTop
