SPECIFICATION Spec
CONSTANTS
  IMSIC_MAX_IRQS = 4
  NV_MODE_MAX_VECTOR = 2
  BITS_PER_CSR = 2
  TOPEI_IID_MOD = 8
INVARIANTS SignalFresh TopeiNamesSignalled
PROPERTY ClaimTakesTop
