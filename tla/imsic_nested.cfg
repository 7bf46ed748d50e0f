SPECIFICATION RunSpec
CONSTANTS
  IMSIC_MAX_IRQS = 5
  NV_MODE_MAX_VECTOR = 3
  BITS_PER_CSR = 3
  TOPEI_IID_MOD = 10
INVARIANT BitmapIsStack
PROPERTIES NestsLikeCalls TopIsServed
