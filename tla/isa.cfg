SPECIFICATION Spec
CONSTANTS
  LEVELS = 2
  IDXBITS = 1
  EXT_BITS = 1
  TLB_ENTRIES = 2
  TablePages = {0, 1}
  ADDR_BITS = 4
  SMPU_ALIGN = 1
  SMPU_NAPOT_MIN = 2
  SMPU_NAPOT_MAX = 3
  WORD_BITS = 3
  MaxAccesses = 2
  MaxChanges = 1
  PageTables <- SamplePageTables
  Ptes <- SamplePtes
  PteAddrs <- SamplePteAddrs
  SmpuCores <- SampleSmpuCores
  SmpuAccesses <- SampleSmpuAccesses
  SpmpTables <- SampleSpmpTables
  SpmpEntries <- SampleSpmpEntries
  SpmpAccesses <- SampleSpmpAccesses
  CsrContexts <- SampleCsrContexts
  FpRegisters = {0, 1}
  FpOperations <- SampleFpOperations
  FpModes = {0, 4}
INVARIANTS DecodeExact ArithmeticExact ExecPrecise CsrChecksAgree TranslationExact
  
CHECK_DEADLOCK FALSE
