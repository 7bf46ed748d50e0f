SPECIFICATION Spec
CONSTANTS
  Iprio <- MCIprio
  Programs <- MCPrograms
INVARIANTS TypeOK ExternalBitsFresh HartAssertsHold RoutedOnce
PROPERTY EdgeReachesFile
