SPECIFICATION Spec
CONSTANTS
  Places <- MCPlaces
  Entry = 1
  Causes = {1, 2, 3}
  MEDELEG = {2, 3}
  HEDELEG = {1, 3}
  Configs <- MCConfigs
  MAX_CALLS = 3
INVARIANTS TrapAssertsHold VectorFetchedByHandler
  OwnStack SpvpNamesGuest
PROPERTY ReturnsToCaller
