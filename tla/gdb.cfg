SPECIFICATION LiveSpec
CONSTANTS
  N = 3
  Commands <- MCCommands
  LRSC = TRUE
  EBREAKS = FALSE
  EXITS = TRUE
  PROMPT = TRUE
INVARIANTS TypeOK ReaderAlone AllStop
PROPERTY StopsUnlessLocked
CHECK_DEADLOCK FALSE
