SPECIFICATION LiveSpec
CONSTANTS
  Harts = {h1, h2}
  Addrs = {a, b}
  Free = Free
  NoAddr = NoAddr
  WINDOW = 3
  QUANTUM = 2
  Walks = {FALSE, TRUE}
INVARIANTS ScIsAtomic SleepersHoldNoLock
PROPERTIES LockIsTemporary HartsYield
