\* Two goroutines on the weekly dump: one reads the entry, the other rotates.
SPECIFICATION Spec
CONSTANTS
  Procs = {g1, g2}
  MaxWeek = 3
  Listed = {1, 2, 3}
  TTL = 2
  MaxNow = 4
  NoProc = NoProc
  Nothing = Nothing
CHECK_DEADLOCK FALSE
INVARIANTS
  CarriesPriorWeek
