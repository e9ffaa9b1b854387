SPECIFICATION Spec
CONSTANTS
  Day = 4
  Opens = 1
  Closes = 2
  Trading <- MCTrading
  Lookback = 2
  MaxPast = 8
  MaxFuture = 4
  DatedAge = 4
  MaxNow = 15
CHECK_DEADLOCK FALSE
INVARIANTS
  PastIsSettled
