\* One goroutine asks for Monday's retail futures while both small contracts fail.
SPECIFICATION Spec
CONSTANTS
  g1 = g1
  g2 = g2
  Procs <- OneProc
  Kinds <- FuturesOnly
  MaxDay = 3
  Weekend = {1}
  Schedules <- OnTime
  Never = 99
  DayTicks = 4
  PublishAt = 3
  MinTodayTTL = 2
  FailSets <- SomeFail
  Lookback = 3
  Evictable = {}
  AsOfs <- AskedFor
  NoDate = NoDate
  Start = 9
  MaxNow = 15
  NoProc = NoProc
  Nothing = Nothing
CHECK_DEADLOCK FALSE
INVARIANTS
  FailureIsBrief
