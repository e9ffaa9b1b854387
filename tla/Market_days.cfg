\* Two goroutines, from Monday's opening past its publishing hour into Tuesday.
SPECIFICATION Spec
CONSTANTS
  g1 = g1
  g2 = g2
  Procs <- TwoProcs
  Kinds <- AllKinds
  MaxDay = 3
  Weekend = {1}
  Schedules <- AllSchedules
  Never = 99
  DayTicks = 4
  PublishAt = 3
  MinTodayTTL = 2
  FailSets <- SomeFail
  Lookback = 3
  Evictable = {2}
  AsOfs <- AskedFor
  NoDate = NoDate
  Start = 9
  MaxNow = 13
  NoProc = NoProc
  Nothing = Nothing
CHECK_DEADLOCK FALSE
SYMMETRY ProcSymmetry
INVARIANTS
  NewestWithinADay
  OnTimeDayShows
  PartialIsBrief
