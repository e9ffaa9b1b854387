\* Two goroutines on the weekly dump, or on the market's or the breadth's one value;
\* every fetcher on every kind of reply; every page with any of its facts missing.
SPECIFICATION MCSpec
CONSTANTS
  g1 = g1
  g2 = g2
  ours = ours
  other = other
  blank = blank
  Procs <- TwoProcs
  MaxWeek = 3
  Listed = {2, 3}
  TTL = 2
  MaxNow = 4
  NoProc = NoProc
  Nothing = Nothing
  NoValue = NoValue
  Kinds <- BothKinds
  SuccessTTL <- SomeSuccessTTL
  FailureTTL <- SomeFailureTTL
  UniverseTTL = 2
  Weathers <- SomeWeathers
  Batches <- SomeBatches
  MaxClock = 3
  Ours = ours
  NoCode = blank
  Today = 2
  Replies <- SomeReplies
  Quotes <- SomeQuotes
  Losable <- SomeFacts
CHECK_DEADLOCK FALSE
SYMMETRY ProcSymmetry
INVARIANTS
  Types
  MirrorsEntry
  ComparesBackwards
  OldOnlyAfterFailure
  OutageKeepsValue
  OutageIsNotHoliday
  EveryRowCounts
  OnlyWhatBelongs
PROPERTIES
  FailsAlone
