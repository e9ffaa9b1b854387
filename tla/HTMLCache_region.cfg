\* The region-routed stock page, asked for from two countries of one locale.
SPECIFICATION Spec
CONSTANTS
  g1 = g1
  g2 = g2
  g3 = g3
  Procs <- TwoProcs
  Requests <- RegionPages
  MaxAges = {1}
  MaxArg = 1
  DefaultMaxEntries = 2
  MaxNow = 2
  NoProc = NoProc
  Nothing = Nothing
CHECK_DEADLOCK FALSE
INVARIANTS
  ServesOwnPage
