\* Three goroutines, the two language versions of a stock page and a terminal's,
\* in a cache of one entry.
SPECIFICATION Spec
CONSTANTS
  g1 = g1
  g2 = g2
  g3 = g3
  Procs <- ThreeProcs
  Requests <- ThreeVisits
  MaxAges = {1}
  MaxArg = 1
  DefaultMaxEntries = 2
  MaxNow = 2
  NoProc = NoProc
  Nothing = Nothing
CHECK_DEADLOCK FALSE
SYMMETRY ProcSymmetry
INVARIANTS
  TypeOK
  ListMatchesMap
  OneLeaderPerKey
  ServesOwnPage
  YoungUpToOwnDelay
