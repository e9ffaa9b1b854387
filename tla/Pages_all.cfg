\* Two goroutines on one key of each of the three caches, and the key's page.
SPECIFICATION PSpec
CONSTANTS
  g1 = g1
  g2 = g2
  k1 = k1
  Procs <- TwoProcs
  Keys <- OneKey
  Kinds <- AllKinds
  OkTTL <- Ok
  FailTTL <- Fail
  GoneTTL <- Gone
  MinTTLs = {0, 3}
  TTLMin = 1
  TTLMax = 2
  MaxNow = 4
  OkAges <- Ages
  BannerAge = 1
  NoProc = NoProc
  NoKey = NoKey
  Nil = Nil
CHECK_DEADLOCK FALSE
SYMMETRY ProcSymmetry
INVARIANTS
  TypeOK
  ValueFitsError
  StaleOnlyInBackoff
  PagesAreYoung
  BannerIsRecent
