\* Two goroutines and outside Sets over three keys that expire, in a cache of
\* DefaultCap = 2 (New is given a capacity of 0).
SPECIFICATION Spec
CONSTANTS
  p1 = p1
  p2 = p2
  k1 = k1
  k2 = k2
  k3 = k3
  found = found
  Procs <- TwoProcs
  Keys <- ThreeKeys
  SetKeys <- OneKey
  Payloads <- OnePayload
  TTLs = {1}
  CapArg = 0
  DefaultCap = 2
  MaxNow = 2
  Failure = Failure
  NoProc = NoProc
  NoKey = NoKey
CHECK_DEADLOCK FALSE
SYMMETRY ProcSymmetry
INVARIANTS
  TypeOK
  ListMatchesMap
  HoldsMostRecent
  OneFetchPerKey
  FetchOnlyWhenCold
PROPERTIES
  MonotoneReads
