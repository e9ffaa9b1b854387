\* A crash during a save, a restart, and an orderly shutdown.
SPECIFICATION Spec
CONSTANTS
  k1 = k1
  Caches <- OneCache
  Keys <- OneKey
  TTL = 2
  Schemas = {1}
  MaxNow = 2
  NoFile = NoFile
  Garbage = Garbage
INVARIANTS
  SavedOnGracefulShutdown
