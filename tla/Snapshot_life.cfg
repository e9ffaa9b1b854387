\* Restarts, crashes and failing disks over two caches.
SPECIFICATION Spec
CONSTANTS
  k1 = k1
  Caches <- TwoCaches
  Keys <- OneKey
  TTL = 2
  Schemas = {1, 2}
  MaxNow = 2
  NoFile = NoFile
  Garbage = Garbage
INVARIANTS
  TypeOK
  NoResurrection
  SavedUnlessFailed
PROPERTIES
  KeepsSnapshot
