SPECIFICATION Spec
CONSTANTS
  Producers = {p1, p2}
  Consumers = {c1, c2}
  Chunks = {k1, k2, k3, k4, k5, k6}
  NULL = NULL
  CHUNK_SIZE = 1
  MaxItems = 2
  Quota <- Even
  PhasedUse = TRUE
SYMMETRY Symmetry
INVARIANTS
  TypeOK
  NoLoss
  DestructorFreesEachChunkOnce
