SPECIFICATION Spec
CONSTANTS
  Producers = {p1}
  Consumers = {c1}
  Chunks = {k1, k2, k3, k4}
  NULL = NULL
  CHUNK_SIZE = 2
  MaxItems = 6
  Quota <- Even
  PhasedUse = FALSE
INVARIANT NoLoss
