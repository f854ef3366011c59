SPECIFICATION Spec
CONSTANTS
  Producers = {p1}
  Consumers = {c1, c2}
  Chunks = {k1, k2, k3}
  NULL = NULL
  CHUNK_SIZE = 1
  MaxItems = 3
  Quota <- Even
  PhasedUse = FALSE
SYMMETRY Symmetry
INVARIANT NoDuplicateDelivery
