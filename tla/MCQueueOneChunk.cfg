SPECIFICATION FairSpec
CONSTANTS
  Producers = {p1, p2}
  Consumers = {c1, c2}
  Chunks = {k1, k2}
  NULL = NULL
  CHUNK_SIZE = 3
  MaxItems = 2
  Quota <- Uneven
  PhasedUse = FALSE
INVARIANTS
  DuplicatesNeedReuse
  PerProducerOrder
PROPERTIES
  EmptyIsHonest
  EverythingDelivered
