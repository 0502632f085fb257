SPECIFICATION Spec
CONSTANTS
  c1 = c1
  c2 = c2
  t1 = t1
  t2 = t2
  Clients = {c1, c2}
  Threads = {t1, t2}
  NoThread = NoThread
  Rings <- MCRings
  Latest <- MCLatest
  Capacity = 2
  MaxPayload = 2
  Chunk = 1
  MaxErrors = 2
  MaxEvents = 2
INVARIANTS StaleAtMostOneChunk
PROPERTY RadioStreamsAgain
CHECK_DEADLOCK FALSE
