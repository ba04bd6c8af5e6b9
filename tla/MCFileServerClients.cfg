CONSTANTS
  Conns = {c1, c2, c3}
  Files <- TwoSmall
  LargeFiles = {}
  Chunks <- RequestsOrOverlong
  MAX_CLIENTS = 2
  MAX_CACHE_ENTRIES = 1
  REQ_BUF_SIZE = 5
  SockCap = 2
  Faults = FALSE
  MaxSends = 1
  MaxOutstanding = 2
  MaxCloses = 1
  MaxSignals = 0
  MaxInterrupts = 1
  Rewritten = {small}
  MaxVersion = 0
  small = small
  other = other
  large = large
  NL = NL
  Uninit = Uninit
  NULL = NULL
SPECIFICATION Spec
SYMMETRY Interchangeable
INVARIANTS
  TableOK
  CacheOK
  RoomToRead
