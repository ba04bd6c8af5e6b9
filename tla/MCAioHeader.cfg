CONSTANTS
  Conns = {c1}
  Files <- SmallLarge
  LargeFiles = {large}
  Chunks <- SmallLargeRequests
  BufIds = {b1, b2}
  MAX_CLIENTS = 2
  MAX_CACHE_ENTRIES = 1
  REQ_BUF_SIZE = 5
  SockCap = 2
  Faults = FALSE
  MaxSends = 2
  MaxOutstanding = 2
  MaxCloses = 0
  MaxSignals = 0
  MaxInterrupts = 0
  Rewritten = {small}
  MaxVersion = 0
  small = small
  large = large
  NL = NL
  Uninit = Uninit
  NULL = NULL
SPECIFICATION Spec
INVARIANTS
  Framing
