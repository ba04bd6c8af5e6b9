CONSTANTS
  Conns = {c1, c2, c3}
  Files <- OneFile
  LargeFiles = {}
  Chunks <- OneRequest
  BufIds = {b1, b2}
  MAX_CLIENTS = 2
  MAX_CACHE_ENTRIES = 1
  REQ_BUF_SIZE = 5
  SockCap = 4
  Faults = FALSE
  MaxSends = 1
  MaxOutstanding = 1
  MaxCloses = 1
  MaxSignals = 0
  MaxInterrupts = 0
  Rewritten = {small}
  MaxVersion = 0
  small = small
  large = large
  NL = NL
  Uninit = Uninit
  NULL = NULL
SPECIFICATION Spec
INVARIANTS
  OnlyCompletedReads
