CONSTANTS
  Conns = {c1, c2}
  Files <- SmallLarge
  LargeFiles = {large}
  Chunks <- SingleOrTwo
  MAX_CLIENTS = 2
  MAX_CACHE_ENTRIES = 1
  REQ_BUF_SIZE = 5
  SockCap = 1
  Faults = TRUE
  MaxSends = 1
  MaxOutstanding = 2
  MaxCloses = 0
  MaxSignals = 1
  MaxInterrupts = 0
  Rewritten = {small}
  MaxVersion = 1
  small = small
  other = other
  large = large
  NL = NL
  Uninit = Uninit
  NULL = NULL
SPECIFICATION FairSpec
INVARIANTS
  FramingUnlessCut
  FreshAfterFlush
PROPERTIES
  AnsweredUnlessCut
  FlushAtNextPass
