CONSTANTS
  Conns = {c1, c2, c3}
  Active = {c1, c2}
  Reading = {c1}
  Files <- Three
  LargeFiles = {large}
  Chunks <- RequestsOrOverlong
  MAX_CLIENTS = 2
  MAX_CACHE_ENTRIES = 1
  REQ_BUF_SIZE = 5
  SockCap = 1
  MaxFaults = 1
  MaxSends = 1
  MaxOutstanding = 2
  MaxCloses = 1
  MaxSignals = 1
  MaxInterrupts = 2
  Rewritten = {small}
  MaxVersion = 1
  small = small
  other = other
  large = large
  NL = NL
  Uninit = Uninit
  NULL = NULL
SPECIFICATION ServersSpec
INVARIANTS
  TableOK
  CacheOK
  FramingUnlessCut
  FreshUnlessCarried
PROPERTIES
  LinesAnswered
  QuitsAtNextPass
  TokioAnswered
