CONSTANTS
  Conns = {c1}
  Files <- SmallLarge
  LargeFiles = {large}
  Chunks <- LinesAndParts
  BufIds = {b1, b2}
  MAX_CLIENTS = 2
  MAX_CACHE_ENTRIES = 1
  REQ_BUF_SIZE = 5
  SockCap = 1
  Faults = TRUE
  MaxSends = 3
  MaxOutstanding = 2
  MaxCloses = 1
  MaxSignals = 1
  MaxInterrupts = 0
  Rewritten = {small}
  MaxVersion = 0
  small = small
  large = large
  NL = NL
  Uninit = Uninit
  NULL = NULL
SPECIFICATION FairSpec
INVARIANTS
  NoLostCompletion
  OnlyCompletedReads
  
  ResourcesOwned

  
  
