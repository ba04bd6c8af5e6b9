CONSTANTS
  Threads = {t1, t2, t3}
  Nodes = {a1, a2, a3}
  NULL = NULL
SPECIFICATION FairSpec
PROPERTIES
  NoStarvation
