CONSTANTS
  Threads = {1, 2, 3, 4}
  Nodes = {a1, a2, a3, a4}
  NULL = NULL
  Readers = {1, 2, 3}
  Writers = {4, 5}
  num_threads = 3
  vector_threads = 2
  loops = 2
  MaxRetry = 2
  num_cpus = 2
  increments = 2
  THRESHOLD = 2
SPECIFICATION ProgramSpec
INVARIANTS
  BeforeThenAfter
  OnePostEach
  Exclusion
  MutexHandedOver
  HandoffOrdered
  NoDeadlock
  RetriesCounted
  Conserved
  FinalCount
PROPERTIES
  FirstWaiterServed
  AdditionsAtomic
  EveryProgramEnds
