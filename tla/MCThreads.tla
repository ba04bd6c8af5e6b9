------------------------------ MODULE MCThreads ------------------------------
(***************************************************************************)
(* The programs that are processes of a few threads, side by side: one of  *)
(* them is chosen and runs, the others stay where they start.  Threads are *)
(* numbered from 0.                                                        *)
(***************************************************************************)
EXTENDS Barrier

CONSTANTS Nodes, NULL,                      \* of NsMutex
          Readers, Writers,                 \* of ReaderWriter
          vector_threads, loops, MaxRetry,  \* of Vectors
          num_threads, num_cpus, increments, THRESHOLD   \* of Counters

VARIABLES
  program,
  nostarve, writelock, readerLock, blockNewReader, readers, rw_pc,
  locked, head, tail, guard, heap, next, sem, n, ns_pc,
  rendezvous, s, ho_pc,
  scheme, cause_deadlock, enable_parallelism, v, owner, held, reg, turns, retry, failed, ve_pc,
  design, global_count, global_lock, local_counts, local_locks, co_reg, co_turns, result, co_pc

Rw == INSTANCE ReaderWriter WITH pc <- rw_pc
Ns == INSTANCE NsMutex WITH pc <- ns_pc
Ho == INSTANCE Handoff WITH pc <- ho_pc
Ve == INSTANCE Vectors WITH num_threads <- vector_threads, pc <- ve_pc
Co == INSTANCE Counters WITH reg <- co_reg, turns <- co_turns, total <- result, pc <- co_pc

ASSUME ProgramsAssumption ==
  /\ Rw!ReaderWriterAssumption /\ Ns!NsAssumption
  /\ Ve!VectorsAssumption /\ Co!CountersAssumption

rwVars == <<nostarve, writelock, readerLock, blockNewReader, readers, rw_pc>>
nsVars == <<locked, head, tail, guard, heap, next, sem, n, ns_pc>>
hoVars == <<rendezvous, s, ho_pc>>
veVars == <<scheme, cause_deadlock, enable_parallelism, v, owner, held, reg, turns, retry,
            failed, ve_pc>>
coVars == <<design, global_count, global_lock, local_counts, local_locks, co_reg, co_turns,
            result, co_pc>>
programVars == <<program, vars, rwVars, nsVars, hoVars, veVars, coVars>>

\* Only the program that runs has its choice of variants.
ProgramInit ==
  /\ program \in {"barrier", "readers", "mutex", "handoff", "vectors", "counters"}
  /\ Init /\ Rw!Init /\ Ns!Init /\ Ho!Init /\ Ve!Init /\ Co!Init
  /\ program # "readers" => nostarve
  /\ program # "handoff" => rendezvous
  /\ program # "vectors" => scheme = "order" /\ cause_deadlock /\ ~enable_parallelism
  /\ program # "counters" => design = "cpu"

\* The program of this name runs, and the others stay where they are.
Alone(name) ==
  /\ program = name
  /\ UNCHANGED program
  /\ name # "barrier"  => UNCHANGED vars
  /\ name # "readers"  => UNCHANGED rwVars
  /\ name # "mutex"    => UNCHANGED nsVars
  /\ name # "handoff"  => UNCHANGED hoVars
  /\ name # "vectors"  => UNCHANGED veVars
  /\ name # "counters" => UNCHANGED coVars

Ids == 0..5

\* A step of the thread with this number.
ThreadStep(t) ==
  \/ Alone("barrier") /\ t \in Threads /\ Step(t)
  \/ Alone("readers") /\ t \in Readers /\ Rw!ReaderStep(t)
  \/ Alone("readers") /\ t \in Writers /\ Rw!WriterStep(t)
  \/ Alone("mutex") /\ t \in Threads /\ Ns!Step(t)
  \/ Alone("handoff") /\ t \in 0..2 /\ Ho!Step(t)
  \/ Alone("vectors") /\ t \in Ve!Workers /\ Ve!Step(t)
  \/ Alone("counters") /\ t \in Co!Workers /\ Co!Step(t)

MainStep == Alone("counters") /\ Co!sloppy_counter_get

\* The process has nothing more to do.
ProcessStopped ==
  \/ Alone("barrier") /\ Finished
  \/ Alone("readers") /\ Rw!Finished
  \/ Alone("mutex") /\ Ns!Stopped
  \/ Alone("handoff") /\ Ho!Finished
  \/ Alone("vectors") /\ Ve!Stopped
  \/ Alone("counters") /\ Co!Finished

ProgramNext == (\E t \in Ids : ThreadStep(t)) \/ MainStep \/ ProcessStopped

\* Every thread of the program that runs is scheduled when it can run.
ProgramSpec ==
  /\ ProgramInit /\ [][ProgramNext]_programVars
  /\ \A t \in Threads : WF_vars(program = "barrier" /\ Step(t))
  /\ \A t \in Readers : WF_rwVars(program = "readers" /\ Rw!ReaderStep(t))
  /\ \A t \in Writers : WF_rwVars(program = "readers" /\ Rw!WriterStep(t))
  /\ \A t \in Threads : WF_nsVars(program = "mutex" /\ Ns!Step(t))
  /\ \A t \in 0..2 : WF_hoVars(program = "handoff" /\ Ho!Step(t))
  /\ \A t \in Ve!Workers : WF_veVars(program = "vectors" /\ Ve!Step(t))
  /\ \A t \in Co!Workers : WF_coVars(program = "counters" /\ Co!Step(t))
  /\ WF_coVars(program = "counters" /\ Co!sloppy_counter_get)

------------------------------------------------------------------------------
(* The properties of the programs *)

\* While a writer is between acquire and release no reader is, and no other writer.
Exclusion == Rw!TypeOK /\ Rw!Exclusion

\* A writer that has stopped new readers gets the no-starve lock, and the thread at
\* the head of the list of mutex-nostarve.c gets the mutex.
FirstWaiterServed == Rw!WaitingWriterServed /\ Ns!FirstInQueueServed

\* At most one thread holds the mutex of mutex-nostarve.c, locked says whether one
\* does, and what ns_mutex_release hands over to is a live node whose thread sleeps on it.
MutexHandedOver == Ns!TypeOK /\ Ns!MutualExclusion /\ Ns!HeadIsWaiting

\* In rendezvous.c and fork-join.c nobody gets past the wait before every child has
\* printed what comes first and posted.
HandoffOrdered == Ho!BeforeThenAfter

\* No circle of threads that wait, except in vector-deadlock.c with -d.
NoDeadlock == Ve!TypeOK /\ Ve!NoDeadlock

\* Every vector_add adds what the source is to what the destination is when it is
\* written, except in vector-nolock.c with -d.
AdditionsAtomic == Ve!AdditionsAtomic

\* The "Retries:" of vector-try-wait.c are exact without -d, and with it neither
\* more than the failed trylocks nor 0 if there are any.
RetriesCounted == Ve!RetriesCounted

\* A sloppy counter loses no increment and counts none twice, during transfers too,
\* and its global count lags behind by at most THRESHOLD for each local count.
Conserved == Co!Conserved /\ Co!SloppyBound

\* What main prints of a counter is what it says it expects; in t1.c at least 2.
FinalCount == Co!FinalCount

\* Every program ends: all children pass the barrier, the parents of fork-join.c and
\* rendezvous.c end, no thread is left behind at a lock of a vector or a counter
\* (other than by the deadlock and the livelock that -d is there to show).
EveryProgramEnds ==
  /\ program = "barrier" => EveryonePasses
  /\ program = "handoff" => Ho!ParentEnds
  /\ program = "vectors" => Ve!Termination
  /\ program = "counters" => Co!Termination
==============================================================================
