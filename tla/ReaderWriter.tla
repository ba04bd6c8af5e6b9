----------------------------- MODULE ReaderWriter -----------------------------
(***************************************************************************)
(* The reader-writer locks of reader-writer.c and reader-writer-nostarve.c *)
(* and the threads of their main programs.  The second program adds the    *)
(* semaphore blockNewReader and is the one that runs when nostarve is      *)
(* TRUE.  loops is left open: a thread stops after any number of turns.    *)
(* value, which is only touched between acquire and release, is left out.  *)
(***************************************************************************)
EXTENDS Naturals, FiniteSets

CONSTANTS Readers, Writers

ReaderWriterAssumption ==
  IsFiniteSet(Readers) /\ IsFiniteSet(Writers) /\ Readers \cap Writers = {}

Users == Readers \cup Writers

VARIABLES nostarve,         \* which of the two programs runs
          writelock, readerLock, blockNewReader,   \* values of the semaphores
          readers,          \* rw->readers
          pc

vars == <<nostarve, writelock, readerLock, blockNewReader, readers, pc>>

\* rwlock_init
Init ==
  /\ nostarve \in BOOLEAN
  /\ writelock = 1 /\ readerLock = 1 /\ blockNewReader = 1
  /\ readers = 0
  /\ pc = [t \in Users |-> "loop"]

\* t goes from one label to another.
Goto(t, from, to) == pc[t] = from /\ pc' = [pc EXCEPT ![t] = to]

\* Sem_wait and Sem_post on a semaphore with this value; wait blocks at 0.
Sem_wait(value, next) == value > 0 /\ next = value - 1
Sem_post(value, next) == next = value + 1

\* The test of the loop in reader and writer.
Turn(t, first) ==
  /\ Goto(t, "loop", first)
  /\ UNCHANGED <<nostarve, writelock, readerLock, blockNewReader, readers>>

Stop(t) ==
  /\ Goto(t, "loop", "done")
  /\ UNCHANGED <<nostarve, writelock, readerLock, blockNewReader, readers>>

------------------------------------------------------------------------------
(* rwlock_acquire_readlock *)

\* Mutant: a reader does not wait for the writer that waits.
ReaderGateNot(r) ==
  /\ Goto(r, "gate", "lock")
  /\ UNCHANGED <<nostarve, writelock, readerLock, blockNewReader, readers>>

ReaderGate(r) ==
  /\ Goto(r, "gate", "ungate")
  /\ Sem_wait(blockNewReader, blockNewReader')
  /\ UNCHANGED <<nostarve, writelock, readerLock, readers>>

ReaderUngate(r) ==
  /\ Goto(r, "ungate", "lock")
  /\ Sem_post(blockNewReader, blockNewReader')
  /\ UNCHANGED <<nostarve, writelock, readerLock, readers>>

LockCount(r) ==
  /\ Goto(r, "lock", "count")
  /\ Sem_wait(readerLock, readerLock')
  /\ UNCHANGED <<nostarve, writelock, blockNewReader, readers>>

\* rw->readers++
Count(r) ==
  /\ Goto(r, "count", "test")
  /\ readers' = readers + 1
  /\ UNCHANGED <<nostarve, writelock, readerLock, blockNewReader>>

TestFirst(r) ==
  /\ Goto(r, "test", IF readers = 1 THEN "first" ELSE "unlock")
  /\ UNCHANGED <<nostarve, writelock, readerLock, blockNewReader, readers>>

\* The first reader locks the writers out, or waits for one with readerLock held.
First(r) ==
  /\ Goto(r, "first", "unlock")
  /\ Sem_wait(writelock, writelock')
  /\ UNCHANGED <<nostarve, readerLock, blockNewReader, readers>>

UnlockCount(r) ==
  /\ Goto(r, "unlock", "read")
  /\ Sem_post(readerLock, readerLock')
  /\ UNCHANGED <<nostarve, writelock, blockNewReader, readers>>

------------------------------------------------------------------------------
(* rwlock_release_readlock *)

RelockCount(r) ==
  /\ Goto(r, "read", "leave")
  /\ Sem_wait(readerLock, readerLock')
  /\ UNCHANGED <<nostarve, writelock, blockNewReader, readers>>

\* rw->readers--
Leave(r) ==
  /\ Goto(r, "leave", "testlast")
  /\ readers' = readers - 1
  /\ UNCHANGED <<nostarve, writelock, readerLock, blockNewReader>>

\* Mutant: a reader releases the write lock while another one is left.
TestLastEarly(r) ==
  /\ Goto(r, "testlast", IF readers <= 1 THEN "last" ELSE "release")
  /\ UNCHANGED <<nostarve, writelock, readerLock, blockNewReader, readers>>

TestLast(r) ==
  /\ Goto(r, "testlast", IF readers = 0 THEN "last" ELSE "release")
  /\ UNCHANGED <<nostarve, writelock, readerLock, blockNewReader, readers>>

Last(r) ==
  /\ Goto(r, "last", "release")
  /\ Sem_post(writelock, writelock')
  /\ UNCHANGED <<nostarve, readerLock, blockNewReader, readers>>

Release(r) ==
  /\ Goto(r, "release", "loop")
  /\ Sem_post(readerLock, readerLock')
  /\ UNCHANGED <<nostarve, writelock, blockNewReader, readers>>

ReaderStep(r) ==
  \/ Turn(r, IF nostarve THEN "gate" ELSE "lock") \/ Stop(r)
  \/ ReaderGate(r) \/ ReaderUngate(r)
  \/ LockCount(r) \/ Count(r) \/ TestFirst(r) \/ First(r) \/ UnlockCount(r)
  \/ RelockCount(r) \/ Leave(r) \/ TestLast(r) \/ Last(r) \/ Release(r)

------------------------------------------------------------------------------
(* rwlock_acquire_writelock, rwlock_release_writelock *)

WriterGate(w) ==
  /\ Goto(w, "gate", "wlock")
  /\ Sem_wait(blockNewReader, blockNewReader')
  /\ UNCHANGED <<nostarve, writelock, readerLock, readers>>

AcquireWrite(w) ==
  /\ Goto(w, "wlock", "write")
  /\ Sem_wait(writelock, writelock')
  /\ UNCHANGED <<nostarve, readerLock, blockNewReader, readers>>

\* value++, then the release begins.
Write(w) ==
  /\ Goto(w, "write", IF nostarve THEN "ungate" ELSE "wunlock")
  /\ UNCHANGED <<nostarve, writelock, readerLock, blockNewReader, readers>>

WriterUngate(w) ==
  /\ Goto(w, "ungate", "wunlock")
  /\ Sem_post(blockNewReader, blockNewReader')
  /\ UNCHANGED <<nostarve, writelock, readerLock, readers>>

ReleaseWrite(w) ==
  /\ Goto(w, "wunlock", "loop")
  /\ Sem_post(writelock, writelock')
  /\ UNCHANGED <<nostarve, readerLock, blockNewReader, readers>>

WriterStep(w) ==
  \/ Turn(w, IF nostarve THEN "gate" ELSE "wlock") \/ Stop(w)
  \/ WriterGate(w) \/ AcquireWrite(w) \/ Write(w) \/ WriterUngate(w) \/ ReleaseWrite(w)

------------------------------------------------------------------------------
\* main has joined every thread.
Finished == (\A t \in Users : pc[t] = "done") /\ UNCHANGED vars

Next ==
  \/ \E r \in Readers : ReaderStep(r)
  \/ \E w \in Writers : WriterStep(w)
  \/ Finished

Spec == Init /\ [][Next]_vars

\* Every thread that can run is scheduled.  A semaphore may pass over a waiter
\* again and again: nothing makes sem_wait fair.
FairSpec ==
  /\ Spec
  /\ \A r \in Readers : WF_vars(ReaderStep(r))
  /\ \A w \in Writers : WF_vars(WriterStep(w))

------------------------------------------------------------------------------
(* Properties *)

TypeOK ==
  /\ writelock \in 0..1 /\ readerLock \in 0..1 /\ blockNewReader \in 0..1
  /\ readers \in 0..Cardinality(Readers)

\* While a writer is between acquire and release no reader is, and no other writer.
Exclusion ==
  \A w \in Writers : pc[w] \in {"write", "ungate", "wunlock"} =>
    /\ \A r \in Readers : pc[r] # "read"
    /\ \A u \in Writers \ {w} : pc[u] \notin {"write", "ungate", "wunlock"}

\* In reader-writer-nostarve.c a writer that has stopped new readers gets the lock,
\* however many readers keep coming.
WaitingWriterServed ==
  \A w \in Writers : (nostarve /\ pc[w] = "wlock") ~> pc[w] = "write"
===============================================================================
