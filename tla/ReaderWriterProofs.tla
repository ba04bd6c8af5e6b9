-------------------------- MODULE ReaderWriterProofs --------------------------
(***************************************************************************)
(* The locks of reader-writer.c and reader-writer-nostarve.c keep readers  *)
(* and writers apart, for any number of each.                              *)
(***************************************************************************)
EXTENDS ReaderWriter, FiniteSetTheorems, TLAPS

Labels == {"loop", "done", "gate", "ungate", "lock", "count", "test", "first", "unlock", "read",
           "leave", "testlast", "last", "release", "wlock", "write", "wunlock"}

\* The section readerLock protects, the readers rw->readers counts, the labels at
\* which the readers together hold writelock, and those at which a writer does.
Section == {"count", "test", "first", "unlock", "leave", "testlast", "last", "release"}
Counted == {r \in Readers : pc[r] \in {"test", "first", "unlock", "read", "leave"}}
Held == {"unlock", "read", "leave", "testlast", "last"}
Writing == {"write", "ungate", "wunlock"}

\* The counter counts, under its lock, and the label of the thread that holds that
\* lock says what it has found in the counter.
CountInv ==
  /\ pc \in [Users -> Labels]
  /\ readerLock \in {0, 1}
  /\ \A r \in Readers : pc[r] \in Section => readerLock = 0
  /\ \A r, u \in Readers : pc[r] \in Section /\ pc[u] \in Section => r = u
  /\ readers = Cardinality(Counted)
  /\ \A r \in Readers : pc[r] = "first" => readers = 1
  /\ \A r \in Readers : pc[r] = "last" => readers = 0

\* writelock has one owner: a writer, or the readers.
OwnerInv ==
  /\ writelock \in {0, 1}
  /\ \A r \in Readers : pc[r] \in Held => writelock = 0
  /\ \A w \in Writers : pc[w] \in Writing => writelock = 0
  /\ \A w \in Writers, r \in Readers : ~(pc[w] \in Writing /\ pc[r] \in Held)
  /\ \A w, u \in Writers : pc[w] \in Writing /\ pc[u] \in Writing => w = u

IInv == CountInv /\ OwnerInv

\* What the value of the counter says about the readers.
LEMMA CountedFacts ==
  ASSUME ReaderWriterAssumption, CountInv
  PROVE  /\ IsFiniteSet(Counted) /\ readers \in Nat
         /\ readers = 0 => Counted = {}
         /\ \A r \in Counted : readers = 1 <=> Counted = {r}
<1>1. IsFiniteSet(Counted)
  BY FS_Subset DEF Counted, ReaderWriterAssumption
<1>2. readers \in Nat /\ (readers = 0 <=> Counted = {})
  BY <1>1, FS_CardinalityType, FS_EmptySet DEF CountInv
<1>3. \A r \in Counted : readers = 1 <=> Counted = {r}
  <2>1. (readers = 1) <=> \E x : Counted = {x}
    BY <1>1, FS_Singleton DEF CountInv
  <2> QED
    BY <2>1
<1> QED
  BY <1>1, <1>2, <1>3

\* A reader that is counted and outside the section reads.
LEMMA OutsideReads ==
  ASSUME CountInv, NEW u \in Counted, pc[u] \notin Section
  PROVE  u \in Readers /\ pc[u] = "read"
BY DEF Counted, Section

LEMMA InitIInv == ASSUME ReaderWriterAssumption PROVE Init => IInv
<1> SUFFICES ASSUME Init PROVE IInv
  OBVIOUS
<1>1. Counted = {}
  BY DEF Init, Counted, Users
<1>2. Cardinality(Counted) = 0
  BY <1>1, FS_EmptySet
<1> QED
  BY <1>2 DEF Init, IInv, CountInv, OwnerInv, Users, Labels, Section, Held, Writing

\* Steps that do not change who is counted.
LEMMA ReaderStepIInv ==
  ASSUME ReaderWriterAssumption, IInv, NEW r \in Readers, ReaderStep(r)
  PROVE  IInv'
<1> USE DEF IInv, CountInv, OwnerInv, Goto, Sem_wait, Sem_post, Users, Labels, Section, Held, Writing,
            ReaderWriterAssumption
<1>1. CASE Turn(r, IF nostarve THEN "gate" ELSE "lock") \/ Stop(r) \/ ReaderGate(r) \/ ReaderUngate(r)
  <2>1. Counted' = Counted
    BY <1>1 DEF Turn, Stop, ReaderGate, ReaderUngate, Counted
  <2> QED
    BY <1>1, <2>1 DEF Turn, Stop, ReaderGate, ReaderUngate
<1>2. CASE LockCount(r)
  <2>1. Counted' = Counted
    BY <1>2 DEF LockCount, Counted
  <2> QED
    BY <1>2, <2>1 DEF LockCount
<1>3. CASE Count(r)
  <2>1. Counted' = Counted \cup {r} /\ r \notin Counted
    BY <1>3 DEF Count, Counted
  <2>2. Cardinality(Counted') = readers + 1
    BY <2>1, CountedFacts, FS_AddElement
  <2> QED
    BY <1>3, <2>2 DEF Count
<1>4. CASE TestFirst(r)
  <2>1. Counted' = Counted /\ r \in Counted
    BY <1>4 DEF TestFirst, Counted
  <2>2. CASE readers = 1
    BY <1>4, <2>1, <2>2 DEF TestFirst
  <2>3. CASE readers # 1
    <3>1. PICK u \in Counted : u # r
      BY <2>1, <2>3, CountedFacts
    <3>2. u \in Readers /\ pc[u] = "read"
      BY <1>4, <3>1, OutsideReads DEF TestFirst, Counted
    <3> QED
      BY <1>4, <2>1, <2>3, <3>2 DEF TestFirst
  <2> QED
    BY <2>2, <2>3
<1>5. CASE First(r)
  <2>1. Counted' = Counted
    BY <1>5 DEF First, Counted
  <2> QED
    BY <1>5, <2>1 DEF First
<1>6. CASE UnlockCount(r) \/ RelockCount(r)
  <2>1. Counted' = Counted
    BY <1>6 DEF UnlockCount, RelockCount, Counted
  <2> QED
    BY <1>6, <2>1 DEF UnlockCount, RelockCount
<1>7. CASE Leave(r)
  <2>1. Counted' = Counted \ {r} /\ r \in Counted
    BY <1>7 DEF Leave, Counted
  <2>2. Cardinality(Counted') = readers - 1
    BY <2>1, CountedFacts, FS_RemoveElement
  <2> QED
    BY <1>7, <2>2 DEF Leave
<1>8. CASE TestLast(r)
  <2>1. Counted' = Counted
    BY <1>8 DEF TestLast, Counted
  <2> QED
    BY <1>8, <2>1 DEF TestLast
<1>9. CASE Last(r)
  <2>1. Counted' = Counted /\ Counted = {}
    BY <1>9, CountedFacts DEF Last, Counted
  <2>2. \A u \in Readers \ {r} : pc[u] \notin Held
    BY <1>9, <2>1 DEF Last, Counted
  <2> QED
    BY <1>9, <2>1, <2>2 DEF Last
<1>10. CASE Release(r)
  <2>1. Counted' = Counted
    BY <1>10 DEF Release, Counted
  <2> QED
    BY <1>10, <2>1 DEF Release
<1> QED
  BY <1>1, <1>2, <1>3, <1>4, <1>5, <1>6, <1>7, <1>8, <1>9, <1>10 DEF ReaderStep

LEMMA WriterStepIInv ==
  ASSUME ReaderWriterAssumption, IInv, NEW w \in Writers, WriterStep(w)
  PROVE  IInv'
<1> USE DEF IInv, CountInv, OwnerInv, Goto, Sem_wait, Sem_post, Users, Labels, Section, Held, Writing,
            ReaderWriterAssumption
<1>1. \A r \in Readers : pc'[r] = pc[r]
  BY DEF WriterStep, Turn, Stop, WriterGate, AcquireWrite, Write, WriterUngate, ReleaseWrite
<1>2. Counted' = Counted
  BY <1>1 DEF Counted
<1>3. CASE Turn(w, IF nostarve THEN "gate" ELSE "wlock") \/ Stop(w) \/ WriterGate(w)
  BY <1>2, <1>3 DEF Turn, Stop, WriterGate
<1>4. CASE AcquireWrite(w)
  BY <1>2, <1>4 DEF AcquireWrite
<1>5. CASE Write(w) \/ WriterUngate(w)
  BY <1>2, <1>5 DEF Write, WriterUngate
<1>6. CASE ReleaseWrite(w)
  BY <1>2, <1>6 DEF ReleaseWrite
<1> QED
  BY <1>3, <1>4, <1>5, <1>6 DEF WriterStep

LEMMA NextIInv == ASSUME ReaderWriterAssumption PROVE IInv /\ [Next]_vars => IInv'
<1> SUFFICES ASSUME IInv, [Next]_vars PROVE IInv'
  OBVIOUS
<1>1. CASE Finished \/ UNCHANGED vars
  BY <1>1 DEF Finished, vars, IInv, CountInv, OwnerInv, Counted
<1> QED
  BY <1>1, ReaderStepIInv, WriterStepIInv DEF Next

\* Between acquire and release a writer is alone, in both programs and for any
\* number of readers and writers (reader-writer.c, reader-writer-nostarve.c).
THEOREM ReadersWritersExclude == ASSUME ReaderWriterAssumption PROVE Spec => []Exclusion
<1>1. IInv => Exclusion
  BY DEF IInv, OwnerInv, Exclusion, Held, Writing
<1>2. Init => IInv
  BY InitIInv
<1>3. IInv /\ [Next]_vars => IInv'
  BY NextIInv
<1> QED
  BY <1>1, <1>2, <1>3, PTL DEF Spec
===============================================================================
