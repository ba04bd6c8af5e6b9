---------------------------- MODULE BarrierProofs ----------------------------
(***************************************************************************)
(* The barrier of barrier.c holds back every thread until all have         *)
(* arrived, for any number of threads.                                     *)
(***************************************************************************)
EXTENDS Barrier, FiniteSetTheorems, TLAPS

\* Threads inside the section that b->mutex protects.
Inside == {"count", "compare", "leave"}

\* No thread has still to be counted or to compare.
AllPast == \A t \in Threads : pc[t] \in {"leave", "open", "wait", "after"}

\* The inductive invariant.  The counter is the number of threads counted, the
\* mutex keeps threads apart, and last, a unit in the barrier semaphore and a
\* thread past it each imply that all threads are past the comparison.
IInv ==
  /\ TypeOK
  /\ arrived = Cardinality(Counted)
  /\ \A t \in Threads : pc[t] \in Inside => mutex = 0
  /\ \A t, u \in Threads : pc[t] \in Inside /\ pc[u] \in Inside => t = u
  /\ mutex <= 1
  /\ \A t \in Threads : pc[t] = "open" => last[t]
  /\ \A t \in Threads : last[t] => AllPast
  /\ \A t, u \in Threads : last[t] /\ last[u] => t = u
  /\ barrier > 0 => AllPast
  /\ \A t \in Threads : pc[t] = "after" => AllPast

\* The threads counted are finitely many, and all of them when the count is total.
LEMMA CountedFinite ==
  ASSUME TypeOK
  PROVE  /\ IsFiniteSet(Counted)
         /\ Cardinality(Counted) = total => Counted = Threads
BY BarrierAssumption, FS_Subset DEF Counted, total

LEMMA InitIInv == Init => IInv
<1> SUFFICES ASSUME Init PROVE IInv
  OBVIOUS
<1>1. Counted = {}
  BY DEF Init, Counted
<1>2. Cardinality(Counted) = 0
  BY <1>1, FS_EmptySet
<1> QED
  BY <1>2 DEF Init, IInv, TypeOK, Inside

\* Every step of barrier() keeps IInv.
LEMMA NextIInv == IInv /\ [Next]_vars => IInv'
<1> SUFFICES ASSUME IInv, [Next]_vars PROVE IInv'
  OBVIOUS
<1> USE BarrierAssumption DEF IInv, TypeOK, Inside, AllPast, Goto
<1>1. ASSUME NEW t \in Threads, Before(t) PROVE IInv'
  <2>1. Counted' = Counted
    BY <1>1 DEF Before, Counted
  <2> QED
    BY <1>1, <2>1 DEF Before
<1>2. ASSUME NEW t \in Threads, WaitMutex(t) PROVE IInv'
  <2>1. Counted' = Counted
    BY <1>2 DEF WaitMutex, Counted
  <2> QED
    BY <1>2, <2>1 DEF WaitMutex
<1>3. ASSUME NEW t \in Threads, Count(t) PROVE IInv'
  <2>1. Counted' = Counted \cup {t} /\ t \notin Counted
    BY <1>3 DEF Count, Counted
  <2>2. Cardinality(Counted') = Cardinality(Counted) + 1
    BY <2>1, CountedFinite, FS_AddElement
  <2> QED
    BY <1>3, <2>2 DEF Count
<1>4. ASSUME NEW t \in Threads, Compare(t) PROVE IInv'
  <2>1. Counted' = Counted
    BY <1>4 DEF Compare, Counted
  <2>2. arrived = total => AllPast'
    <3>1. arrived = total => Counted = Threads
      BY CountedFinite
    <3> QED
      BY <1>4, <3>1 DEF Compare, Counted
  <2>3. \A u \in Threads : ~last[u]
    BY <1>4 DEF Compare
  <2> QED
    BY <1>4, <2>1, <2>2, <2>3 DEF Compare
<1>5. ASSUME NEW t \in Threads, PostMutex(t) PROVE IInv'
  <2>1. Counted' = Counted
    BY <1>5 DEF PostMutex, Counted
  <2> QED
    BY <1>5, <2>1 DEF PostMutex
<1>6. ASSUME NEW t \in Threads, Open(t) PROVE IInv'
  <2>1. Counted' = Counted
    BY <1>6 DEF Open, Counted
  <2> QED
    BY <1>6, <2>1 DEF Open
<1>7. ASSUME NEW t \in Threads, Pass(t) PROVE IInv'
  <2>1. Counted' = Counted
    BY <1>7 DEF Pass, Counted
  <2> QED
    BY <1>7, <2>1 DEF Pass
<1>8. CASE Finished \/ UNCHANGED vars
  <2>1. Counted' = Counted
    BY <1>8 DEF Finished, vars, Counted
  <2> QED
    BY <1>8, <2>1 DEF Finished, vars
<1> QED
  BY <1>1, <1>2, <1>3, <1>4, <1>5, <1>6, <1>7, <1>8 DEF Next, Step

\* The invariant holds throughout, for every set of threads.
THEOREM Invariance == Spec => []IInv
BY InitIInv, NextIInv, PTL DEF Spec

\* Nobody prints "after" before everybody has printed "before" (barrier.c:8-9).
THEOREM BarrierCorrect == Spec => []BeforeThenAfter
<1>1. IInv => BeforeThenAfter
  BY DEF IInv, AllPast, BeforeThenAfter, Counted
<1> QED
  BY <1>1, Invariance, PTL
==============================================================================
