--------------------------- MODULE ZemaphoreProofs ---------------------------
(***************************************************************************)
(* Zemaphore is a semaphore for any number of threads, calls and spurious  *)
(* wake-ups.                                                               *)
(***************************************************************************)
EXTENDS Zemaphore, TLAPS

\* The inductive invariant: only the owner of the mutex is inside a call, so a
\* unit seen by the loop test is still there at the decrement.  The conjuncts on
\* pc keep waiters and posters to their own operation.
IInv ==
  /\ TypeOK
  /\ LockProtects
  /\ UnitAvailable
  /\ \A t \in Posters : pc[t] \notin {"test", "asleep", "dec"}
  /\ \A t \in Waiters : pc[t] \notin {"inc", "signal"}

LEMMA InitIInv == Init => IInv
BY ZemAssumption DEF Init, IInv, TypeOK, LockProtects, UnitAvailable, Holding, PCs, Threads

\* Every action of Zem_wait and Zem_post, and a spurious wake-up, keeps IInv.
LEMMA NextIInv == IInv /\ [Next]_vars => IInv'
<1> SUFFICES ASSUME IInv, [Next]_vars PROVE IInv'
  OBVIOUS
<1> USE ZemAssumption
    DEF IInv, TypeOK, LockProtects, UnitAvailable, Holding, PCs, Threads, Goto, Mutex_lock
<1>1. ASSUME NEW t \in Waiters, ZemWaitLock(t) PROVE IInv'
  BY <1>1 DEF ZemWaitLock
<1>2. ASSUME NEW t \in Waiters, ZemWaitSleep(t) PROVE IInv'
  BY <1>2 DEF ZemWaitSleep
<1>3. ASSUME NEW t \in Waiters, ZemWaitGo(t) PROVE IInv'
  BY <1>3 DEF ZemWaitGo
<1>4. ASSUME NEW t \in Waiters, ZemWaitWake(t) PROVE IInv'
  BY <1>4 DEF ZemWaitWake
<1>5. ASSUME NEW t \in Waiters, ZemWaitDec(t) PROVE IInv'
  BY <1>5 DEF ZemWaitDec
<1>6. ASSUME NEW t \in Posters, ZemPostLock(t) PROVE IInv'
  BY <1>6 DEF ZemPostLock
<1>7. ASSUME NEW t \in Posters, ZemPostInc(t) PROVE IInv'
  BY <1>7 DEF ZemPostInc
<1>8. ASSUME NEW t \in Posters, ZemPostSignal(t) PROVE IInv'
  BY <1>8 DEF ZemPostSignal
<1>9. ASSUME NEW t \in Threads, ZemUnlock(t) PROVE IInv'
  BY <1>9 DEF ZemUnlock
<1>10. ASSUME NEW t \in Waiters, SpuriousWakeup(t) PROVE IInv'
  BY <1>10 DEF SpuriousWakeup
<1>11. CASE Finished \/ UNCHANGED vars
  BY <1>11 DEF Finished, vars
<1> QED
  BY <1>1, <1>2, <1>3, <1>4, <1>5, <1>6, <1>7, <1>8, <1>9, <1>10, <1>11
  DEF Next, WaiterStep, PosterStep

\* The invariant holds throughout, for every set of threads.
THEOREM Invariance == Spec => []IInv
BY InitIInv, NextIInv, PTL DEF Spec

\* value is touched by one thread at a time and never becomes negative, whoever
\* is woken and however often: the mutex of zemaphore.h protects it.
THEOREM MutexCorrect == Spec => [](TypeOK /\ LockProtects)
<1>1. IInv => TypeOK /\ LockProtects
  BY DEF IInv
<1> QED
  BY <1>1, Invariance, PTL

\* Every step of zemaphore.h is a step of the semaphore or leaves it alone: the
\* decrement is Wait, the increment is Post, all else is invisible.
LEMMA StepSimulation == IInv /\ [Next]_vars => [Sem!Next]_(Sem!vars)
<1> SUFFICES ASSUME IInv, [Next]_vars PROVE [Sem!Next]_(Sem!vars)
  OBVIOUS
<1> USE ZemAssumption DEF IInv, TypeOK, PCs, Threads, Goto, Mutex_lock
<1>0. UNCHANGED <<value, Returned>> => UNCHANGED Sem!vars
  BY DEF Sem!vars, Returned
<1>1. ASSUME NEW t \in Waiters, ZemWaitDec(t) PROVE Sem!Wait(t)
  <2>1. value > 0 /\ value' = value - 1
    BY <1>1 DEF ZemWaitDec, UnitAvailable
  <2>2. Returned' = [Returned EXCEPT ![t] = Returned[t] + 1]
    <3>1. calls' = calls /\ t \in Threads /\ pc[t] \notin {"signal", "unlock"}
      BY <1>1 DEF ZemWaitDec
    <3>2. \A s \in Threads : pc'[s] = IF s = t THEN "unlock" ELSE pc[s]
      BY <1>1 DEF ZemWaitDec
    <3> QED
      BY <3>1, <3>2 DEF Returned
  <2> QED
    BY <2>1, <2>2 DEF Sem!Wait, Returned
<1>2. ASSUME NEW t \in Posters, ZemPostInc(t) PROVE Sem!Post(t)
  <2>1. value' = value + 1
    BY <1>2 DEF ZemPostInc
  <2>2. Returned' = [Returned EXCEPT ![t] = Returned[t] + 1]
    <3>1. calls' = calls /\ t \in Threads /\ pc[t] \notin {"signal", "unlock"}
      BY <1>2 DEF ZemPostInc
    <3>2. \A s \in Threads : pc'[s] = IF s = t THEN "signal" ELSE pc[s]
      BY <1>2 DEF ZemPostInc
    <3> QED
      BY <3>1, <3>2 DEF Returned
  <2> QED
    BY <2>1, <2>2 DEF Sem!Post, Returned
<1>3. ASSUME NEW t \in Waiters,
             ZemWaitLock(t) \/ ZemWaitSleep(t) \/ ZemWaitGo(t) \/ ZemWaitWake(t)
               \/ SpuriousWakeup(t)
      PROVE  UNCHANGED Sem!vars
  BY <1>0, <1>3 DEF ZemWaitLock, ZemWaitSleep, ZemWaitGo, ZemWaitWake, SpuriousWakeup, Returned
<1>4. ASSUME NEW t \in Posters, ZemPostLock(t) \/ ZemPostSignal(t)
      PROVE  UNCHANGED Sem!vars
  BY <1>0, <1>4 DEF ZemPostLock, ZemPostSignal, Returned
<1>5. ASSUME NEW t \in Threads, ZemUnlock(t)
      PROVE  UNCHANGED Sem!vars
  BY <1>0, <1>5 DEF ZemUnlock, Returned
<1>6. ASSUME Finished \/ UNCHANGED vars
      PROVE  UNCHANGED Sem!vars
  BY <1>0, <1>6 DEF Finished, vars, Returned
<1> QED
  BY <1>1, <1>2, <1>3, <1>4, <1>5, <1>6
  DEF Next, WaiterStep, PosterStep, Sem!Next

\* zemaphore.h implements a counting semaphore.
THEOREM Refinement == Spec => ImplementsSemaphore
<1>1. Init => Sem!Init
  BY ZemAssumption DEF Init, Sem!Init, Returned, Threads
<1> QED
  BY <1>1, Invariance, StepSimulation, PTL DEF Spec, ImplementsSemaphore, Sem!Spec
==============================================================================
