------------------------------ MODULE Zemaphore ------------------------------
(***************************************************************************)
(* zemaphore.h: a counting semaphore built from a mutex and a condition    *)
(* variable (on Apple systems it is the sem_t of every other exercise).    *)
(*                                                                         *)
(* Zem_wait and Zem_post are split at the points where another thread can  *)
(* run: taking the mutex, the test of the while loop, the update of value, *)
(* Cond_signal, and dropping the mutex.                                    *)
(***************************************************************************)
EXTENDS Integers, FiniteSets

CONSTANTS Waiters,      \* threads that call Zem_wait (the parent of zemaphore.c)
          Posters,      \* threads that call Zem_post (the child of zemaphore.c)
          InitValue,    \* the value given to Zem_init
          Rounds,       \* calls each thread makes (1 in zemaphore.c)
          MaxSpurious,  \* bound on spurious wake-ups in one behaviour
          NoThread      \* the owner of a free mutex

Threads == Waiters \cup Posters

ASSUME ZemAssumption ==
  /\ InitValue \in Nat
  /\ Rounds \in Nat
  /\ MaxSpurious \in Nat
  /\ Waiters \cap Posters = {}
  /\ NoThread \notin Threads
  /\ IsFiniteSet(Threads)

VARIABLES value,    \* z->value
          lock,     \* owner of z->lock
          cond,     \* threads blocked in pthread_cond_wait on z->cond
          pc,       \* where each thread is in its current call
          calls,    \* calls[t]: completed calls of t
          spurious  \* spurious wake-ups so far

vars == <<value, lock, cond, pc, calls, spurious>>

PCs == {"idle", "test", "asleep", "dec", "inc", "signal", "unlock"}

\* Zem_init: the mutex is free and nobody waits.
Init ==
  /\ value = InitValue
  /\ lock = NoThread
  /\ cond = {}
  /\ pc = [t \in Threads |-> "idle"]
  /\ calls = [t \in Threads |-> 0]
  /\ spurious = 0

Goto(t, label) == pc' = [pc EXCEPT ![t] = label]

\* pthread_mutex_lock: blocks while another thread owns the mutex.
Mutex_lock(t) ==
  /\ lock = NoThread
  /\ lock' = t

------------------------------------------------------------------------------
(* Zem_wait *)

ZemWaitLock(t) ==
  /\ pc[t] = "idle"
  /\ calls[t] < Rounds
  /\ Mutex_lock(t)
  /\ Goto(t, "test")
  /\ UNCHANGED <<value, cond, calls, spurious>>

\* while (z->value <= 0) Cond_wait: sleeping and releasing the mutex is one step.
ZemWaitSleep(t) ==
  /\ pc[t] = "test"
  /\ value <= 0
  /\ lock' = NoThread
  /\ cond' = cond \cup {t}
  /\ Goto(t, "asleep")
  /\ UNCHANGED <<value, calls, spurious>>

\* The loop condition is false: leave the loop.
ZemWaitGo(t) ==
  /\ pc[t] = "test"
  /\ value > 0
  /\ Goto(t, "dec")
  /\ UNCHANGED <<value, lock, cond, calls, spurious>>

\* Mutant: an "if" in place of the while loop, the woken thread does not re-test.
ZemWaitWakeNoRetest(t) ==
  /\ pc[t] = "asleep"
  /\ t \notin cond
  /\ Mutex_lock(t)
  /\ Goto(t, "dec")
  /\ UNCHANGED <<value, cond, calls, spurious>>

\* Mutant: the woken thread goes on without taking the mutex again.
ZemWaitWakeNoLock(t) ==
  /\ pc[t] = "asleep"
  /\ t \notin cond
  /\ Goto(t, "test")
  /\ UNCHANGED <<value, lock, cond, calls, spurious>>

\* A woken thread owns the mutex again before it re-tests the condition.
ZemWaitWake(t) ==
  /\ pc[t] = "asleep"
  /\ t \notin cond
  /\ Mutex_lock(t)
  /\ Goto(t, "test")
  /\ UNCHANGED <<value, cond, calls, spurious>>

ZemWaitDec(t) ==
  /\ pc[t] = "dec"
  /\ value' = value - 1
  /\ Goto(t, "unlock")
  /\ UNCHANGED <<lock, cond, calls, spurious>>

------------------------------------------------------------------------------
(* Zem_post *)

ZemPostLock(t) ==
  /\ pc[t] = "idle"
  /\ calls[t] < Rounds
  /\ Mutex_lock(t)
  /\ Goto(t, "inc")
  /\ UNCHANGED <<value, cond, calls, spurious>>

ZemPostInc(t) ==
  /\ pc[t] = "inc"
  /\ value' = value + 1
  /\ Goto(t, "signal")
  /\ UNCHANGED <<lock, cond, calls, spurious>>

\* Mutant: the post signals only when value has just left zero.
ZemPostSignalFirst(t) ==
  /\ pc[t] = "signal"
  /\ IF value = 1 /\ cond # {} THEN \E w \in cond : cond' = cond \ {w}
                               ELSE UNCHANGED cond
  /\ Goto(t, "unlock")
  /\ UNCHANGED <<value, lock, calls, spurious>>

\* Mutant: value++ without Cond_signal.
ZemPostNoSignal(t) ==
  /\ pc[t] = "signal"
  /\ Goto(t, "unlock")
  /\ UNCHANGED <<value, lock, cond, calls, spurious>>

\* Cond_signal wakes one of the threads blocked on the condition, if there is one.
ZemPostSignal(t) ==
  /\ pc[t] = "signal"
  /\ \/ cond = {} /\ UNCHANGED cond
     \/ \E w \in cond : cond' = cond \ {w}
  /\ Goto(t, "unlock")
  /\ UNCHANGED <<value, lock, calls, spurious>>

------------------------------------------------------------------------------
\* Mutex_unlock and return, the last line of both operations.
ZemUnlock(t) ==
  /\ pc[t] = "unlock"
  /\ lock' = NoThread
  /\ calls' = [calls EXCEPT ![t] = @ + 1]
  /\ Goto(t, "idle")
  /\ UNCHANGED <<value, cond, spurious>>

\* POSIX allows pthread_cond_wait to return without a signal.
SpuriousWakeup(t) ==
  /\ spurious < MaxSpurious
  /\ t \in cond
  /\ cond' = cond \ {t}
  /\ spurious' = spurious + 1
  /\ UNCHANGED <<value, lock, pc, calls>>

WaiterStep(t) ==
  \/ ZemWaitLock(t) \/ ZemWaitSleep(t) \/ ZemWaitGo(t)
  \/ ZemWaitWake(t) \/ ZemWaitDec(t) \/ ZemUnlock(t)

PosterStep(t) ==
  \/ ZemPostLock(t) \/ ZemPostInc(t) \/ ZemPostSignal(t) \/ ZemUnlock(t)

AllReturned == \A t \in Threads : calls[t] = Rounds

\* Every thread has made its calls and the program is over.
Finished == AllReturned /\ UNCHANGED vars

Next ==
  \/ \E t \in Waiters : WaiterStep(t) \/ SpuriousWakeup(t)
  \/ \E t \in Posters : PosterStep(t)
  \/ Finished

Spec == Init /\ [][Next]_vars

\* The scheduler runs every thread that can run.
FairSpec ==
  /\ Spec
  /\ \A t \in Waiters : WF_vars(WaiterStep(t))
  /\ \A t \in Posters : WF_vars(PosterStep(t))

------------------------------------------------------------------------------
(* Properties *)

TypeOK ==
  /\ value \in Nat
  /\ lock \in Threads \cup {NoThread}
  /\ cond \in SUBSET Waiters
  /\ pc \in [Threads -> PCs]
  /\ calls \in [Threads -> Nat]
  /\ spurious \in Nat

\* Where a thread owns z->lock.
Holding == {"test", "dec", "inc", "signal", "unlock"}

\* Exactly the owner of z->lock is between Mutex_lock and Mutex_unlock, a
\* thread that sleeps in Cond_wait or has just been woken included: value is
\* never touched by two threads at once.
LockProtects == \A t \in Threads : pc[t] \in Holding <=> lock = t

\* A thread that left the while loop of Zem_wait still finds a unit to take
\* when it decrements, although others may have run since it was woken.
UnitAvailable == \A t \in Waiters : pc[t] = "dec" => value > 0

\* Threads that will still test value or signal before they next sleep.
Awake ==
  {t \in Waiters : pc[t] \in {"test", "dec"} \/ (pc[t] = "asleep" /\ t \notin cond)}
    \cup {t \in Posters : pc[t] = "signal"}

\* No wake-up is lost: while threads sleep on the condition, every unit of
\* value has a thread under way that takes it or signals a sleeper
\* (Zem_post signals on every post, not only when value leaves zero).
NoLostWakeup == cond # {} => value <= Cardinality(Awake)

\* A call takes effect when it updates value, before it returns.
Returned ==
  [t \in Threads |-> IF pc[t] \in {"signal", "unlock"} THEN calls[t] + 1 ELSE calls[t]]

\* The semaphore implemented.
Sem == INSTANCE Semaphore WITH returned <- Returned

\* Zem_wait and Zem_post are atomic operations of a counting semaphore.
ImplementsSemaphore == Sem!Spec

\* If there are units for all, every Zem_wait returns: the parent of
\* zemaphore.c gets past Zem_wait after the child's Zem_post.
EveryCallReturns == <>AllReturned
==============================================================================
