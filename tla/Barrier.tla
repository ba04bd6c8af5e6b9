------------------------------- MODULE Barrier -------------------------------
(***************************************************************************)
(* barrier.c: a barrier for a fixed number of threads made of a counter,   *)
(* a semaphore that protects it and a semaphore that the last thread to    *)
(* arrive opens, and its main program, in which every child prints         *)
(* "before", passes the barrier once and prints "after".                   *)
(***************************************************************************)
EXTENDS Integers, FiniteSets

CONSTANT Threads

ASSUME BarrierAssumption == IsFiniteSet(Threads) /\ Threads # {}

total == Cardinality(Threads)

VARIABLES arrived,     \* b->arrived
          mutex,       \* value of b->mutex
          barrier,     \* value of b->barrier
          last,        \* last[t]: the local variable of t
          posts,       \* posts[t]: the loop index i of t
          pc

vars == <<arrived, mutex, barrier, last, posts, pc>>

\* barrier_init, before the threads are created
Init ==
  /\ arrived = 0
  /\ mutex = 1
  /\ barrier = 0
  /\ last = [t \in Threads |-> FALSE]
  /\ posts = [t \in Threads |-> 0]
  /\ pc = [t \in Threads |-> "before"]

Goto(t, label) == pc' = [pc EXCEPT ![t] = label]

\* child: print "before" and call barrier()
Before(t) ==
  /\ pc[t] = "before"
  /\ Goto(t, "enter")
  /\ UNCHANGED <<arrived, mutex, barrier, last, posts>>

\* Sem_wait(&b->mutex)
WaitMutex(t) ==
  /\ pc[t] = "enter"
  /\ mutex > 0
  /\ mutex' = mutex - 1
  /\ Goto(t, "count")
  /\ UNCHANGED <<arrived, barrier, last, posts>>

\* b->arrived++
Count(t) ==
  /\ pc[t] = "count"
  /\ arrived' = arrived + 1
  /\ Goto(t, "compare")
  /\ UNCHANGED <<mutex, barrier, last, posts>>

\* Mutant: one thread too few is waited for.
CompareEarly(t) ==
  /\ pc[t] = "compare"
  /\ last' = [last EXCEPT ![t] = (arrived = total - 1)]
  /\ Goto(t, "leave")
  /\ UNCHANGED <<arrived, mutex, barrier, posts>>

\* Mutant: the comparison is off by one.
CompareLate(t) ==
  /\ pc[t] = "compare"
  /\ last' = [last EXCEPT ![t] = (arrived > total)]
  /\ Goto(t, "leave")
  /\ UNCHANGED <<arrived, mutex, barrier, posts>>

\* last = (b->arrived == b->total)
Compare(t) ==
  /\ pc[t] = "compare"
  /\ last' = [last EXCEPT ![t] = (arrived = total)]
  /\ Goto(t, "leave")
  /\ UNCHANGED <<arrived, mutex, barrier, posts>>

\* Sem_post(&b->mutex), then if (last)
PostMutex(t) ==
  /\ pc[t] = "leave"
  /\ mutex' = mutex + 1
  /\ Goto(t, IF last[t] THEN "open" ELSE "wait")
  /\ UNCHANGED <<arrived, barrier, last, posts>>

\* Mutant: the loop posts once too often.
OpenTooWide(t) ==
  /\ pc[t] = "open"
  /\ barrier' = barrier + 1
  /\ posts' = [posts EXCEPT ![t] = @ + 1]
  /\ Goto(t, IF posts[t] = total THEN "wait" ELSE "open")
  /\ UNCHANGED <<arrived, mutex, last>>

\* for (i = 0; i < b->total; i++) Sem_post(&b->barrier): one turn
Open(t) ==
  /\ pc[t] = "open"
  /\ barrier' = barrier + 1
  /\ posts' = [posts EXCEPT ![t] = @ + 1]
  /\ Goto(t, IF posts[t] + 1 = total THEN "wait" ELSE "open")
  /\ UNCHANGED <<arrived, mutex, last>>

\* Sem_wait(&b->barrier); the child then prints "after"
Pass(t) ==
  /\ pc[t] = "wait"
  /\ barrier > 0
  /\ barrier' = barrier - 1
  /\ Goto(t, "after")
  /\ UNCHANGED <<arrived, mutex, last, posts>>

Step(t) ==
  \/ Before(t) \/ WaitMutex(t) \/ Count(t) \/ Compare(t) \/ PostMutex(t) \/ Open(t) \/ Pass(t)

AllAfter == \A t \in Threads : pc[t] = "after"

Finished == AllAfter /\ UNCHANGED vars

Next == (\E t \in Threads : Step(t)) \/ Finished

Spec == Init /\ [][Next]_vars

\* Every thread that can run is scheduled.
FairSpec == Spec /\ \A t \in Threads : WF_vars(Step(t))

------------------------------------------------------------------------------
(* Properties *)

TypeOK ==
  /\ arrived \in Nat /\ mutex \in Nat /\ barrier \in Nat
  /\ last \in [Threads -> BOOLEAN]
  /\ posts \in [Threads -> Nat]
  /\ pc \in [Threads -> {"before", "enter", "count", "compare", "leave", "open", "wait",
                         "after"}]

Counted == {t \in Threads : pc[t] \in {"compare", "leave", "open", "wait", "after"}}

\* Every child has printed "before", and even been counted, when the first child
\* gets past the barrier to print "after".
BeforeThenAfter == (\E t \in Threads : pc[t] = "after") => Counted = Threads

\* Exactly one thread opens the barrier, and it posts once for every thread:
\* what is posted is what is left in the semaphore and what has been taken.
OnePostEach ==
  /\ \A t, u \in Threads : last[t] /\ last[u] => t = u
  /\ \A t \in Threads :
       last[t] => posts[t] = barrier + Cardinality({u \in Threads : pc[u] = "after"})
  /\ AllAfter => barrier = 0

\* All children get past the barrier.
EveryonePasses == <>AllAfter
==============================================================================
