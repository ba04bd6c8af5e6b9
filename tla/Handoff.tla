------------------------------- MODULE Handoff -------------------------------
(***************************************************************************)
(* Two programs in which a thread waits for another with a semaphore that  *)
(* starts at 0: fork-join.c, where the parent waits for its child, and     *)
(* rendezvous.c, where two children wait for each other and the parent     *)
(* joins them.  Thread 0 is the parent, 1 and 2 are the children, and s[t] *)
(* is the semaphore that child t posts: s of fork-join.c is s[1], s1 and   *)
(* s2 of rendezvous.c are s[1] and s[2].                                   *)
(***************************************************************************)
EXTENDS Naturals

VARIABLES rendezvous,     \* which of the two programs runs
          s,
          pc

vars == <<rendezvous, s, pc>>

Children == IF rendezvous THEN {1, 2} ELSE {1}
Waiters == IF rendezvous THEN {1, 2} ELSE {0}

\* Sem_init and Pthread_create
Init ==
  /\ rendezvous \in BOOLEAN
  /\ s = [t \in 1..2 |-> 0]
  /\ pc = [t \in 0..2 |-> IF t \in Children THEN "before"
                         ELSE IF t = 0 THEN "wait" ELSE "none"]

Goto(t, from, to) == pc[t] = from /\ pc' = [pc EXCEPT ![t] = to]

\* A child prints what must come first.
Before(t) ==
  /\ t \in Children
  /\ Goto(t, "before", "post")
  /\ UNCHANGED <<rendezvous, s>>

\* Sem_post on its own semaphore; the child of fork-join.c then returns.
Post(t) ==
  /\ t \in Children
  /\ Goto(t, "post", IF rendezvous THEN "wait" ELSE "after")
  /\ s' = [s EXCEPT ![t] = @ + 1]
  /\ UNCHANGED rendezvous

\* The semaphore a thread waits for.
Awaited(t) == IF t = 0 THEN 1 ELSE 3 - t

\* Mutant: the semaphore is taken without waiting.
WaitNot(t) ==
  /\ t \in Waiters
  /\ Goto(t, "wait", "after")
  /\ UNCHANGED <<rendezvous, s>>

\* Sem_wait; "after" or "parent: end" is printed next.
Wait(t) ==
  /\ t \in Waiters
  /\ Goto(t, "wait", "after")
  /\ s[Awaited(t)] > 0
  /\ s' = [s EXCEPT ![Awaited(t)] = @ - 1]
  /\ UNCHANGED rendezvous

\* The parent of rendezvous.c has joined both children.
Join ==
  /\ rendezvous
  /\ \A t \in Children : pc[t] = "after"
  /\ Goto(0, "wait", "after")
  /\ UNCHANGED <<rendezvous, s>>

Step(t) == Before(t) \/ Post(t) \/ Wait(t) \/ (t = 0 /\ Join)

Finished == pc[0] = "after" /\ UNCHANGED vars

Next == (\E t \in 0..2 : Step(t)) \/ Finished

Spec == Init /\ [][Next]_vars

\* Every thread that can run is scheduled.
FairSpec == Spec /\ \A t \in 0..2 : WF_vars(Step(t))

------------------------------------------------------------------------------
(* Properties *)

\* Nobody gets past the wait, the parent included, before every child has printed
\* what comes first and posted.
BeforeThenAfter ==
  (\E t \in 0..2 : pc[t] = "after") => \A t \in Children : pc[t] \in {"wait", "after"}

\* The parent ends.
ParentEnds == <>(pc[0] = "after")
==============================================================================
