---------------------------- MODULE VectorsProofs ----------------------------
(***************************************************************************)
(* No schedule of the vector programs of concurrency-bugs deadlocks, other *)
(* than vector-deadlock.c with -d, for any number of threads and loops.    *)
(***************************************************************************)
EXTENDS Vectors, TLAPS

Locks == Slots \cup {Global}
Adding == {"load", "sum", "store"}

OptionsOK == scheme \in Schemes /\ cause_deadlock \in BOOLEAN /\ enable_parallelism \in BOOLEAN

Labels ==
  {"lock", "ungate", "load", "sum", "store", "unlock", "retry", "backoff", "xadd", "done"}

\* How many locks a thread holds, from where it is.
HeldOK(t) ==
  /\ held[t] \in Nat
  /\ pc[t] \in Labels
  /\ pc[t] \in {"lock", "unlock", "sum", "store"} => scheme # "nolock"
  /\ pc[t] = "lock" => held[t] < Len(Acquires(t))
  /\ pc[t] = "ungate" => held[t] = 3 /\ scheme = "hold"
  /\ pc[t] \in Adding /\ scheme = "nolock" => held[t] = 0
  /\ pc[t] \in Adding /\ scheme # "nolock" => held[t] = 2
  /\ pc[t] = "unlock" => held[t] \in {1, 2}
  /\ pc[t] \in {"retry", "backoff"} => held[t] = 1 /\ scheme = "try"
  /\ pc[t] = "xadd" => held[t] = 0 /\ scheme = "nolock"
  /\ pc[t] = "done" => held[t] = 0

\* Which locks these are.
Owns(t, l) ==
  \/ pc[t] = "lock" /\ \E k \in 1..held[t] : l = Acquires(t)[k]
  \/ pc[t] = "ungate" /\ l \in {Global, dst(t), src(t)}
  \/ pc[t] \in Adding /\ scheme # "nolock" /\ l \in {dst(t), src(t)}
  \/ pc[t] = "unlock" /\ held[t] = 2 /\ l \in {dst(t), src(t)}
  \/ pc[t] = "unlock" /\ held[t] = 1 /\ l = Releases(t)[2]
  \/ pc[t] \in {"retry", "backoff"} /\ l = dst(t)

OwnOK(t) == \A l \in Locks : owner[l] = t <=> Owns(t, l)

IInv ==
  /\ OptionsOK
  /\ owner \in [Locks -> Workers \cup {Nobody}]
  /\ pc = [t \in Workers |-> pc[t]] /\ held = [t \in Workers |-> held[t]]
  /\ \A t \in Workers : HeldOK(t) /\ OwnOK(t)

\* The vectors of a thread are two, in the array, one behind the other.
LEMMA VectorFacts ==
  ASSUME VectorsAssumption, OptionsOK, NEW t \in Workers
  PROVE  /\ dst(t) \in Slots /\ src(t) \in Slots /\ dst(t) # src(t)
         /\ dst(t) # Global /\ src(t) # Global
         /\ vector_0(t) = (IF enable_parallelism THEN 2 * t ELSE 0)
         /\ \/ dst(t) = vector_0(t) /\ src(t) = vector_0(t) + 1
            \/ cause_deadlock /\ dst(t) = vector_0(t) + 1 /\ src(t) = vector_0(t)
<1>1. t \in Nat /\ t < num_threads /\ num_threads \in Nat
  BY DEF VectorsAssumption, Workers
<1>2. vector_0(t) \in Nat /\ vector_0(t) <= 2 * num_threads
  BY <1>1 DEF vector_0, OptionsOK
<1>3. \/ dst(t) = vector_0(t) /\ src(t) = vector_0(t) + 1
      \/ cause_deadlock /\ dst(t) = vector_0(t) + 1 /\ src(t) = vector_0(t)
  BY DEF dst, src, vector_1, vector_add_order
<1>4. vector_0(t) = (IF enable_parallelism THEN 2 * t ELSE 0)
  BY DEF vector_0
<1> QED
  BY <1>1, <1>2, <1>3, <1>4 DEF Slots, Global

\* The locks of each scheme, in the order in which they are taken and dropped.
LEMMA LockFacts ==
  ASSUME VectorsAssumption, OptionsOK, NEW t \in Workers
  PROVE  /\ scheme \in {"deadlock", "try"} =>
              Len(Acquires(t)) = 2 /\ Acquires(t)[1] = dst(t) /\ Acquires(t)[2] = src(t)
         /\ scheme = "order" =>
              /\ Len(Acquires(t)) = 2 /\ Acquires(t)[1] = vector_0(t)
              /\ Acquires(t)[2] = vector_0(t) + 1
         /\ scheme = "hold" =>
              /\ Len(Acquires(t)) = 3 /\ Acquires(t)[1] = Global
              /\ Acquires(t)[2] = dst(t) /\ Acquires(t)[3] = src(t)
         /\ Len(Releases(t)) = 2
         /\ \/ Releases(t)[1] = dst(t) /\ Releases(t)[2] = src(t)
            \/ Releases(t)[1] = src(t) /\ Releases(t)[2] = dst(t)
<1>0. dst(t) \in Int /\ src(t) \in Int /\ vector_0(t) \in Int
  BY VectorFacts DEF Slots, VectorsAssumption, OptionsOK, Workers
<1>1. CASE scheme \in {"deadlock", "try"}
  BY <1>0, <1>1, VectorFacts DEF Acquires, Releases
<1>2. CASE scheme = "order"
  BY <1>0, <1>2, VectorFacts DEF Acquires, Releases
<1>3. CASE scheme = "hold"
  BY <1>0, <1>3, VectorFacts DEF Acquires, Releases
<1>4. CASE scheme = "nolock"
  BY <1>0, <1>4, VectorFacts DEF Releases
<1> QED
  BY <1>1, <1>2, <1>3, <1>4 DEF OptionsOK, Schemes

LEMMA InitIInv == ASSUME VectorsAssumption PROVE Init => IInv
<1> SUFFICES ASSUME Init PROVE IInv
  OBVIOUS
<1>1. OptionsOK
  BY DEF Init, OptionsOK
<1>2. owner \in [Locks -> Workers \cup {Nobody}]
  BY DEF Init, Locks
<1>3. \A l \in Locks : owner[l] \notin Workers
  BY DEF Init, Locks, Nobody, Workers
<1>4. ASSUME NEW t \in Workers PROVE HeldOK(t) /\ OwnOK(t)
  <2>1. held[t] = 0 /\ pc[t] = IF scheme = "nolock" THEN "load" ELSE "lock"
    BY DEF Init, Top
  <2>2. scheme # "nolock" => 0 < Len(Acquires(t))
    BY <1>1, LockFacts DEF OptionsOK, Schemes
  <2>3. \A l : ~Owns(t, l)
    BY <2>1 DEF Owns, Adding
  <2> QED
    BY <1>3, <2>1, <2>2, <2>3 DEF HeldOK, OwnOK, Adding, Labels
<1>5. pc = [t \in Workers |-> pc[t]] /\ held = [t \in Workers |-> held[t]]
  BY DEF Init
<1> QED
  BY <1>1, <1>2, <1>4, <1>5 DEF IInv

\* The options are never written, so a thread's locks stay the same.
LEMMA SameLocks ==
  ASSUME UNCHANGED options, NEW t
  PROVE  /\ scheme' = scheme /\ OptionsOK' = OptionsOK
         /\ Acquires(t)' = Acquires(t) /\ Releases(t)' = Releases(t)
         /\ dst(t)' = dst(t) /\ src(t)' = src(t)
BY DEF options, OptionsOK, Acquires, Releases, dst, src, vector_0, vector_1, vector_add_order

\* A step of t that takes no lock from another thread, and leaves t as the
\* invariant says, leaves the others so.
LEMMA OthersKeep ==
  ASSUME IInv, UNCHANGED options, NEW t \in Workers,
         pc' = [pc EXCEPT ![t] = pc'[t]], held' = [held EXCEPT ![t] = held'[t]],
         owner' \in [Locks -> Workers \cup {Nobody}],
         \A l \in Locks : owner'[l] = owner[l] \/ {owner[l], owner'[l]} = {t, Nobody},
         HeldOK(t)', OwnOK(t)'
  PROVE  IInv'
<1>1. ASSUME NEW u \in Workers, u # t PROVE HeldOK(u)' /\ OwnOK(u)'
  <2>1. pc'[u] = pc[u] /\ held'[u] = held[u]
    BY <1>1 DEF IInv
  <2>2. \A l \in Locks : owner'[l] = u <=> owner[l] = u
    BY <1>1 DEF Nobody, Workers
  <2>3. HeldOK(u)'
    BY <2>1, SameLocks DEF IInv, HeldOK
  <2>4. \A l : Owns(u, l)' <=> Owns(u, l)
    BY <2>1, SameLocks DEF Owns
  <2>5. OwnOK(u)'
    BY <2>2, <2>4 DEF IInv, OwnOK
  <2> QED
    BY <2>3, <2>5
<1>2. OptionsOK'
  BY SameLocks DEF IInv
<1>3. pc' = [u \in Workers |-> pc'[u]] /\ held' = [u \in Workers |-> held'[u]]
  BY DEF IInv
<1> QED
  BY <1>1, <1>2, <1>3 DEF IInv

\* A step of t that takes a free lock.
LEMMA Take ==
  ASSUME IInv, UNCHANGED options, NEW t \in Workers, NEW m \in Locks,
         pc' = [pc EXCEPT ![t] = pc'[t]], held' = [held EXCEPT ![t] = held'[t]],
         owner[m] = Nobody, owner' = [owner EXCEPT ![m] = t],
         HeldOK(t)', \A l \in Locks : Owns(t, l)' <=> (Owns(t, l) \/ l = m)
  PROVE  IInv'
<1>1. owner' \in [Locks -> Workers \cup {Nobody}]
  BY DEF IInv
<1>2. \A l \in Locks : owner'[l] = IF l = m THEN t ELSE owner[l]
  BY DEF IInv
<1>3. OwnOK(t)'
  BY <1>2 DEF IInv, OwnOK
<1> QED
  BY <1>1, <1>2, <1>3, OthersKeep

\* A step of t that drops a lock it owns.
LEMMA Drop ==
  ASSUME IInv, UNCHANGED options, NEW t \in Workers, NEW m \in Locks, Owns(t, m),
         pc' = [pc EXCEPT ![t] = pc'[t]], held' = [held EXCEPT ![t] = held'[t]],
         owner' = [owner EXCEPT ![m] = Nobody],
         HeldOK(t)', \A l \in Locks : Owns(t, l)' <=> (Owns(t, l) /\ l # m)
  PROVE  IInv'
<1>1. owner' \in [Locks -> Workers \cup {Nobody}]
  BY DEF IInv
<1>2. \A l \in Locks : owner'[l] = IF l = m THEN Nobody ELSE owner[l]
  BY DEF IInv
<1>3. owner[m] = t /\ t # Nobody
  BY DEF IInv, OwnOK, Nobody, Workers
<1>4. OwnOK(t)'
  BY <1>2, <1>3 DEF IInv, OwnOK
<1> QED
  BY <1>1, <1>2, <1>3, <1>4, OthersKeep

\* Lock takes the next of the locks of t.
LEMMA LockIInv ==
  ASSUME VectorsAssumption, IInv, NEW t \in Workers, Lock(t)
  PROVE  IInv'
<1> DEFINE n == held[t] + 1
<1>0. OptionsOK /\ HeldOK(t) /\ held[t] \in Nat
  BY DEF IInv, HeldOK
<1>1. scheme # "nolock" /\ n <= Len(Acquires(t)) /\ Wanted(t) = Acquires(t)[n]
  BY <1>0, LockFacts DEF HeldOK, Lock, Wanted, OptionsOK, Schemes
<1>2. Len(Acquires(t)) = (IF scheme = "hold" THEN 3 ELSE 2)
  BY <1>0, <1>1, LockFacts DEF OptionsOK, Schemes
<1>3. Wanted(t) \in Locks
  BY <1>0, <1>1, <1>2, LockFacts, VectorFacts DEF Locks, OptionsOK, Schemes
<1>4. UNCHANGED options /\ held'[t] = n
      /\ pc' = [pc EXCEPT ![t] = pc'[t]] /\ held' = [held EXCEPT ![t] = held'[t]]
  BY DEF Lock, Goto, IInv
<1>5. pc'[t] = IF n < Len(Acquires(t)) THEN "lock" ELSE IF scheme = "hold" THEN "ungate" ELSE "load"
  BY DEF Lock, Goto, IInv
<1>5a. scheme' = scheme /\ Acquires(t)' = Acquires(t)
  BY <1>4, SameLocks
<1>6. HeldOK(t)'
  <2>1. n \in Nat /\ (n < Len(Acquires(t)) \/ n = Len(Acquires(t)))
    BY <1>0, <1>1, <1>2
  <2> HIDE DEF n
  <2>2. CASE n < Len(Acquires(t))
    BY <1>1, <1>4, <1>5, <1>5a, <2>1, <2>2 DEF HeldOK, Labels, Adding
  <2>3. CASE n = Len(Acquires(t)) /\ scheme = "hold"
    BY <1>2, <1>4, <1>5, <1>5a, <2>3 DEF HeldOK, Labels, Adding
  <2>4. CASE n = Len(Acquires(t)) /\ scheme # "hold"
    BY <1>1, <1>2, <1>4, <1>5, <1>5a, <2>4 DEF HeldOK, Labels, Adding
  <2> QED
    BY <2>1, <2>2, <2>3, <2>4
<1>7. \A l \in Locks : (\E k \in 1..n : l = Acquires(t)[k]) <=> (Owns(t, l) \/ l = Wanted(t))
  BY <1>0, <1>1 DEF Owns, Lock, Adding
<1>8. ASSUME NEW l \in Locks PROVE Owns(t, l)' <=> \E k \in 1..n : l = Acquires(t)[k]
  <2>1. CASE n < Len(Acquires(t))
    BY <1>4, <1>5, <2>1, SameLocks DEF Owns, Adding
  <2>2. CASE n = Len(Acquires(t)) /\ scheme = "hold"
    <3>1. Owns(t, l)' <=> l \in {Global, dst(t), src(t)}
      BY <1>4, <1>5, <2>2, SameLocks DEF Owns, Adding
    <3>2. n = 3 /\ Acquires(t)[1] = Global /\ Acquires(t)[2] = dst(t) /\ Acquires(t)[3] = src(t)
      BY <1>0, <2>2, LockFacts
    <3> QED
      BY <3>1, <3>2
  <2>3. CASE n = Len(Acquires(t)) /\ scheme # "hold"
    <3>1. Owns(t, l)' <=> l \in {dst(t), src(t)}
      BY <1>1, <1>4, <1>5, <2>3, SameLocks DEF Owns, Adding
    <3>2. n = 2 /\ {Acquires(t)[1], Acquires(t)[2]} = {dst(t), src(t)}
      BY <1>0, <1>1, <1>2, <2>3, LockFacts, VectorFacts DEF OptionsOK, Schemes
    <3> QED
      BY <3>1, <3>2
  <2> QED
    BY <1>0, <1>1, <1>2, <2>1, <2>2, <2>3
<1> QED
  BY <1>3, <1>4, <1>6, <1>7, <1>8, Take DEF Lock

\* Ungate drops the global lock.
LEMMA UngateIInv ==
  ASSUME VectorsAssumption, IInv, NEW t \in Workers, Ungate(t)
  PROVE  IInv'
<1>1. pc[t] = "ungate" /\ held[t] = 3 /\ scheme = "hold" /\ OptionsOK
  BY DEF Ungate, IInv, HeldOK
<1>2. UNCHANGED options /\ pc'[t] = "load" /\ held'[t] = 2
      /\ pc' = [pc EXCEPT ![t] = pc'[t]] /\ held' = [held EXCEPT ![t] = held'[t]]
  BY <1>1 DEF Ungate, Goto, IInv
<1>2a. scheme' = scheme
  BY <1>2, SameLocks
<1>3. HeldOK(t)'
  BY <1>1, <1>2, <1>2a DEF HeldOK, Labels, Adding
<1>4. Owns(t, Global) /\ \A l \in Locks : Owns(t, l)' <=> (Owns(t, l) /\ l # Global)
  BY <1>1, <1>2, SameLocks, VectorFacts DEF Owns, Adding
<1>5. Global \in Locks
  BY DEF Locks
<1> QED
  BY <1>2, <1>3, <1>4, <1>5, Drop DEF Ungate

\* BackOff drops the first lock, which is all that t has.
LEMMA BackOffIInv ==
  ASSUME VectorsAssumption, IInv, NEW t \in Workers, BackOff(t)
  PROVE  IInv'
<1>1. pc[t] = "backoff" /\ scheme = "try" /\ OptionsOK
  BY DEF BackOff, IInv, HeldOK
<1>2. UNCHANGED options /\ pc'[t] = "lock" /\ held'[t] = 0
      /\ pc' = [pc EXCEPT ![t] = pc'[t]] /\ held' = [held EXCEPT ![t] = held'[t]]
  BY <1>1 DEF BackOff, Goto, IInv
<1>2a. scheme' = scheme /\ Acquires(t)' = Acquires(t)
  BY <1>2, SameLocks
<1>2b. Len(Acquires(t)) = 2
  BY <1>1, LockFacts
<1>3. HeldOK(t)'
  BY <1>1, <1>2, <1>2a, <1>2b DEF HeldOK, Labels, Adding
<1>4. Owns(t, dst(t)) /\ \A l \in Locks : Owns(t, l)' <=> (Owns(t, l) /\ l # dst(t))
  BY <1>1, <1>2, SameLocks DEF Owns, Adding
<1>5. dst(t) \in Locks
  BY <1>1, VectorFacts DEF Locks
<1> QED
  BY <1>2, <1>3, <1>4, <1>5, Drop DEF BackOff

\* Unlock drops the locks in the order of Releases.
LEMMA UnlockIInv ==
  ASSUME VectorsAssumption, IInv, NEW t \in Workers, Unlock(t)
  PROVE  IInv'
<1>1. pc[t] = "unlock" /\ held[t] \in {1, 2} /\ scheme # "nolock" /\ OptionsOK
  BY DEF Unlock, IInv, HeldOK
<1>2. UNCHANGED options /\ held'[t] = held[t] - 1
      /\ pc'[t] = (IF held[t] = 1 THEN IF turns[t] + 1 = loops THEN "done" ELSE "lock" ELSE "unlock")
      /\ pc' = [pc EXCEPT ![t] = pc'[t]] /\ held' = [held EXCEPT ![t] = held'[t]]
  BY <1>1 DEF Unlock, EndTurn, Goto, Top, IInv
<1>3. HeldOK(t)'
  BY <1>1, <1>2, SameLocks, LockFacts DEF HeldOK, Labels, Adding, OptionsOK, Schemes
<1>3a. Releases(t)' = Releases(t) /\ dst(t)' = dst(t) /\ src(t)' = src(t) /\ scheme' = scheme
  BY <1>2, SameLocks
<1> DEFINE m == Releases(t)[Len(Releases(t)) - held[t] + 1]
<1>4. /\ held[t] = 2 => m = Releases(t)[1]
      /\ held[t] = 1 => m = Releases(t)[2]
  <2>1. Len(Releases(t)) = 2
    BY <1>1, LockFacts
  <2> QED
    BY <2>1
<1>5. m \in Locks
  BY <1>1, <1>4, LockFacts, VectorFacts DEF Locks
<1>6. Owns(t, m) /\ \A l \in Locks : Owns(t, l)' <=> (Owns(t, l) /\ l # m)
  <2>1. CASE held[t] = 2
    <3>1. /\ dst(t) # src(t)
          /\ \/ m = dst(t) /\ Releases(t)[2] = src(t)
             \/ m = src(t) /\ Releases(t)[2] = dst(t)
      BY <1>1, <1>4, <2>1, LockFacts, VectorFacts
    <3>2. pc'[t] = "unlock" /\ held'[t] = 1
      BY <1>2, <2>1
    <3> HIDE DEF m
    <3> QED
      BY <1>1, <1>3a, <2>1, <3>1, <3>2 DEF Owns, Adding
  <2>2. CASE held[t] = 1
    BY <1>1, <1>2, <1>3a, <1>4, <2>2 DEF Owns, Adding
  <2> QED
    BY <1>1, <2>1, <2>2
<1> QED
  BY <1>2, <1>3, <1>5, <1>6, Drop DEF Unlock

\* The other steps neither take nor drop a lock.
LEMMA SameOwnerIInv ==
  ASSUME VectorsAssumption, IInv, NEW t \in Workers,
         TryFails(t) \/ Retry(t) \/ Load(t) \/ Sum(t) \/ Store(t) \/ fetch_and_add(t)
  PROVE  IInv'
<1>1. UNCHANGED <<options, owner, held>> /\ pc' = [pc EXCEPT ![t] = pc'[t]]
  BY DEF TryFails, Retry, Load, Sum, Store, fetch_and_add, EndTurn, Goto, IInv
<1>2. HeldOK(t) /\ OwnOK(t) /\ OptionsOK
  BY DEF IInv
<1>2a. /\ scheme' = scheme /\ Acquires(t)' = Acquires(t) /\ Releases(t)' = Releases(t)
       /\ dst(t)' = dst(t) /\ src(t)' = src(t) /\ held'[t] = held[t]
  BY <1>1, SameLocks
<1>3. HeldOK(t)' /\ \A l : Owns(t, l)' <=> Owns(t, l)
  <2>1. CASE TryFails(t)
    <3>1. pc[t] = "lock" /\ held[t] = 1 /\ scheme = "try" /\ pc'[t] = "retry"
      BY <2>1 DEF TryFails, Goto, IInv
    <3>2. Acquires(t)[1] = dst(t)
      BY <1>2, <3>1, LockFacts
    <3> QED
      BY <1>2, <1>2a, <3>1, <3>2 DEF HeldOK, Owns, Labels, Adding
  <2>2. CASE Retry(t)
    <3>1. pc[t] = "retry" /\ pc'[t] = "backoff"
      BY <2>2 DEF Retry, Goto, IInv
    <3> QED
      BY <1>2, <1>2a, <3>1 DEF HeldOK, Owns, Labels, Adding
  <2>3. CASE Load(t)
    <3>1. pc[t] = "load" /\ pc'[t] = IF scheme = "nolock" THEN "xadd" ELSE "sum"
      BY <2>3 DEF Load, Goto, IInv
    <3> QED
      BY <1>2, <1>2a, <3>1 DEF HeldOK, Owns, Labels, Adding
  <2>4. CASE Sum(t)
    <3>1. pc[t] = "sum" /\ pc'[t] = "store"
      BY <2>4 DEF Sum, Goto, IInv
    <3> QED
      BY <1>2, <1>2a, <3>1 DEF HeldOK, Owns, Labels, Adding
  <2>5. CASE Store(t)
    <3>1. pc[t] = "store" /\ pc'[t] = "unlock"
      BY <2>5 DEF Store, Goto, IInv
    <3> QED
      BY <1>2, <1>2a, <3>1 DEF HeldOK, Owns, Labels, Adding
  <2>6. CASE fetch_and_add(t)
    <3>1. pc[t] = "xadd" /\ pc'[t] \in {"done", Top}
      BY <2>6 DEF fetch_and_add, EndTurn, Goto, IInv
    <3>2. scheme = "nolock"
      BY <1>2, <3>1 DEF HeldOK
    <3> QED
      BY <1>2, <1>2a, <3>1, <3>2 DEF HeldOK, Owns, Labels, Adding, Top
  <2> QED
    BY <2>1, <2>2, <2>3, <2>4, <2>5, <2>6
<1>4. OwnOK(t)'
  BY <1>1, <1>2, <1>3 DEF OwnOK
<1>5. held' = [held EXCEPT ![t] = held'[t]]
  BY <1>1 DEF IInv
<1> QED
  BY <1>1, <1>3, <1>4, <1>5, OthersKeep DEF IInv

LEMMA NextIInv == ASSUME VectorsAssumption PROVE IInv /\ [Next]_vars => IInv'
<1> SUFFICES ASSUME IInv, [Next]_vars PROVE IInv'
  OBVIOUS
<1>1. CASE Stopped \/ UNCHANGED vars
  <2>1. UNCHANGED <<options, owner, held, pc>>
    BY <1>1 DEF Stopped, vars
  <2>2. ASSUME NEW t \in Workers PROVE HeldOK(t)' /\ OwnOK(t)'
    <3>1. /\ scheme' = scheme /\ Acquires(t)' = Acquires(t) /\ Releases(t)' = Releases(t)
          /\ dst(t)' = dst(t) /\ src(t)' = src(t)
      BY <2>1, SameLocks
    <3>2. HeldOK(t)'
      BY <2>1, <3>1 DEF IInv, HeldOK
    <3>3. OwnOK(t)'
      BY <2>1, <3>1 DEF IInv, OwnOK, Owns
    <3> QED
      BY <3>2, <3>3
  <2> QED
    BY <2>1, <2>2, SameLocks DEF IInv
<1> QED
  BY <1>1, LockIInv, UngateIInv, BackOffIInv, UnlockIInv, SameOwnerIInv DEF Next, Step

\* In a circle everybody waits, so every lock of it is owned by a thread that waits
\* with it: what is known of such a thread rules the circle out, scheme by scheme.
LEMMA NoCircle ==
  ASSUME VectorsAssumption, IInv, NEW S \in SUBSET Workers, S # {},
         \A t \in S : Waits(t) /\ owner[Wanted(t)] \in S,
         scheme # "deadlock" \/ ~Opposed
  PROVE  FALSE
<1>0. OptionsOK
  BY DEF IInv
<1>1. ASSUME NEW u \in S
      PROVE  /\ Wanted(u) = Acquires(u)[held[u] + 1]
             /\ held[u] \in Nat /\ held[u] < Len(Acquires(u)) /\ pc[u] = "lock"
             /\ scheme # "nolock" /\ (scheme = "try" => held[u] # 1)
  BY <1>1 DEF Waits, Wanted, IInv, HeldOK
<1>2. \A u \in S : Wanted(u) \in Locks
  <2> SUFFICES ASSUME NEW u \in S PROVE Wanted(u) \in Locks
    OBVIOUS
  <2>1. Len(Acquires(u)) = (IF scheme = "hold" THEN 3 ELSE 2)
    BY <1>0, <1>1, LockFacts DEF OptionsOK, Schemes
  <2>2. held[u] \in 0..2
    BY <1>1, <2>1
  <2> QED
    BY <1>0, <1>1, <2>1, <2>2, LockFacts, VectorFacts DEF Locks, OptionsOK, Schemes
\* A thread of the circle has a lock, and another one waits for one of its locks.
<1>3. ASSUME NEW u \in S
      PROVE  \E w \in S : \E k \in 1..held[w] : Wanted(u) = Acquires(w)[k]
  <2> DEFINE w == owner[Wanted(u)]
  <2>1. w \in S /\ w \in Workers /\ Wanted(u) \in Locks /\ pc[w] = "lock"
    BY <1>1, <1>2
  <2>2. Owns(w, Wanted(u))
    BY <2>1 DEF IInv, OwnOK
  <2> QED
    BY <2>1, <2>2 DEF Owns, Adding
<1>4. PICK u \in S : held[u] > 0
  <2>1. PICK t \in S : TRUE
    OBVIOUS
  <2>2. PICK w \in S : \E k \in 1..held[w] : Wanted(t) = Acquires(w)[k]
    BY <1>3
  <2>3. held[w] \in Nat /\ 1..held[w] # {}
    BY <1>1, <2>2
  <2> QED
    BY <2>3
<1>5. PICK w \in S : \E k \in 1..held[w] : Wanted(u) = Acquires(w)[k]
  BY <1>3
<1>6. u \in Workers /\ w \in Workers /\ held[w] > 0
  BY <1>1, <1>5
<1>7. CASE scheme = "try"
  BY <1>0, <1>1, <1>4, <1>6, <1>7, LockFacts
<1>8. CASE scheme \in {"deadlock", "order"}
  <2>1. Wanted(u) = Acquires(u)[2] /\ Wanted(u) = Acquires(w)[1]
    <3>1. Len(Acquires(u)) = 2 /\ Len(Acquires(w)) = 2
      BY <1>0, <1>6, <1>8, LockFacts
    <3>2. held[u] = 1 /\ held[w] = 1
      BY <1>1, <1>4, <1>6, <3>1
    <3> QED
      BY <1>1, <1>5, <3>2
  <2>2. u \in Int /\ w \in Int
    BY <1>6 DEF Workers
  \* The second lock of a thread has an odd number, the first an even one.
  <2>3. CASE scheme = "order" \/ ~cause_deadlock
    <3>1. Acquires(u)[2] = vector_0(u) + 1 /\ Acquires(w)[1] = vector_0(w)
      BY <1>0, <1>6, <1>8, <2>3, LockFacts, VectorFacts
    <3>2. /\ vector_0(u) = (IF enable_parallelism THEN 2 * u ELSE 0)
          /\ vector_0(w) = (IF enable_parallelism THEN 2 * w ELSE 0)
      BY <1>0, <1>6, VectorFacts
    <3>3. 2 * u + 1 # 2 * w /\ 0 + 1 # 0
      BY <2>2
    <3>4. vector_0(u) + 1 # vector_0(w)
      BY <1>0, <3>2, <3>3 DEF OptionsOK
    <3> QED
      BY <2>1, <3>1, <3>4
  \* Every thread has vectors of its own.
  <2>4. CASE scheme = "deadlock" /\ enable_parallelism
    <3>1. Acquires(u)[2] = src(u) /\ Acquires(w)[1] = dst(w) /\ dst(u) # src(u)
      BY <1>0, <1>6, <2>4, LockFacts, VectorFacts
    <3>2. src(u) \in {2 * u, 2 * u + 1} /\ dst(w) \in {2 * w, 2 * w + 1}
      BY <1>0, <1>6, <2>4, VectorFacts
    <3>3. u # w => {2 * u, 2 * u + 1} \cap {2 * w, 2 * w + 1} = {}
      BY <2>2
    <3>4. u = w
      BY <2>1, <3>1, <3>2, <3>3
    <3> QED
      BY <2>1, <3>1, <3>4
  <2> QED
    BY <1>8, <2>3, <2>4 DEF Opposed
<1>9. CASE scheme = "hold"
  <2>1. ASSUME NEW x \in S, held[x] > 0 PROVE owner[Global] = x
    <3>1. x \in Workers /\ pc[x] = "lock" /\ Acquires(x)[1] = Global /\ 1 \in 1..held[x]
      BY <1>0, <1>1, <1>9, <2>1, LockFacts
    <3>2. Owns(x, Global)
      BY <3>1 DEF Owns
    <3> QED
      BY <3>1, <3>2 DEF IInv, OwnOK, Locks
  <2>2. u = w
    BY <1>4, <1>6, <2>1
  <2>3. PICK k \in 1..held[u] : Acquires(u)[held[u] + 1] = Acquires(u)[k]
    BY <1>1, <1>5, <2>2
  <2>4. /\ Len(Acquires(u)) = 3 /\ Acquires(u)[1] # Acquires(u)[2]
        /\ Acquires(u)[1] # Acquires(u)[3] /\ Acquires(u)[2] # Acquires(u)[3]
    BY <1>0, <1>6, <1>9, LockFacts, VectorFacts
  <2>5. held[u] \in {1, 2}
    BY <1>1, <1>4, <2>4
  <2> QED
    BY <2>3, <2>4, <2>5
<1> QED
  BY <1>0, <1>1, <1>4, <1>7, <1>8, <1>9 DEF OptionsOK, Schemes

\* No circle of waiting threads ever forms in the vector programs, for any number of
\* threads, except in vector-deadlock.c when run with -d and without -p.
THEOREM VectorsNeverDeadlock == ASSUME VectorsAssumption PROVE Spec => []NoDeadlock
<1>1. IInv => NoDeadlock
  <2> SUFFICES ASSUME IInv, Deadlock, ~(scheme = "deadlock" /\ Opposed) PROVE FALSE
    BY DEF NoDeadlock
  <2>1. PICK S \in (SUBSET Workers) \ {{}} : \A t \in S : Waits(t) /\ owner[Wanted(t)] \in S
    BY DEF Deadlock
  <2> QED
    BY <2>1, NoCircle
<1>2. Init => IInv
  BY InitIInv
<1>3. IInv /\ [Next]_vars => IInv'
  BY NextIInv
<1> QED
  BY <1>1, <1>2, <1>3, PTL DEF Spec
==============================================================================
