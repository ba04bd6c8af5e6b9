------------------------------ MODULE TokioProofs ------------------------------
(***************************************************************************)
(* The map and the order of the cache of tokio-file-server agree under     *)
(* every interleaving of the tasks, for every choice of the constants.     *)
(***************************************************************************)
EXTENDS TokioFileServer, FiniteSetTheorems, TLAPS

SmallFiles == Files \ LargeFiles

\* A cache whose order lists the keys of its map, each once, and not too many.
Sound(ca) ==
  /\ ca = [entries |-> ca.entries, order |-> ca.order]
  /\ ca.order \in Seq(SmallFiles)
  /\ Len(ca.order) <= MAX_CACHE_ENTRIES
  /\ Cached(ca) = {ca.order[k] : k \in DOMAIN ca.order}
  /\ \A j, k \in DOMAIN ca.order : ca.order[j] = ca.order[k] => j = k

\* What a task knows of its file: it will cache a small one only.
TaskOK(t) ==
  /\ DOMAIN t = {"at", "file", "out", "after", "resp", "old", "left"}
  /\ t.after \in {"line", "read", "insert"}
  /\ t.at = "line" => t.after = "line"
  /\ t.at = "open" => t.after = "line" /\ t.file \in Files
  /\ t.at \in {"body", "insert"} \/ t.after = "insert" => t.file \in SmallFiles

IInv ==
  /\ Sound(cache)
  /\ task = [s \in Conns |-> task[s]]
  /\ \A s \in Conns : TaskOK(task[s])

\* In a sound cache the map has as many entries as the order has keys.
LEMMA EntriesCounted ==
  ASSUME NEW ca, Sound(ca)
  PROVE  Cardinality(Cached(ca)) = Len(ca.order)
<1>1. ca.order \in Bijection(1..Len(ca.order), Cached(ca))
  <2> DEFINE o == ca.order
             S == Cached(ca)
  <2>1. /\ o \in Seq(SmallFiles) /\ DOMAIN o = 1..Len(o)
        /\ S = {o[k] : k \in DOMAIN o}
        /\ \A j, k \in DOMAIN o : o[j] = o[k] => j = k
    BY DEF Sound
  <2>2. o \in [1..Len(o) -> S]
    BY <2>1
  <2> HIDE DEF o, S
  <2>3. \A t \in S : \E k \in 1..Len(o) : o[k] = t
    BY <2>1
  <2>4. o \in Injection(1..Len(o), S)
    BY <2>1, <2>2 DEF Injection, IsInjective
  <2>5. o \in Surjection(1..Len(o), S)
    BY <2>2, <2>3 DEF Surjection
  <2> QED
    BY <2>4, <2>5 DEF Bijection, o, S
<1>2. ExistsBijection(1..Len(ca.order), Cached(ca))
  BY <1>1 DEF ExistsBijection
<1> QED
  BY <1>2, FS_CountingElements DEF Sound

\* insert keeps the two fields of the cache in step.
LEMMA InsertSound ==
  ASSUME NEW ca, Sound(ca), NEW key \in SmallFiles, NEW resp
  PROVE  Sound(insert(ca, key, resp))
<1> DEFINE o == ca.order
           new == insert(ca, key, resp)
<1>0. /\ o \in Seq(SmallFiles) /\ Len(o) \in Nat /\ Len(o) <= MAX_CACHE_ENTRIES
      /\ Cached(ca) = {o[k] : k \in DOMAIN o}
      /\ \A j, k \in DOMAIN o : o[j] = o[k] => j = k
      /\ MAX_CACHE_ENTRIES \in Nat \ {0}
  BY TokioAssumption DEF Sound
<1>1. CASE key \in Cached(ca)
  <2>1. new = [ca EXCEPT !.entries = With(@, key, resp)]
    BY <1>1 DEF insert
  <2>2. new = [entries |-> With(ca.entries, key, resp), order |-> o]
    BY <2>1 DEF Sound
  <2>3. Cached(new) = Cached(ca)
    BY <1>1, <2>2 DEF Cached, With
  <2> QED
    BY <1>0, <2>2, <2>3 DEF Sound
<1>2. CASE key \notin Cached(ca) /\ Len(o) < MAX_CACHE_ENTRIES
  <2>1. new = [entries |-> With(ca.entries, key, resp), order |-> Append(o, key)]
    <3>1. Cardinality(Cached(ca)) = Len(o)
      BY EntriesCounted
    <3>2. ~ Cardinality(Cached(ca)) >= MAX_CACHE_ENTRIES
      <4> HIDE DEF o
      <4> QED
        BY <1>0, <1>2, <3>1
    <3> QED
      BY <1>2, <3>2 DEF insert
  <2>2. Cached(new) = Cached(ca) \cup {key}
    BY <2>1 DEF Cached, With
  <2> DEFINE q == Append(o, key)
  <2>3. /\ q \in Seq(SmallFiles) /\ Len(q) = Len(o) + 1 /\ q[Len(o) + 1] = key
        /\ \A k \in 1..Len(o) : q[k] = o[k]
    BY <1>0
  <2>4. new.order = q /\ new = [entries |-> new.entries, order |-> new.order]
    BY <2>1
  <2> HIDE DEF q, new
  <2>5. Cached(new) = {q[k] : k \in DOMAIN q}
    <3>1. DOMAIN q = 1..(Len(o) + 1) /\ DOMAIN o = 1..Len(o)
      BY <1>0, <2>3
    <3> HIDE DEF o
    <3>2. \A k \in 1..(Len(o) + 1) : k = Len(o) + 1 \/ k \in 1..Len(o)
      BY <1>0
    <3>3. \A k \in DOMAIN q : q[k] \in Cached(new)
      BY <1>0, <2>2, <2>3, <3>1, <3>2
    <3>4. Len(o) + 1 \in DOMAIN q /\ \A k \in 1..Len(o) : k \in DOMAIN q
      BY <1>0, <3>1
    <3>5. \A x \in Cached(new) : \E k \in DOMAIN q : q[k] = x
      BY <1>0, <2>2, <2>3, <3>1, <3>4
    <3> QED
      BY <3>3, <3>5
  <2>6. \A j, k \in DOMAIN q : q[j] = q[k] => j = k
    <3>1. DOMAIN q = 1..(Len(o) + 1) /\ DOMAIN o = 1..Len(o)
      BY <1>0, <2>3
    <3>2. \A k \in 1..Len(o) : q[k] # key /\ q[k] = o[k]
      BY <1>0, <1>2, <2>3, <3>1
    <3> HIDE DEF o
    <3> QED
      BY <1>0, <2>3, <3>1, <3>2
  <2>7. Len(q) <= MAX_CACHE_ENTRIES
    BY <1>0, <1>2, <2>3
  <2>8. Sound(new)
    BY <2>3, <2>4, <2>5, <2>6, <2>7 DEF Sound
  <2> QED
    BY <2>8 DEF new
<1>3. CASE key \notin Cached(ca) /\ Len(o) = MAX_CACHE_ENTRIES
  <2>0. o # <<>> /\ Len(o) > 0
    BY <1>0, <1>3
  <2>1. new = [entries |-> With(Without(ca.entries, Head(o)), key, resp),
               order   |-> Append(Tail(o), key)]
    BY <1>0, <1>3, <2>0, EntriesCounted DEF insert
  <2>2. Cached(new) = (Cached(ca) \ {o[1]}) \cup {key}
    BY <1>0, <2>0, <2>1 DEF Cached, With, Without
  <2> DEFINE q == Append(Tail(o), key)
  <2>3. /\ q \in Seq(SmallFiles) /\ Len(q) = Len(o) /\ q[Len(o)] = key
        /\ \A k \in 1..(Len(o) - 1) : q[k] = o[k + 1]
    BY <1>0, <2>0
  <2>4. new.order = q /\ new = [entries |-> new.entries, order |-> new.order]
    BY <2>1
  <2> HIDE DEF q, new
  <2>5. Cached(new) = {q[k] : k \in DOMAIN q}
    <3>1. ASSUME NEW x \in Cached(ca), x # o[1] PROVE \E k \in 1..(Len(o) - 1) : q[k] = x
      <4>1. PICK j \in 1..Len(o) : o[j] = x
        BY <1>0, <3>1
      <4>2. j - 1 \in 1..(Len(o) - 1) /\ q[j - 1] = o[j]
        BY <1>0, <2>3, <3>1, <4>1
      <4> QED
        BY <4>1, <4>2
    <3>2. ASSUME NEW k \in 1..(Len(o) - 1) PROVE q[k] \in Cached(ca) /\ q[k] # o[1]
      <4>1. k + 1 \in 1..Len(o) /\ 1 \in 1..Len(o) /\ k + 1 # 1 /\ q[k] = o[k + 1]
        BY <1>0, <2>3
      <4> QED
        BY <1>0, <4>1
    <3>3. DOMAIN q = 1..Len(o) /\ Len(o) \in 1..Len(o)
      BY <1>0, <2>0, <2>3
    <3>4. \A k \in 1..Len(o) : k = Len(o) \/ k \in 1..(Len(o) - 1)
      BY <1>0
    <3>5. \A x \in Cached(new) : \E k \in DOMAIN q : q[k] = x
      <4> SUFFICES ASSUME NEW x \in Cached(new) PROVE \E k \in DOMAIN q : q[k] = x
        OBVIOUS
      <4>1. CASE x = key
        BY <2>3, <3>3, <4>1
      <4>2. CASE x \in Cached(ca) /\ x # o[1]
        <5>1. PICK k \in 1..(Len(o) - 1) : q[k] = x
          BY <3>1, <4>2
        <5> QED
          BY <1>0, <3>3, <5>1
      <4> QED
        BY <2>2, <4>1, <4>2
    <3>6. \A k \in DOMAIN q : q[k] \in Cached(new)
      BY <2>2, <2>3, <3>2, <3>3, <3>4
    <3> QED
      BY <3>5, <3>6
  <2>6. ASSUME NEW j \in DOMAIN q, NEW k \in DOMAIN q, q[j] = q[k] PROVE j = k
    <3>1. j \in 1..Len(o) /\ k \in 1..Len(o)
      BY <2>3
    <3>2. \A x \in 1..(Len(o) - 1) : q[x] = o[x + 1] /\ x + 1 \in DOMAIN o /\ q[x] # key
      BY <1>0, <1>3, <2>3
    <3>3. CASE j < Len(o) /\ k < Len(o)
      <4>1. o[j + 1] = o[k + 1] /\ j + 1 \in DOMAIN o /\ k + 1 \in DOMAIN o
        BY <1>0, <2>6, <3>1, <3>2, <3>3
      <4>2. j + 1 = k + 1
        BY <1>0, <4>1
      <4> QED
        BY <3>1, <4>2
    <3>4. CASE j = Len(o) \/ k = Len(o)
      BY <1>0, <2>3, <2>6, <3>1, <3>2, <3>4
    <3> QED
      BY <1>0, <3>1, <3>3, <3>4
  <2> QED
    <3>1. Len(q) <= MAX_CACHE_ENTRIES
      BY <1>0, <2>3
    <3>2. Sound(new)
      BY <2>3, <2>4, <2>5, <2>6, <3>1 DEF Sound
    <3> QED
      BY <3>2 DEF new
<1> QED
  BY <1>0, <1>1, <1>2, <1>3

\* The server starts with no tasks and nothing cached.
LEMMA InitIInv == Init => IInv
<1> SUFFICES ASSUME Init PROVE IInv
  OBVIOUS
<1>1. Sound(cache)
  <2>1. cache.entries = <<>> /\ cache.order = <<>> /\ cache = [entries |-> <<>>, order |-> <<>>]
    BY DEF Init, EmptyCache
  <2> QED
    BY <2>1, TokioAssumption DEF Sound, Cached
<1>2. \A s \in Conns : TaskOK(NoTask)
  BY DEF TaskOK, NoTask
<1> QED
  BY <1>1, <1>2 DEF Init, IInv

\* A step that gives one task a sound state and leaves the cache keeps the invariant.
LEMMA RunIInv ==
  ASSUME IInv, NEW s \in Conns, NEW t, TaskOK(t), Run(s, t), UNCHANGED cache
  PROVE  IInv'
<1>1. task' = [r \in Conns |-> IF r = s THEN t ELSE task[r]]
  BY DEF IInv, Run
<1>2. \A r \in Conns : TaskOK(task'[r])
  BY <1>1 DEF IInv
<1> QED
  BY <1>1, <1>2 DEF IInv, Sound, Cached, TaskOK

\* Before a connection is accepted, and between two requests.
LEMMA TasksOK == TaskOK(NoTask) /\ TaskOK(Idle)
BY DEF TaskOK, NoTask, Idle

\* What a task becomes when it starts to write.
LEMMA WritingOK ==
  ASSUME NEW s \in Conns, TaskOK(task[s]), NEW units, NEW after \in {"line", "read"}
  PROVE  TaskOK(Writing(s, units, after))
BY DEF TaskOK, Writing

\* No step of a task breaks the invariant.
LEMMA TaskIInv ==
  ASSUME IInv, NEW s \in Conns, TaskStep(s)
  PROVE  IInv'
<1>0. TaskOK(task[s])
  BY DEF IInv
<1>1. ASSUME NEW name, Lookup(s, name), task[s].at = "line", UNCHANGED cache PROVE IInv'
  <2>1. CASE name \notin Files
    BY <1>0, <1>1, <2>1, RunIInv, WritingOK DEF Lookup, resolve_path
  <2>2. CASE name \in Files /\ name \in Cached(cache)
    BY <1>0, <1>1, <2>2, RunIInv, WritingOK DEF Lookup, resolve_path
  <2>3. CASE name \in Files /\ name \notin Cached(cache)
    <3>1. TaskOK([task[s] EXCEPT !.at = "open", !.file = name])
      BY <1>0, <1>1, <2>3 DEF TaskOK
    <3> QED
      BY <1>1, <2>3, <3>1, RunIInv DEF Lookup, resolve_path
  <2> QED
    BY <2>1, <2>2, <2>3
<1>2. CASE NextLine(s)
  BY <1>1, <1>2 DEF NextLine
<1>3. ASSUME End(s) PROVE IInv'
  BY <1>3, RunIInv, TasksOK DEF End
<1>4. CASE Open(s)
  <2>1. CASE Run(s, [Writing(s, <<Err>>, "line") EXCEPT !.file = NULL])
    <3>1. TaskOK([Writing(s, <<Err>>, "line") EXCEPT !.file = NULL])
      BY <1>0, <1>4 DEF Open, TaskOK, Writing
    <3> QED
      BY <1>4, <2>1, <3>1, RunIInv DEF Open
  <2>2. CASE task[s].file \in LargeFiles /\
             Run(s, [Writing(s, <<Hdr(task[s].file)>>, "read") EXCEPT
                       !.left = BodyUnits(task[s].file)])
    <3>1. TaskOK([Writing(s, <<Hdr(task[s].file)>>, "read") EXCEPT
                    !.left = BodyUnits(task[s].file)])
      BY <1>0, <1>4 DEF Open, TaskOK, Writing
    <3> QED
      BY <1>4, <2>2, <3>1, RunIInv DEF Open
  <2>3. CASE task[s].file \notin LargeFiles /\ Run(s, [task[s] EXCEPT !.at = "body"])
    <3>1. TaskOK([task[s] EXCEPT !.at = "body"])
      BY <1>0, <1>4, <2>3 DEF Open, TaskOK, SmallFiles
    <3> QED
      BY <1>4, <2>3, <3>1, RunIInv DEF Open
  <2> QED
    BY <1>4, <2>1, <2>2, <2>3 DEF Open
<1>5. CASE ReadBody(s)
  <2> DEFINE resp == <<Hdr(task[s].file), Body(task[s].file, version[task[s].file])>>
             t == [Writing(s, resp, "insert") EXCEPT !.resp = resp]
  <2>1. TaskOK(t)
    <3> HIDE DEF resp
    <3> QED
      BY <1>0, <1>5 DEF ReadBody, TaskOK, Writing
  <2>2. Run(s, t) /\ UNCHANGED cache
    BY <1>5 DEF ReadBody
  <2> QED
    BY <2>1, <2>2, RunIInv
<1>6. CASE WriteAll(s)
  <2> DEFINE t == [task[s] EXCEPT !.out = Tail(@),
                     !.at = IF Len(task[s].out) = 1 THEN task[s].after ELSE @]
  <2>1. TaskOK(t)
    BY <1>0, <1>6 DEF WriteAll, TaskOK
  <2>2. Run(s, t) /\ UNCHANGED cache
    BY <1>6 DEF WriteAll
  <2> QED
    BY <2>1, <2>2, RunIInv
<1>7. CASE Insert(s)
  <2>1. task[s].file \in SmallFiles
    BY <1>0, <1>7 DEF Insert, TaskOK
  <2>2. Sound(cache')
    BY <1>7, <2>1, InsertSound DEF Insert, IInv
  <2>3. task' = [r \in Conns |-> IF r = s THEN Idle ELSE task[r]]
    BY <1>7 DEF Insert, Run, IInv
  <2>4. \A r \in Conns : TaskOK(task'[r])
    BY <2>3, TasksOK DEF IInv
  <2> QED
    BY <2>2, <2>3, <2>4 DEF IInv, Sound, Cached, TaskOK
<1>8. CASE ReadChunk(s)
  <2>1. CASE task[s].left = 0
    BY <1>8, <2>1, RunIInv, TasksOK DEF ReadChunk
  <2>2. CASE task[s].left # 0
    <3> DEFINE units == <<Body(task[s].file, version[task[s].file])>>
               t == [Writing(s, units, "read") EXCEPT !.left = @ - 1]
    <3>1. TaskOK(t)
      <4> HIDE DEF units
      <4> QED
        BY <1>0, <1>8 DEF ReadChunk, TaskOK, Writing
    <3>2. Run(s, t) /\ UNCHANGED cache
      BY <1>8, <2>2 DEF ReadChunk
    <3> QED
      BY <3>1, <3>2, RunIInv
  <2> QED
    BY <2>1, <2>2
<1>9. CASE FileResized(s)
  <2>1. PICK n : Run(s, [task[s] EXCEPT !.left = n])
    BY <1>9 DEF FileResized
  <2>2. TaskOK([task[s] EXCEPT !.left = n])
    BY <1>0 DEF TaskOK
  <2> QED
    BY <1>9, <2>1, <2>2, RunIInv DEF FileResized
<1> QED
  BY <1>2, <1>3, <1>4, <1>5, <1>6, <1>7, <1>8, <1>9
  DEF TaskStep, EndOfStream, ReadFails, WriteFails

\* No step breaks the invariant.
LEMMA NextIInv == IInv /\ [Next]_vars => IInv'
<1> SUFFICES ASSUME IInv, [Next]_vars PROVE IInv'
  OBVIOUS
<1>1. ASSUME UNCHANGED <<cache, task>> PROVE IInv'
  BY <1>1 DEF IInv, Sound, Cached, TaskOK
<1>2. ASSUME Stop PROVE IInv'
  <2>1. Sound(EmptyCache)
    <3>1. EmptyCache.entries = <<>> /\ EmptyCache.order = <<>>
      BY DEF EmptyCache
    <3> QED
      BY <3>1, TokioAssumption DEF Sound, Cached, EmptyCache
  <2>2. Sound(cache')
    BY <1>2, <2>1 DEF Stop
  <2>3. \A s \in Conns : TaskOK(task'[s])
    BY <1>2, TasksOK DEF Stop
  <2> QED
    BY <1>2, <2>2, <2>3 DEF Stop, IInv, Sound, Cached, TaskOK
<1>3. CASE Accept
  <2>1. CASE Head(backlog) \in Conns
    BY <1>3, <2>1, RunIInv, TasksOK DEF Accept
  <2>2. CASE Head(backlog) \notin Conns
    <3>1. task' = task
      BY <1>3, <2>2 DEF Accept, Run, IInv
    <3> QED
      BY <1>1, <1>3, <3>1 DEF Accept
  <2> QED
    BY <2>1, <2>2
<1>4. CASE ClearCache
  <2>1. Sound(cache')
    <3>1. cache'.entries = <<>> /\ cache'.order = <<>> /\ cache' = [entries |-> <<>>, order |-> <<>>]
      BY <1>4 DEF ClearCache, clear, EmptyCache
    <3> QED
      BY <3>1, TokioAssumption DEF Sound, Cached
  <2>2. \A s \in Conns : TaskOK(task'[s])
    <3> SUFFICES ASSUME NEW s \in Conns PROVE TaskOK(task'[s])
      OBVIOUS
    <3>1. task'[s] = [task[s] EXCEPT !.old = task[s].after = "insert"]
      BY <1>4 DEF ClearCache
    <3>2. PICK b : task'[s] = [task[s] EXCEPT !.old = b]
      BY <3>1
    <3> QED
      BY <3>2 DEF IInv, TaskOK
  <2> QED
    BY <1>4, <2>1, <2>2 DEF ClearCache, IInv, Sound, Cached, TaskOK
<1>5. CASE InstallHandler \/ Surroundings \/ Rest \/ UNCHANGED vars
  BY <1>1, <1>5 DEF InstallHandler, Surroundings, Rest, vars, ownVars
<1>6. CASE Sigusr1
  BY <1>1, <1>2, <1>6 DEF Sigusr1
<1>7. CASE CtrlC
  BY <1>2, <1>7 DEF CtrlC
<1> QED
  BY <1>3, <1>4, <1>5, <1>6, <1>7, TaskIInv DEF Next, MainStep

\* However the tasks, the signals and the clients interleave, the two fields of
\* FileCacheInner agree and stay within MAX_CACHE_ENTRIES.
THEOREM CacheFieldsAgree == Spec => []CacheOK
<1>1. IInv => CacheOK
  <2> SUFFICES ASSUME IInv PROVE CacheOK
    OBVIOUS
  <2>1. \A k \in DOMAIN cache.order : cache.order[k] \in SmallFiles
    BY DEF IInv, Sound
  <2> QED
    BY <2>1 DEF IInv, Sound, CacheOK, SmallFiles
<1> QED
  BY <1>1, InitIInv, NextIInv, PTL DEF Spec
================================================================================
