--------------------------- MODULE TokioFileServer ---------------------------
(***************************************************************************)
(* tokio-file-server/src/main.rs: one task per connection on a runtime     *)
(* with several threads, a cache shared under a mutex, and a task that     *)
(* clears the cache on SIGUSR1.  A step of a task is what it does between  *)
(* two .await points, or between taking and releasing the mutex.           *)
(***************************************************************************)
EXTENDS FileClients, FiniteSets

CONSTANTS MAX_CACHE_ENTRIES,
          MaxFaults,          \* bound on what goes wrong with files
          MaxSignals          \* bound on SIGUSR1 and SIGINT

ASSUME TokioAssumption ==
  MAX_CACHE_ENTRIES \in Nat \ {0} /\ MaxFaults \in Nat /\ MaxSignals \in Nat

VARIABLES
  cache,                  \* FileCacheInner: the map entries and its keys in order
  task,                   \* task[s]: the task of connection s
  handler,                \* the SIGUSR1 task has run as far as installing its handler
  sigusr1,                \* a signal its stream has not yielded; further ones merge with it
  signals,                \* signals so far
  faults,                 \* how often a file could not be read, or changed its size
  up,                     \* the process runs
  cut,                    \* connections whose response and its header disagree
  carried                 \* files inserted from a read older than the last clear

ownVars == <<cache, task, handler, sigusr1, signals, faults, up, cut, carried>>
fileVars == <<version, signalled, flushed, closes>>
vars == <<ownVars, clientVars>>

\* What a task is at, the file it serves, what it has still to write and what it does
\* then, the response it will cache and whether that is from before the last clear,
\* and the units of a large file it has not read.
NoTask == [at |-> "none", file |-> NULL, out |-> <<>>, after |-> "line",
           resp |-> <<>>, old |-> FALSE, left |-> 0]
Idle == [NoTask EXCEPT !.at = "line"]
EmptyCache == [entries |-> <<>>, order |-> <<>>]

Init ==
  /\ cache = EmptyCache
  /\ task = [s \in Conns |-> NoTask]
  /\ handler = FALSE /\ sigusr1 = FALSE /\ signals = 0 /\ faults = 0 /\ up = TRUE
  /\ cut = {} /\ carried = {}
  /\ ClientsInit

------------------------------------------------------------------------------
(* FileCacheInner *)

Cached(ca) == DOMAIN ca.entries
get(ca, key) == ca.entries[key]
Without(entries, key) == [k \in DOMAIN entries \ {key} |-> entries[k]]
With(entries, key, resp) ==
  [k \in DOMAIN entries \cup {key} |-> IF k = key THEN resp ELSE entries[k]]

\* Mutant: the oldest key leaves the order, but its entry stays in the map.
InsertKeepsOldest(ca, key, resp) ==
  LET full == Cardinality(Cached(ca)) >= MAX_CACHE_ENTRIES
  IN IF key \in Cached(ca)
     THEN [ca EXCEPT !.entries = With(@, key, resp)]
     ELSE [entries |-> With(ca.entries, key, resp),
           order   |-> Append(IF full /\ ca.order # <<>> THEN Tail(ca.order) ELSE ca.order, key)]

insert(ca, key, resp) ==
  LET full == Cardinality(Cached(ca)) >= MAX_CACHE_ENTRIES
      kept == IF full /\ ca.order # <<>>
              THEN [entries |-> Without(ca.entries, Head(ca.order)), order |-> Tail(ca.order)]
              ELSE ca
  IN IF key \in Cached(ca)
     THEN [ca EXCEPT !.entries = With(@, key, resp)]
     ELSE [entries |-> With(kept.entries, key, resp), order |-> Append(kept.order, key)]

\* Mutant: nothing is cleared.
ClearNot(ca) == ca

clear(ca) == EmptyCache

\* Mutant: the guard of the lookup lives until the response is written.
HoldersServing == {s \in Conns : task[s].at \in {"open", "body", "read", "write"}}

\* The tasks at an .await that hold the mutex: the guards are temporaries, so none.
Holders == {}

------------------------------------------------------------------------------
(* handle_connection and serve_file *)

Run(s, t) == task' = [task EXCEPT ![s] = t]

\* write_all(units), after which the task goes on at `after'.
Writing(s, units, after) ==
  [task[s] EXCEPT !.at = "write", !.out = units, !.after = after]

\* Something goes wrong with a file.
Fault == faults < MaxFaults /\ faults' = faults + 1

\* Whether a name is that of a file below docroot.
resolve_path(name) == name \in Files

\* serve_file(line), up to its first .await: resolve_path, then the cache.
Lookup(s, name) ==
  Run(s, IF ~resolve_path(name) THEN Writing(s, <<Err>>, "line")
         ELSE IF name \in Cached(cache) THEN Writing(s, get(cache, name), "line")
         ELSE [task[s] EXCEPT !.at = "open", !.file = name])

\* next_line(): the next complete line, or what is left before the end of the stream.
NextLine(s) ==
  /\ task[s].at = "line" /\ conn[s].inq # <<>> /\ Holders = {}
  /\ \/ /\ HasLine(conn[s].inq)
        /\ Lookup(s, RequestIn(conn[s].inq))
        /\ conn' = [conn EXCEPT ![s].inq = RestOf(@)]
     \/ /\ ~HasLine(conn[s].inq) /\ conn[s].fin
        /\ Lookup(s, NameOf(conn[s].inq))
        /\ conn' = [conn EXCEPT ![s].inq = <<>>]
  /\ UNCHANGED <<cache, handler, sigusr1, signals, faults, up, cut, carried, backlog, fileVars>>

\* The task ends, which drops both halves of the stream.
End(s) ==
  /\ Run(s, NoTask)
  /\ conn' = [conn EXCEPT ![s].phase = "closed"]
  /\ UNCHANGED <<cache, handler, sigusr1, signals, up, cut, carried, backlog, fileVars>>

\* next_line() finds the end of the stream, or that the peer has reset the connection.
EndOfStream(s) == task[s].at = "line" /\ conn[s].fin /\ End(s) /\ UNCHANGED faults

\* metadata() and File::open().
Open(s) ==
  /\ task[s].at = "open"
  /\ \/ /\ Run(s, IF task[s].file \in LargeFiles
                  THEN [Writing(s, <<Hdr(task[s].file)>>, "read") EXCEPT
                          !.left = BodyUnits(task[s].file)]
                  ELSE [task[s] EXCEPT !.at = "body"])
        /\ UNCHANGED faults
     \/ Fault /\ Run(s, [Writing(s, <<Err>>, "line") EXCEPT !.file = NULL])
  /\ UNCHANGED <<cache, handler, sigusr1, signals, up, cut, carried, conn, backlog, fileVars>>

\* Mutant: the body is cached without its header.
ReadBodyOnly(s) ==
  /\ task[s].at = "body"
  /\ LET f    == task[s].file
         body == Body(f, version[f])
     IN Run(s, [Writing(s, <<Hdr(f), body>>, "insert") EXCEPT !.resp = <<body>>])
  /\ UNCHANGED <<cache, handler, sigusr1, signals, faults, up, cut, carried, conn, backlog, fileVars>>

\* read_exact() of a small file.
ReadBody(s) ==
  /\ task[s].at = "body"
  /\ LET f    == task[s].file
         resp == <<Hdr(f), Body(f, version[f])>>
     IN Run(s, [Writing(s, resp, "insert") EXCEPT !.resp = resp])
  /\ UNCHANGED <<cache, handler, sigusr1, signals, faults, up, cut, carried, conn, backlog, fileVars>>

\* A read fails, also because the file has become shorter: serve_file returns Err.
ReadFails(s) ==
  /\ task[s].at \in {"body", "read"} /\ Fault
  /\ End(s)

\* write_all(): a unit is taken when the socket has room for it.
WriteAll(s) ==
  /\ task[s].at = "write" /\ Writable(s)
  /\ conn' = Deliver(conn, s, <<Head(task[s].out)>>)
  /\ Run(s, [task[s] EXCEPT !.out = Tail(@), !.at = IF Len(task[s].out) = 1 THEN task[s].after ELSE @])
  /\ UNCHANGED <<cache, handler, sigusr1, signals, faults, up, cut, carried, backlog, fileVars>>

\* write_all() fails once the client has closed: nothing is cached.
WriteFails(s) == task[s].at = "write" /\ conn[s].fin /\ End(s) /\ UNCHANGED faults

\* The response is cached after it has been written.
Insert(s) ==
  /\ task[s].at = "insert" /\ Holders = {}
  /\ cache' = insert(cache, task[s].file, task[s].resp)
  /\ carried' = IF task[s].old THEN carried \cup {task[s].file} ELSE carried
  /\ Run(s, Idle)
  /\ UNCHANGED <<handler, sigusr1, signals, faults, up, cut, conn, backlog, fileVars>>

\* The loop over a large file: a chunk, or the end of the file.
ReadChunk(s) ==
  /\ task[s].at = "read"
  /\ LET f == task[s].file
     IN Run(s, IF task[s].left = 0 THEN Idle
               ELSE [Writing(s, <<Body(f, version[f])>>, "read") EXCEPT !.left = @ - 1])
  /\ UNCHANGED <<cache, handler, sigusr1, signals, faults, up, cut, carried, conn, backlog, fileVars>>

\* The file ends before, or goes on after, the size in the header.
FileResized(s) ==
  /\ task[s].at = "read" /\ Fault
  /\ \E n \in {0, task[s].left + 1} : Run(s, [task[s] EXCEPT !.left = n])
  /\ cut' = cut \cup {s}
  /\ UNCHANGED <<cache, handler, sigusr1, signals, up, carried, conn, backlog, fileVars>>

TaskStep(s) ==
  /\ up
  /\ \/ NextLine(s) \/ EndOfStream(s) \/ Open(s) \/ ReadBody(s) \/ ReadFails(s)
     \/ WriteAll(s) \/ WriteFails(s) \/ Insert(s) \/ ReadChunk(s) \/ FileResized(s)
------------------------------------------------------------------------------
(* main *)

\* accept() and spawn(handle_connection).
Accept ==
  /\ up /\ backlog # <<>>
  /\ Run(Head(backlog), Idle)
  /\ conn' = [conn EXCEPT ![Head(backlog)].phase = "open"]
  /\ backlog' = Tail(backlog)
  /\ UNCHANGED <<cache, handler, sigusr1, signals, faults, up, cut, carried, fileVars>>

\* The SIGUSR1 task runs for the first time.
InstallHandler ==
  /\ up /\ ~handler
  /\ handler' = TRUE
  /\ UNCHANGED <<cache, task, sigusr1, signals, faults, up, cut, carried, clientVars>>

\* recv() yields, and the cache is cleared.
ClearCache ==
  /\ up /\ sigusr1 /\ Holders = {}
  /\ sigusr1' = FALSE
  /\ cache' = clear(cache)
  /\ flushed' = signalled
  /\ task' = [s \in Conns |-> [task[s] EXCEPT !.old = task[s].after = "insert"]]
  /\ UNCHANGED <<handler, signals, faults, up, cut, carried, conn, backlog, version, signalled, closes>>

\* The process ends, and with it its tasks and its cache.
Stop ==
  /\ up' = FALSE
  /\ task' = [s \in Conns |-> NoTask]
  /\ cache' = EmptyCache /\ sigusr1' = FALSE
  /\ Hangup

\* SIGUSR1: until the handler is installed, its default effect is to end the process.
Sigusr1 ==
  /\ up /\ signals < MaxSignals
  /\ signals' = signals + 1
  /\ signalled' = version
  /\ IF handler
     THEN sigusr1' = TRUE /\ UNCHANGED <<up, task, cache, conn, backlog>>
     ELSE Stop
  /\ UNCHANGED <<handler, faults, cut, carried, version, flushed, closes>>

\* SIGINT: select! drops the accept loop, and main returns.
CtrlC ==
  /\ up /\ signals < MaxSignals
  /\ signals' = signals + 1
  /\ Stop
  /\ UNCHANGED <<handler, faults, cut, carried, fileVars>>

MainStep == Accept \/ InstallHandler \/ ClearCache

\* What clients and writers do after the process has ended is left out.
Surroundings ==
  /\ up
  /\ ClientStep \/ \E s \in Conns : Connect(s)
  /\ UNCHANGED ownVars

\* Every task waits, or the process has ended.
Rest == UNCHANGED vars

Next == MainStep \/ Sigusr1 \/ CtrlC \/ Surroundings \/ Rest \/ \E s \in Conns : TaskStep(s)

Spec == Init /\ [][Next]_vars

\* Every task that can go on is polled.  The clients in Reading read what they are sent.
FairSpec(Reading) ==
  /\ Spec
  /\ WF_vars(MainStep)
  /\ \A s \in Conns : WF_vars(TaskStep(s))
  /\ \A s \in Reading : WF_vars(ClientRead(s) /\ UNCHANGED ownVars)

------------------------------------------------------------------------------
(* Properties *)

\* The two fields of FileCacheInner agree: order lists the keys of the map once
\* each, they are files small enough to cache, and there are at most MAX_CACHE_ENTRIES.
CacheOK ==
  /\ Len(cache.order) <= MAX_CACHE_ENTRIES
  /\ Cached(cache) = {cache.order[k] : k \in DOMAIN cache.order}
  /\ \A j, k \in DOMAIN cache.order : cache.order[j] = cache.order[k] => j = k
  /\ Cached(cache) \subseteq Files \ LargeFiles

\* What clients receive is framed as they expect, unless a large file changed its
\* size while it was streamed.
FramingUnlessCut == \A s \in Conns \ cut : conn[s].ok

\* A response from before a flush is served to a later request only if a task had
\* read it before the flush and cached it after.
FreshUnlessCarried == carried = {} => FreshAfterFlush

\* A client that reads what it is sent is answered, whatever the other clients do.
ReadersAnswered(Reading) ==
  \A s \in Reading : Unanswered(s) ~> (~Unanswered(s) \/ s \in cut)
==============================================================================
