------------------------------ MODULE FileServer ------------------------------
(***************************************************************************)
(* The select() servers with blocking sockets: file-server.c and           *)
(* rust-file-server/src/main.rs, which differ only where impl is tested.   *)
(* One thread reads requests, serves every complete line before it goes on *)
(* to the next client, and blocks in write_all() while a client does not   *)
(* read.                                                                   *)
(*                                                                         *)
(* The Rust cache, a HashMap and the order of its keys, is the sequence of *)
(* FileCache as the C one is.                                              *)
(***************************************************************************)
EXTENDS FileClients, FileCache

CONSTANTS MAX_CLIENTS,
          MAX_CACHE_ENTRIES,
          REQ_BUF_SIZE,
          Faults,             \* whether calls may fail and files be resized
          MaxSignals,         \* bound on SIGUSR1
          MaxInterrupts       \* bound on SIGINT

ASSUME FileServerAssumption ==
  /\ MAX_CLIENTS \in Nat \ {0}
  /\ MAX_CACHE_ENTRIES \in Nat \ {0}
  /\ REQ_BUF_SIZE \in Nat /\ REQ_BUF_SIZE > 2
  /\ Faults \in BOOLEAN

VARIABLES
  impl,                   \* the program that runs: "C" or "Rust"
  pc,                     \* where the event loop is
  i,                      \* the client slot being processed
  rfds,                   \* read_fds as select() returned it
  clients,                \* clients[1..num_clients]
  out,                    \* units serve_file has yet to write
  stream,                 \* units it has yet to read from the file
  to_cache,               \* the response it inserts once it is written, or NULL
  cut,                    \* connections sent less or more of a file than its header says
  cache,
  running,
  cache_clear_requested,
  signals, interrupts     \* SIGUSR1s and SIGINTs so far

serveVars == <<out, stream, to_cache, cut>>
flagVars == <<running, cache_clear_requested>>
fileVars == <<version, signalled, flushed, closes>>
ownVars == <<impl, pc, i, rfds, clients, serveVars, cache, flagVars, signals, interrupts>>
vars == <<ownVars, clientVars>>

NoFds == [listen |-> FALSE, socks |-> {}]

Init ==
  /\ impl \in {"C", "Rust"}
  /\ pc = "top" /\ i = 0 /\ rfds = NoFds
  /\ clients = <<>>
  /\ out = <<>> /\ stream = 0 /\ to_cache = NULL /\ cut = {}
  /\ cache = <<>>
  /\ running = TRUE /\ cache_clear_requested = FALSE
  /\ signals = 0 /\ interrupts = 0
  /\ ClientsInit

------------------------------------------------------------------------------
(* event_loop, up to the client loop *)

\* Mutant: the request is taken back, but the cache is kept.
TopOfLoopKeepsCache ==
  /\ pc = "top"
  /\ running
  /\ flushed' = IF cache_clear_requested THEN signalled ELSE flushed
  /\ cache_clear_requested' = FALSE
  /\ pc' = "enter"
  /\ UNCHANGED <<impl, i, rfds, clients, serveVars, cache, running, signals, interrupts,
                 conn, backlog, version, signalled, closes>>

\* Mutant: the request to clear the cache is not reset.
TopOfLoopNoReset ==
  /\ pc = "top"
  /\ running
  /\ cache' = IF cache_clear_requested THEN cache_clear ELSE cache
  /\ flushed' = IF cache_clear_requested THEN signalled ELSE flushed
  /\ pc' = "enter"
  /\ UNCHANGED <<impl, i, rfds, clients, serveVars, flagVars, signals, interrupts,
                 conn, backlog, version, signalled, closes>>

\* while (running), then the pending cache_clear().
TopOfLoop ==
  /\ pc = "top"
  /\ running
  /\ cache' = IF cache_clear_requested THEN cache_clear ELSE cache
  /\ flushed' = IF cache_clear_requested THEN signalled ELSE flushed
  /\ cache_clear_requested' = FALSE
  /\ pc' = "enter"
  /\ UNCHANGED <<impl, i, rfds, clients, serveVars, running, signals, interrupts,
                 conn, backlog, version, signalled, closes>>

\* The loop ends; every socket is closed and the cache is cleared.
Shutdown ==
  /\ pc = "top"
  /\ ~running
  /\ pc' = "exit"
  /\ cache' = cache_clear
  /\ conn' = [s \in Conns |->
                IF \E k \in DOMAIN clients : clients[k].sock = s
                THEN [conn[s] EXCEPT !.phase = "closed"] ELSE conn[s]]
  /\ UNCHANGED <<impl, i, rfds, clients, serveVars, flagVars, signals, interrupts,
                 backlog, fileVars>>

\* The set is built and select() is called: only now does a signal interrupt it.
EnterSelect ==
  /\ pc = "enter"
  /\ pc' = "select"
  /\ UNCHANGED <<impl, i, rfds, clients, serveVars, cache, flagVars, signals, interrupts,
                 clientVars>>

Socks == {clients[k].sock : k \in DOMAIN clients}

ReadyRead == [listen |-> backlog # <<>>, socks |-> {s \in Socks : Readable(s)}]

SelectReturn ==
  /\ pc = "select"
  /\ ReadyRead # NoFds
  /\ rfds' = ReadyRead
  /\ pc' = "accept"
  /\ UNCHANGED <<impl, i, clients, serveVars, cache, flagVars, signals, interrupts, clientVars>>

\* The backward loop goes on at slot k, or ends.
GoTo(k) ==
  /\ i' = k
  /\ IF k = 0 THEN pc' = "top" /\ rfds' = NoFds ELSE pc' = "client" /\ UNCHANGED rfds

Advance == GoTo(i - 1)

\* Mutant: add_client does not look at the size of the table.
RoomNot(waiting) == Len(waiting)

\* How many of the waiting connections get a slot.
Room(waiting) == MinOf(MAX_CLIENTS - Len(clients), Len(waiting))

\* The connections in slots 1..n of the backlog are added, those up to taken leave it.
Accept(n, taken) ==
  /\ clients' = clients \o [k \in 1..n |-> [sock |-> backlog[k], buf |-> <<>>]]
  /\ conn' = [s \in Conns |->
                IF \E k \in 1..n : backlog[k] = s THEN [conn[s] EXCEPT !.phase = "open"]
                ELSE IF \E k \in (n + 1)..taken : backlog[k] = s
                     THEN [conn[s] EXCEPT !.phase = "closed"] ELSE conn[s]]
  /\ backlog' = SubSeq(backlog, taken + 1, Len(backlog))
  /\ GoTo(Len(clients'))
  /\ UNCHANGED <<impl, serveVars, cache, flagVars, signals, interrupts, fileVars>>

\* accept() until the queue is empty; add_client closes what finds the table full.
AcceptC ==
  /\ pc = "accept" /\ impl = "C"
  /\ LET waiting == IF rfds.listen THEN backlog ELSE <<>>
     IN Accept(Room(waiting), Len(waiting))

\* accept() until the queue is empty or the table is full.
AcceptRust ==
  /\ pc = "accept" /\ impl = "Rust"
  /\ LET waiting == IF rfds.listen THEN backlog ELSE <<>>
     IN Accept(Room(waiting), Room(waiting))

------------------------------------------------------------------------------
(* The client loop *)

c == clients[i]

\* Mutant: the count is decremented, but the last client is not moved.
SwapRemoveTruncate(k) == SubSeq(clients, 1, Len(clients) - 1)

\* clients[i] = clients[--num_clients], clients.swap_remove(i)
SwapRemove(k) == SubSeq([clients EXCEPT ![k] = clients[Len(clients)]], 1, Len(clients) - 1)

\* The socket is closed, the response dropped and the slot given up.
remove_client ==
  /\ conn' = [conn EXCEPT ![c.sock].phase = "closed"]
  /\ clients' = SwapRemove(i)
  /\ out' = <<>> /\ stream' = 0 /\ to_cache' = NULL
  /\ Advance
  /\ UNCHANGED <<impl, cut, cache, flagVars, signals, interrupts, backlog, fileVars>>

SkipClient ==
  /\ pc = "client"
  /\ c.sock \notin rfds.socks
  /\ Advance
  /\ UNCHANGED <<impl, clients, serveVars, cache, flagVars, signals, interrupts, clientVars>>

\* What one read() asks for: the C buffer keeps a byte free, the Rust one grows.
ReadSizeC == REQ_BUF_SIZE - 1 - Len(c.buf)
ReadSizeRust == REQ_BUF_SIZE

ReadRequest ==
  /\ pc = "client"
  /\ c.sock \in rfds.socks
  /\ LET inq == conn[c.sock].inq
         n   == MinOf(IF impl = "C" THEN ReadSizeC ELSE ReadSizeRust, Len(inq))
     IN IF n = 0
        THEN remove_client
        ELSE /\ clients' = [clients EXCEPT ![i].buf = @ \o SubSeq(inq, 1, n)]
             /\ conn' = [conn EXCEPT ![c.sock].inq = SubSeq(inq, n + 1, Len(inq))]
             /\ pc' = "line"
             /\ UNCHANGED <<impl, i, rfds, serveVars, cache, flagVars, signals, interrupts,
                            backlog, fileVars>>

\* Mutant: the limit is off by one.
BufferFullLate == Len(c.buf) >= REQ_BUF_SIZE

\* A line too long for the buffer.
BufferFull == Len(c.buf) >= REQ_BUF_SIZE - 1

\* process_requests, process_client: no complete line is left.
LinesDone ==
  /\ pc = "line"
  /\ ~HasLine(c.buf)
  /\ IF BufferFull
     THEN remove_client
     ELSE /\ Advance
          /\ UNCHANGED <<impl, clients, serveVars, cache, flagVars, signals, interrupts, clientVars>>

------------------------------------------------------------------------------
(* serve_file *)

name == RequestIn(c.buf)

Serving == pc = "line" /\ HasLine(c.buf)

\* serve_file goes on to write units, read more of the file and insert entry.
Serve(units, more, entry) ==
  /\ pc' = "send"
  /\ out' = units /\ stream' = more /\ to_cache' = entry
  /\ UNCHANGED <<impl, i, rfds, clients, cut, cache, flagVars, signals, interrupts, clientVars>>

\* A bad path, or a failure of realpath, stat or open.
ServeError ==
  /\ Serving
  /\ name \notin Files \/ Faults
  /\ Serve(<<Err>>, 0, NULL)

ServeCached ==
  /\ Serving
  /\ name \in Keys(cache)
  /\ Serve(<<Hdr(name), Body(name, cache_lookup(cache, name))>>, 0, NULL)

Miss == Serving /\ name \in Files /\ name \notin Keys(cache)

\* The whole file is read, to be cached once it has been written.
ServeSmall ==
  /\ Miss /\ name \notin LargeFiles
  /\ Serve(<<Hdr(name), Body(name, version[name])>>, 0, [key |-> name, resp |-> version[name]])

\* read_exact fails: the connection is closed.
ServeSmallFailsRust ==
  /\ Miss /\ name \notin LargeFiles /\ Faults /\ impl = "Rust"
  /\ remove_client

\* A large file, or in C a small one that malloc or pread failed for.
ServeStream ==
  /\ Miss /\ (name \in LargeFiles \/ (Faults /\ impl = "C"))
  /\ Serve(<<Hdr(name)>>, BodyUnits(name), NULL)

\* write_all blocks until the socket takes the next unit.
WriteAll ==
  /\ pc = "send" /\ out # <<>>
  /\ Writable(c.sock)
  /\ conn' = Deliver(conn, c.sock, <<Head(out)>>)
  /\ out' = Tail(out)
  /\ UNCHANGED <<impl, pc, i, rfds, clients, stream, to_cache, cut, cache, flagVars,
                 signals, interrupts, backlog, fileVars>>

\* A write to a closed peer may fail.  send_error does not tell its caller.
WriteFailsC ==
  /\ pc = "send" /\ out # <<>> /\ conn[c.sock].fin /\ impl = "C"
  /\ IF Head(out) = Err
     THEN /\ out' = <<>>
          /\ UNCHANGED <<impl, pc, i, rfds, clients, stream, to_cache, cut, cache, flagVars,
                         signals, interrupts, clientVars>>
     ELSE remove_client

WriteFailsRust ==
  /\ pc = "send" /\ out # <<>> /\ conn[c.sock].fin /\ impl = "Rust"
  /\ remove_client

\* The next part of a file that is streamed.
ReadChunk ==
  /\ pc = "send" /\ out = <<>> /\ stream > 0
  /\ out' = <<Body(name, version[name])>>
  /\ stream' = stream - 1
  /\ UNCHANGED <<impl, pc, i, rfds, clients, to_cache, cut, cache, flagVars, signals,
                 interrupts, clientVars>>

\* The loop runs to the end of the file, wherever that is by now: fewer bytes than the
\* header says, or more (bounded to once in all).  A failed read() in C is an end.
FileResized ==
  /\ pc = "send" /\ out = <<>> /\ stream > 0 /\ Faults
  /\ cut = {}
  /\ stream' \in {0, stream + 1}
  /\ cut' = cut \cup {c.sock}
  /\ UNCHANGED <<impl, pc, i, rfds, clients, out, to_cache, cache, flagVars, signals,
                 interrupts, clientVars>>

ReadChunkFailsRust ==
  /\ pc = "send" /\ out = <<>> /\ stream > 0 /\ Faults /\ impl = "Rust"
  /\ remove_client

\* Mutant: the line stays in the buffer.
CompleteKeepsLine ==
  /\ pc = "send" /\ out = <<>> /\ stream = 0
  /\ cache' = IF to_cache = NULL THEN cache
              ELSE cache_insert(cache, to_cache.key, to_cache.resp, MAX_CACHE_ENTRIES)
  /\ to_cache' = NULL
  /\ pc' = "line"
  /\ UNCHANGED <<impl, i, rfds, clients, out, stream, cut, flagVars, signals, interrupts, clientVars>>

\* Mutant: only the first line of what was read is served.
CompleteOnce ==
  /\ pc = "send" /\ out = <<>> /\ stream = 0
  /\ cache' = IF to_cache = NULL THEN cache
              ELSE cache_insert(cache, to_cache.key, to_cache.resp, MAX_CACHE_ENTRIES)
  /\ to_cache' = NULL
  /\ clients' = [clients EXCEPT ![i].buf = RestOf(@)]
  /\ Advance
  /\ UNCHANGED <<impl, out, stream, cut, flagVars, signals, interrupts, clientVars>>

\* The response is cached and the line consumed; the next line is looked at.
Complete ==
  /\ pc = "send" /\ out = <<>> /\ stream = 0
  /\ cache' = IF to_cache = NULL THEN cache
              ELSE cache_insert(cache, to_cache.key, to_cache.resp, MAX_CACHE_ENTRIES)
  /\ to_cache' = NULL
  /\ clients' = [clients EXCEPT ![i].buf = RestOf(@)]
  /\ pc' = "line"
  /\ UNCHANGED <<impl, i, rfds, out, stream, cut, flagVars, signals, interrupts, clientVars>>

ServerStep ==
  \/ TopOfLoop \/ Shutdown \/ EnterSelect \/ SelectReturn \/ AcceptC \/ AcceptRust
  \/ SkipClient \/ ReadRequest \/ LinesDone
  \/ ServeError \/ ServeCached \/ ServeSmall \/ ServeSmallFailsRust \/ ServeStream
  \/ WriteAll \/ WriteFailsC \/ WriteFailsRust
  \/ ReadChunk \/ FileResized \/ ReadChunkFailsRust \/ Complete

------------------------------------------------------------------------------
(* Signals *)

\* A handler sets its flag; a blocked select() returns EINTR and the loop continues.
Interrupt == pc' = IF pc = "select" THEN "top" ELSE pc

handle_sigint ==
  /\ interrupts < MaxInterrupts /\ pc # "exit"
  /\ running' = FALSE
  /\ interrupts' = interrupts + 1
  /\ Interrupt
  /\ UNCHANGED <<impl, i, rfds, clients, serveVars, cache, cache_clear_requested, signals, clientVars>>

handle_sigusr1 ==
  /\ signals < MaxSignals /\ pc # "exit"
  /\ cache_clear_requested' = TRUE
  /\ signals' = signals + 1
  /\ signalled' = version
  /\ Interrupt
  /\ UNCHANGED <<impl, i, rfds, clients, serveVars, cache, running, interrupts, conn, backlog,
                 version, flushed, closes>>

------------------------------------------------------------------------------
Surroundings ==
  /\ \/ ClientStep
     \/ pc # "exit" /\ \E s \in Conns : Connect(s)
  /\ UNCHANGED ownVars

\* Blocked in select() until something happens, or gone.
Idle ==
  /\ pc = "exit" \/ (pc = "select" /\ ReadyRead = NoFds)
  /\ UNCHANGED vars

Next == ServerStep \/ handle_sigint \/ handle_sigusr1 \/ Surroundings \/ Idle

Spec == Init /\ [][Next]_vars

\* The process is scheduled, and clients read what they are sent.
FairSpec ==
  /\ Spec
  /\ WF_vars(ServerStep)
  /\ \A s \in Conns : WF_vars(ClientRead(s) /\ UNCHANGED ownVars)

------------------------------------------------------------------------------
(* Properties *)

TypeOK ==
  /\ pc \in {"top", "enter", "select", "accept", "client", "line", "send", "exit"}
  /\ i \in 0..Len(clients)
  /\ Len(clients) <= MAX_CLIENTS
  /\ stream \in 0..3
  /\ \A s \in Conns : conn[s].unread \in 0..SockCap

\* The table holds every connection the server has accepted and not closed, each
\* once, through any interleaving of accepts, rejections and swap-removes.
TableOK ==
  /\ TypeOK
  /\ \A j, k \in DOMAIN clients : clients[j].sock = clients[k].sock => j = k
  /\ pc # "exit" => Socks = {s \in Conns : conn[s].phase = "open"}

\* The cache never outgrows its array and holds a path at most once.
CacheOK ==
  /\ Len(cache) <= MAX_CACHE_ENTRIES
  /\ \A j, k \in DOMAIN cache : cache[j].key = cache[k].key => j = k

\* file-server.c never calls read() with no room left in the buffer, so that a
\* result of 0 is the end of the stream and not a full buffer.
RoomToRead ==
  \A k \in DOMAIN clients :
    (impl = "C" /\ (pc \notin {"line", "send"} \/ k # i)) => Len(clients[k].buf) < REQ_BUF_SIZE - 1

\* A client gets the answers to its requests, pipelined ones included, in their
\* order and whole, unless the size of a file changes while it is streamed to it.
FramingUnlessCut == \A s \in Conns \ cut : conn[s].ok

\* Every request of an accepted client is answered, however many lines arrive at
\* once, as long as clients read: a slow one delays the others and no more.
AnsweredUnlessCut ==
  \A s \in Conns :
    LET waits == conn[s].phase = "open" /\ ~conn[s].fin /\ conn[s].pending # <<>>
    IN waits ~> (~waits \/ s \in cut)

\* A flush is carried out before select() is called again, unless the signal came
\* between the test of cache_clear_requested and select(): then once select() returns.
FlushAtNextPass ==
  (cache_clear_requested /\ pc \notin {"enter", "select"}) ~> (~cache_clear_requested \/ pc = "exit")
===============================================================================
