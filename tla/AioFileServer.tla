---------------------------- MODULE AioFileServer ----------------------------
(***************************************************************************)
(* aio-file-server.c: one event-loop thread around select(), POSIX AIO for *)
(* small files, sendfile() for large ones, a response cache, and SIGUSR1   *)
(* to flush it.                                                            *)
(*                                                                         *)
(* The loop's steps interleave with its surroundings: the thread that      *)
(* completes AIO requests, clients that connect, send, read and close, the *)
(* signal handlers, and writers of the served files.                       *)
(*                                                                         *)
(* The client table is the sequence of its first num_clients slots, and a  *)
(* slot's index is its address: an AIO request keeps the address of the    *)
(* struct aiocb that was in the slot when aio_read() was called.  Slots    *)
(* past num_clients are left out, since add_client zeroes one before use.  *)
(***************************************************************************)
EXTENDS FileClients, FileCache, FiniteSets

CONSTANTS BufIds,             \* addresses malloc returns for a response
          MAX_CLIENTS,
          MAX_CACHE_ENTRIES,
          REQ_BUF_SIZE,
          Faults,             \* whether calls may fail and files be truncated
          MaxSignals,         \* bound on SIGUSR1
          MaxInterrupts       \* bound on SIGINT

ASSUME AioAssumption ==
  /\ MAX_CLIENTS \in Nat \ {0}
  /\ MAX_CACHE_ENTRIES \in Nat \ {0}
  /\ REQ_BUF_SIZE \in Nat /\ REQ_BUF_SIZE > 2
  /\ Faults \in BOOLEAN
  /\ Cardinality(BufIds) >= MAX_CLIENTS

VARIABLES
  \* The process
  pc,                     \* where the event loop is
  i,                      \* the client slot being processed
  rfds, wfds,             \* read_fds and write_fds as select() returned them
  clients,                \* clients[1..num_clients]
  heap,                   \* heap[b]: the file bytes in response buffer b
  cache,
  files_open,             \* open file descriptors on served files
  running,
  cache_clear_requested,
  \* glibc and the kernel
  inflight,               \* AIO requests not yet completed
  sigq,                   \* AIO_DONE_SIG is queued on the signalfd
  signals, interrupts,    \* SIGUSR1s and SIGINTs so far
  short                   \* files that a read found shorter than stat() had

serverVars == <<pc, i, rfds, wfds, clients, heap, cache, files_open>>
flagVars == <<running, cache_clear_requested>>
kernelVars == <<inflight, sigq, backlog>>
envVars == <<version, signalled, flushed, closes, signals, interrupts, short>>
vars == <<serverVars, flagVars, kernelVars, conn, envVars>>

\* What clients and writers leave alone.
ownVars == <<serverVars, flagVars, inflight, sigq, signals, interrupts, short>>

NoFds == [listen |-> FALSE, aio |-> FALSE, socks |-> {}]

\* add_client: the slot is zeroed; the error code of a zeroed aiocb is 0.
NewClient(s) ==
  [sock |-> s, state |-> "READING", req_buf |-> <<>>, resp |-> NULL, resp_sent |-> 0,
   aio |-> "ok", sf_remaining |-> 0, cache_key |-> NULL]

Init ==
  /\ pc = "top" /\ i = 0 /\ rfds = NoFds /\ wfds = {}
  /\ clients = <<>>
  /\ heap = [b \in BufIds |-> NULL]
  /\ cache = <<>>
  /\ files_open = 0
  /\ running = TRUE /\ cache_clear_requested = FALSE
  /\ inflight = {} /\ sigq = FALSE
  /\ signals = 0 /\ interrupts = 0 /\ short = {}
  /\ ClientsInit

------------------------------------------------------------------------------
(* Writing to a socket *)

\* Mutant: the length that was asked for is taken as the length written.
AcceptedAll(s, units) == Len(units)

\* The kernel takes what fits; a peer that has closed takes, and drops, all.
Accepted(s, units) == IF conn[s].fin THEN Len(units) ELSE MinOf(Space(s), Len(units))

\* sock_send on a non-blocking socket: EAGAIN ends the loop and drops the rest.
sock_send(cn, s, unit) ==
  IF cn[s].fin \/ cn[s].unread < SockCap THEN Deliver(cn, s, <<unit>>)
                                        ELSE [cn EXCEPT ![s].dropped = TRUE]

------------------------------------------------------------------------------
(* event_loop, up to the client loop *)

\* Mutant: the signalfd is emptied at the top of the loop, after the clients.
TopOfLoopDrains ==
  /\ pc = "top"
  /\ running
  /\ cache' = IF cache_clear_requested THEN cache_clear ELSE cache
  /\ flushed' = IF cache_clear_requested THEN signalled ELSE flushed
  /\ cache_clear_requested' = FALSE
  /\ sigq' = FALSE
  /\ pc' = "enter"
  /\ UNCHANGED <<i, rfds, wfds, clients, heap, files_open, running, inflight, backlog, conn,
                 version, signalled, closes, signals, interrupts, short>>

\* Mutant: the request to clear the cache is not reset.
TopOfLoopNoReset ==
  /\ pc = "top"
  /\ running
  /\ cache' = IF cache_clear_requested THEN cache_clear ELSE cache
  /\ flushed' = IF cache_clear_requested THEN signalled ELSE flushed
  /\ pc' = "enter"
  /\ UNCHANGED <<i, rfds, wfds, clients, heap, files_open, flagVars, kernelVars, conn,
                 version, signalled, closes, signals, interrupts, short>>

\* while (running), then the pending cache_clear().
TopOfLoop ==
  /\ pc = "top"
  /\ running
  /\ cache' = IF cache_clear_requested THEN cache_clear ELSE cache
  /\ flushed' = IF cache_clear_requested THEN signalled ELSE flushed
  /\ cache_clear_requested' = FALSE
  /\ pc' = "enter"
  /\ UNCHANGED <<i, rfds, wfds, clients, heap, files_open, running, kernelVars, conn,
                 version, signalled, closes, signals, interrupts, short>>

\* The loop ends; main closes every socket and clears the cache.
Shutdown ==
  /\ pc = "top"
  /\ ~running
  /\ pc' = "exit"
  /\ cache' = cache_clear
  /\ conn' = [s \in Conns |->
                IF \E k \in DOMAIN clients : clients[k].sock = s
                THEN [conn[s] EXCEPT !.phase = "closed"] ELSE conn[s]]
  /\ UNCHANGED <<i, rfds, wfds, clients, heap, files_open, flagVars, kernelVars, envVars>>

\* The sets are built and select() is called: only now does a signal interrupt it.
EnterSelect ==
  /\ pc = "enter"
  /\ pc' = "select"
  /\ UNCHANGED <<i, rfds, wfds, clients, heap, cache, files_open, flagVars, kernelVars,
                 conn, envVars>>

Socks == {clients[k].sock : k \in DOMAIN clients}

ReadyRead ==
  [listen |-> backlog # <<>>, aio |-> sigq, socks |-> {s \in Socks : Readable(s)}]

ReadyWrite ==
  {clients[k].sock : k \in {k \in DOMAIN clients :
     clients[k].state \in {"WRITING", "SENDFILE"} /\ Writable(clients[k].sock)}}

SelectReturn ==
  /\ pc = "select"
  /\ ReadyRead # NoFds \/ ReadyWrite # {}
  /\ rfds' = ReadyRead
  /\ wfds' = ReadyWrite
  /\ pc' = "drain"
  /\ UNCHANGED <<i, clients, heap, cache, files_open, flagVars, kernelVars, conn, envVars>>

\* The queued AIO_DONE_SIGs are read before any aio_error() is looked at.
DrainSignals ==
  /\ pc = "drain"
  /\ sigq' = (sigq /\ ~rfds.aio)
  /\ pc' = "accept"
  /\ UNCHANGED <<i, rfds, wfds, clients, heap, cache, files_open, flagVars, inflight, backlog,
                 conn, envVars>>

\* Start of the backward loop over n clients, or its end.
GoTo(k) ==
  /\ i' = k
  /\ IF k = 0 THEN pc' = "top" /\ rfds' = NoFds /\ wfds' = {}
              ELSE pc' = "client" /\ UNCHANGED <<rfds, wfds>>

Advance == GoTo(i - 1)

\* accept() until the queue is empty or the table full.
AcceptClients ==
  /\ pc = "accept"
  /\ LET n == IF rfds.listen THEN MinOf(MAX_CLIENTS - Len(clients), Len(backlog)) ELSE 0
     IN /\ clients' = clients \o [k \in 1..n |-> NewClient(backlog[k])]
        /\ conn' = [s \in Conns |-> IF \E k \in 1..n : backlog[k] = s
                                    THEN [conn[s] EXCEPT !.phase = "open"] ELSE conn[s]]
        /\ backlog' = SubSeq(backlog, n + 1, Len(backlog))
  /\ GoTo(Len(clients'))
  /\ UNCHANGED <<heap, cache, files_open, flagVars, inflight, sigq, envVars>>

------------------------------------------------------------------------------
(* remove_client *)

c == clients[i]

\* Mutant: the count is decremented, but the last client is not moved.
SwapRemoveTruncate(k) == SubSeq(clients, 1, Len(clients) - 1)

\* clients[i] = clients[--num_clients]: the last slot is copied, its aiocb included.
SwapRemove(k) == SubSeq([clients EXCEPT ![k] = clients[Len(clients)]], 1, Len(clients) - 1)

\* Mutant: the response is not freed.
FreedNot(b) == heap

\* free(b), which may be NULL.
Freed(b) == IF b = NULL THEN heap ELSE [heap EXCEPT ![b] = NULL]

\* From free(c->resp) on, after the source file of the client is closed.
FinishRemove ==
  /\ files_open' = files_open - (IF c.state \in {"AIO", "SENDFILE"} THEN 1 ELSE 0)
  /\ heap' = Freed(c.resp)
  /\ conn' = [conn EXCEPT ![c.sock].phase = "closed"]
  /\ clients' = SwapRemove(i)
  /\ Advance
  /\ UNCHANGED <<cache, flagVars, backlog, envVars>>

\* The request aio_cancel(c->file_fd, &c->aio) finds: same descriptor, same address.
Cancellable == {r \in inflight : r.cb = i /\ r.owner = c.sock}

\* Mutant: an in-flight read is left alone.
RemoveNoCancel == FinishRemove /\ UNCHANGED <<inflight, sigq>>

\* Mutant: the spin is left only on success.
StillReadingOrFailed == c.aio # "ok"

\* aio_error(&c->aio) == EINPROGRESS
StillReading == c.aio = "EINPROGRESS"

\* An in-flight read is cancelled, or waited for in a spin on aio_error().
remove_client ==
  \/ /\ ~(c.state = "AIO" /\ StillReading)
     /\ FinishRemove
     /\ UNCHANGED <<inflight, sigq>>
  \/ /\ c.state = "AIO" /\ StillReading
     /\ Cancellable # {}
     /\ inflight' = inflight \ Cancellable
     /\ sigq' = TRUE
     /\ FinishRemove
  \/ /\ c.state = "AIO" /\ StillReading
     /\ pc' = "spin"
     /\ UNCHANGED <<i, rfds, wfds, clients, heap, cache, files_open, flagVars, kernelVars,
                    conn, envVars>>

\* while (aio_error(&c->aio) == EINPROGRESS) ;
Spin ==
  /\ pc = "spin"
  /\ StillReading
  /\ UNCHANGED vars

SpinEnds ==
  /\ pc = "spin"
  /\ ~StillReading
  /\ FinishRemove
  /\ UNCHANGED <<inflight, sigq>>

------------------------------------------------------------------------------
(* The client loop: at most one of these, in this order, for each client *)

\* The MSG_PEEK probe of a client that is not reading sees the end of the stream.
Gone == c.sock \in rfds.socks /\ c.state # "READING" /\ Eof(c.sock)

RemoveGone ==
  /\ pc = "client"
  /\ Gone
  /\ remove_client

SetClient(rec) == clients' = [clients EXCEPT ![i] = rec]

\* Mutant: a failed read is taken for a complete one.
AioErrorIgnored == IF c.aio = "error" THEN "ok" ELSE c.aio

\* What check_aio gets from aio_error(&c->aio).
AioError == c.aio

\* check_aio: still in progress.
CheckAioPending ==
  /\ pc = "client" /\ ~Gone
  /\ c.state = "AIO" /\ AioError = "EINPROGRESS"
  /\ Advance
  /\ UNCHANGED <<clients, heap, cache, files_open, flagVars, kernelVars, conn, envVars>>

\* check_aio: the read failed.  The client is READING again in the same pass.
CheckAioError ==
  /\ pc = "client" /\ ~Gone
  /\ c.state = "AIO" /\ AioError = "error"
  /\ files_open' = files_open - 1
  /\ heap' = Freed(c.resp)
  /\ SetClient([c EXCEPT !.resp = NULL, !.state = "READING"])
  /\ conn' = sock_send(conn, c.sock, Err)
  /\ IF c.sock \in rfds.socks THEN pc' = "read" /\ UNCHANGED <<i, rfds, wfds>> ELSE Advance
  /\ UNCHANGED <<cache, flagVars, kernelVars, envVars>>

\* check_aio: a copy of the response is cached and the response is sent next.
CheckAioDone ==
  /\ pc = "client" /\ ~Gone
  /\ c.state = "AIO" /\ AioError = "ok"
  /\ files_open' = files_open - 1
  /\ \/ cache' = cache_insert(cache, c.cache_key, heap[c.resp], MAX_CACHE_ENTRIES)
     \/ Faults /\ UNCHANGED cache        \* malloc of the copy failed
  /\ SetClient([c EXCEPT !.state = "WRITING"])
  /\ Advance
  /\ UNCHANGED <<heap, flagVars, kernelVars, conn, envVars>>

\* read() into the free space of req_buf, of which one byte is kept for the NUL.
ReadRequest ==
  /\ \/ pc = "read"
     \/ pc = "client" /\ c.state = "READING" /\ c.sock \in rfds.socks
  /\ LET inq == conn[c.sock].inq
         n   == MinOf(REQ_BUF_SIZE - 1 - Len(c.req_buf), Len(inq))
     IN IF n = 0
        THEN remove_client
        ELSE /\ SetClient([c EXCEPT !.req_buf = @ \o SubSeq(inq, 1, n)])
             /\ conn' = [conn EXCEPT ![c.sock].inq = SubSeq(inq, n + 1, Len(inq))]
             /\ pc' = "line"
             /\ UNCHANGED <<i, rfds, wfds, heap, cache, files_open, flagVars, kernelVars, envVars>>

\* The name in the first complete line of req_buf, and what follows the line.
Requested == RequestIn(c.req_buf)
Remaining == RestOf(c.req_buf)

\* begin_file_serve is called for the first line, which is then consumed.
Serving == pc = "line" /\ c.state = "READING" /\ HasLine(c.req_buf)

FreeBufs == {b \in BufIds : heap[b] = NULL}

\* A bad path, or a failure of stat, open, malloc or aio_read: "-ERR ..." is sent.
\* What the failed call leaves in cache_key and resp_sent is overwritten before it is read.
ServeError ==
  /\ Serving
  /\ Requested \notin Files \/ Faults
  /\ conn' = sock_send(conn, c.sock, Err)
  /\ SetClient([c EXCEPT !.req_buf = Remaining])
  /\ UNCHANGED <<pc, i, rfds, wfds, heap, cache, files_open, flagVars, kernelVars, envVars>>

\* The client with a new response buffer, its request consumed.
WithResponse(b) ==
  [c EXCEPT !.req_buf = Remaining, !.cache_key = Requested, !.resp = b, !.resp_sent = 0]

ServeCached ==
  /\ Serving
  /\ Requested \in Keys(cache)
  /\ \E b \in FreeBufs :
       /\ heap' = [heap EXCEPT ![b] = cache_lookup(cache, Requested)]
       /\ SetClient([WithResponse(b) EXCEPT !.state = "WRITING"])
  /\ UNCHANGED <<pc, i, rfds, wfds, cache, files_open, flagVars, kernelVars, conn, envVars>>

\* A cached name goes to the disk only when the copy cannot be allocated.
Uncached == Requested \in Files /\ (Requested \notin Keys(cache) \/ Faults)

ServeLarge ==
  /\ Serving
  /\ Uncached /\ Requested \in LargeFiles
  /\ conn' = sock_send(conn, c.sock, Hdr(Requested))
  /\ files_open' = files_open + 1
  /\ SetClient([c EXCEPT !.req_buf = Remaining, !.cache_key = Requested,
                         !.sf_remaining = BodyUnits(Requested), !.state = "SENDFILE"])
  /\ UNCHANGED <<pc, i, rfds, wfds, heap, cache, flagVars, kernelVars, envVars>>

\* aio_read() on the aiocb in this slot, into a buffer malloc does not clear.
ServeSmall ==
  /\ Serving
  /\ Uncached /\ Requested \notin LargeFiles
  /\ \E b \in FreeBufs :
       /\ heap' = [heap EXCEPT ![b] = Uninit]
       /\ inflight' = inflight \cup {[cb |-> i, owner |-> c.sock, buf |-> b, file |-> Requested]}
       /\ SetClient([WithResponse(b) EXCEPT !.aio = "EINPROGRESS", !.state = "AIO"])
  /\ files_open' = files_open + 1
  /\ UNCHANGED <<pc, i, rfds, wfds, cache, flagVars, sigq, backlog, conn, envVars>>

\* Mutant: the limit is off by one.
BufferFullLate == Len(c.req_buf) >= REQ_BUF_SIZE

\* A line too long for the buffer.
BufferFull == Len(c.req_buf) >= REQ_BUF_SIZE - 1

\* The loop over lines ends: none is left, or a response is under way.
LinesDone ==
  /\ pc = "line"
  /\ c.state # "READING" \/ ~HasLine(c.req_buf)
  /\ IF BufferFull
     THEN remove_client
     ELSE /\ Advance
          /\ UNCHANGED <<clients, heap, cache, files_open, flagVars, kernelVars, conn, envVars>>

\* A write to a closed peer may fail (EPIPE, ECONNRESET): the client is removed.
SendFails ==
  /\ pc = "client" /\ ~Gone
  /\ c.state \in {"WRITING", "SENDFILE"} /\ c.sock \in wfds
  /\ conn[c.sock].fin
  /\ remove_client

\* Mutant: the part that has been sent is sent again.
RestFromStart(resp) == resp

\* c->resp + c->resp_sent
Rest(resp) == SubSeq(resp, c.resp_sent + 1, Len(resp))

\* STATE_WRITING: as much of the rest of the response as the socket takes.
WriteResponse ==
  /\ pc = "client" /\ ~Gone
  /\ c.state = "WRITING" /\ c.sock \in wfds
  /\ LET rest == Rest(<<Hdr(c.cache_key), Body(c.cache_key, heap[c.resp])>>)
         n    == Accepted(c.sock, rest)
         done == n = Len(rest)
     IN /\ conn' = Deliver(conn, c.sock, SubSeq(rest, 1, n))
        /\ heap' = IF done THEN Freed(c.resp) ELSE heap
        /\ SetClient(IF done THEN [c EXCEPT !.resp_sent = @ + n, !.resp = NULL, !.state = "READING"]
                             ELSE [c EXCEPT !.resp_sent = @ + n])
  /\ Advance
  /\ UNCHANGED <<cache, files_open, flagVars, kernelVars, envVars>>

\* Mutant: one sendfile() is taken to send the whole file.
SentAllAlways(n) == TRUE

\* sf_remaining has reached 0.
SentAll(n) == n = c.sf_remaining

\* STATE_SENDFILE: likewise, straight from the file as it is now.
SendFile ==
  /\ pc = "client" /\ ~Gone
  /\ c.state = "SENDFILE" /\ c.sock \in wfds
  /\ LET rest == [k \in 1..c.sf_remaining |-> Body(c.cache_key, version[c.cache_key])]
         n    == Accepted(c.sock, rest)
         done == SentAll(n)
     IN /\ conn' = Deliver(conn, c.sock, SubSeq(rest, 1, n))
        /\ files_open' = files_open - (IF done THEN 1 ELSE 0)
        /\ SetClient([c EXCEPT !.sf_remaining = @ - n,
                               !.state = IF done THEN "READING" ELSE "SENDFILE"])
  /\ Advance
  /\ UNCHANGED <<heap, cache, flagVars, kernelVars, envVars>>

\* sendfile() at the end of a file that has been truncated returns 0: sf_remaining
\* stays, and the next pass tries again.
SendFileShort ==
  /\ pc = "client" /\ ~Gone
  /\ c.state = "SENDFILE" /\ c.sock \in wfds /\ Faults
  /\ short' = short \cup {c.cache_key}
  /\ Advance
  /\ UNCHANGED <<clients, heap, cache, files_open, flagVars, kernelVars, conn,
                 version, signalled, flushed, closes, signals, interrupts>>

\* Nothing to do for this client in this pass.
SkipClient ==
  /\ pc = "client" /\ ~Gone
  /\ \/ c.state = "READING" /\ c.sock \notin rfds.socks
     \/ c.state \in {"WRITING", "SENDFILE"} /\ c.sock \notin wfds
  /\ Advance
  /\ UNCHANGED <<clients, heap, cache, files_open, flagVars, kernelVars, conn, envVars>>

ServerStep ==
  \/ TopOfLoop \/ Shutdown \/ EnterSelect \/ SelectReturn \/ DrainSignals \/ AcceptClients
  \/ RemoveGone \/ SpinEnds
  \/ CheckAioPending \/ CheckAioError \/ CheckAioDone
  \/ ReadRequest \/ ServeError \/ ServeCached \/ ServeLarge \/ ServeSmall \/ LinesDone
  \/ SendFails \/ WriteResponse \/ SendFile \/ SendFileShort \/ SkipClient

------------------------------------------------------------------------------
(* glibc's AIO thread (external) *)

\* The bytes go to the buffer and the error code to the aiocb at the addresses
\* given to aio_read(), whatever is there now.  The read of a truncated file
\* succeeds without having filled the buffer.
AioComplete(r) ==
  /\ pc # "exit"
  /\ \E res \in IF Faults THEN {"whole", "short", "error"} ELSE {"whole"} :
       /\ heap' = IF res = "whole" /\ heap[r.buf] # NULL
                  THEN [heap EXCEPT ![r.buf] = version[r.file]] ELSE heap
       /\ clients' = IF r.cb \in DOMAIN clients
                     THEN [clients EXCEPT ![r.cb].aio = IF res = "error" THEN "error" ELSE "ok"]
                     ELSE clients
       /\ short' = IF res = "short" THEN short \cup {r.file} ELSE short
  /\ inflight' = inflight \ {r}
  /\ sigq' = TRUE
  /\ UNCHANGED <<pc, i, rfds, wfds, cache, files_open, flagVars, backlog, conn,
                 version, signalled, flushed, closes, signals, interrupts>>

------------------------------------------------------------------------------
(* Signals *)

\* A handler sets its flag; a blocked select() returns EINTR and the loop continues.
Interrupt == pc' = IF pc = "select" THEN "top" ELSE pc

handle_sigint ==
  /\ interrupts < MaxInterrupts /\ pc # "exit"
  /\ running' = FALSE
  /\ interrupts' = interrupts + 1
  /\ Interrupt
  /\ UNCHANGED <<i, rfds, wfds, clients, heap, cache, files_open, cache_clear_requested,
                 kernelVars, conn, version, signalled, flushed, closes, signals, short>>

handle_sigusr1 ==
  /\ signals < MaxSignals /\ pc # "exit"
  /\ cache_clear_requested' = TRUE
  /\ signals' = signals + 1
  /\ signalled' = version
  /\ Interrupt
  /\ UNCHANGED <<i, rfds, wfds, clients, heap, cache, files_open, running, kernelVars, conn,
                 version, flushed, closes, interrupts, short>>

------------------------------------------------------------------------------
\* The server listens until it exits; the listen socket then is closed.
Surroundings ==
  /\ \/ ClientStep
     \/ pc # "exit" /\ \E s \in Conns : Connect(s)
  /\ UNCHANGED ownVars

\* Blocked in select() until something happens, spinning, or gone.
Idle ==
  /\ \/ pc = "select" /\ ReadyRead = NoFds /\ ReadyWrite = {} /\ inflight = {}
     \/ pc = "exit"
  /\ UNCHANGED vars

Next ==
  \/ ServerStep \/ Spin \/ Idle
  \/ \E r \in inflight : AioComplete(r)
  \/ handle_sigint \/ handle_sigusr1 \/ Surroundings

Spec == Init /\ [][Next]_vars

\* The process is scheduled, AIO requests complete, and clients read what they are sent.
FairSpec ==
  /\ Spec
  /\ WF_vars(ServerStep)
  /\ \A s \in Conns : WF_vars(\E r \in inflight : r.owner = s /\ AioComplete(r))
  /\ \A s \in Conns : WF_vars(ClientRead(s) /\ UNCHANGED ownVars)

------------------------------------------------------------------------------
(* Properties *)

TypeOK ==
  /\ pc \in {"top", "enter", "select", "drain", "accept", "client", "read", "line", "spin", "exit"}
  /\ i \in 0..Len(clients)
  /\ Len(clients) <= MAX_CLIENTS
  /\ \A k \in DOMAIN clients :
       /\ clients[k].state \in {"READING", "AIO", "WRITING", "SENDFILE"}
       /\ clients[k].aio \in {"ok", "error", "EINPROGRESS"}
       /\ clients[k].resp \in BufIds \cup {NULL}
  /\ inflight \subseteq [cb : 1..MAX_CLIENTS, owner : Conns, buf : BufIds, file : Files]
  /\ \A s \in Conns : conn[s].unread \in 0..SockCap

\* The table holds every connection the server has accepted and not closed, each
\* once, through any interleaving of accepts and swap-removes.
TableOK ==
  /\ TypeOK
  /\ \A j, k \in DOMAIN clients : clients[j].sock = clients[k].sock => j = k
  /\ pc # "exit" => Socks = {s \in Conns : conn[s].phase = "open"}

\* Every response buffer belongs to exactly one client, which sends it or waits for
\* its read, and every open file to one client in STATE_AIO or STATE_SENDFILE:
\* no path through the handlers leaks a buffer or a descriptor or frees it twice.
ResourcesOwned ==
  /\ {b \in BufIds : heap[b] # NULL} = {clients[k].resp : k \in DOMAIN clients} \ {NULL}
  /\ \A j, k \in DOMAIN clients : clients[j].resp = clients[k].resp /\ clients[j].resp # NULL => j = k
  /\ \A k \in DOMAIN clients :
       clients[k].resp # NULL <=> clients[k].state \in {"AIO", "WRITING"}
  /\ files_open = Cardinality({k \in DOMAIN clients : clients[k].state \in {"AIO", "SENDFILE"}})

\* The cache never outgrows its array and holds a path at most once.
CacheOK ==
  /\ Len(cache) <= MAX_CACHE_ENTRIES
  /\ \A j, k \in DOMAIN cache : cache[j].key = cache[k].key => j = k

\* read() is never called with no room left in req_buf, so that a result of 0 is
\* the end of the stream and not a full buffer.
RoomToRead ==
  \A k \in DOMAIN clients :
    (pc # "line" \/ k # i) => Len(clients[k].req_buf) < REQ_BUF_SIZE - 1

\* When the loop blocks in select(), a completed read that check_aio has not seen
\* is announced by the signalfd: draining it first loses no completion.
NoLostCompletion ==
  \A k \in DOMAIN clients :
    pc = "select" /\ clients[k].state = "AIO" /\ clients[k].aio # "EINPROGRESS" => sigq

\* An AIO request in flight is that of the client in the slot its aiocb is in, and
\* reads into that client's buffer: a removed client leaves none behind.
InflightOwned ==
  \A r \in inflight :
    /\ r.cb \in DOMAIN clients
    /\ clients[r.cb].sock = r.owner /\ clients[r.cb].resp = r.buf
    /\ clients[r.cb].state = "AIO" /\ clients[r.cb].aio = "EINPROGRESS"

\* A client is sent, and the cache keeps, only bytes a completed read has filled,
\* unless the file was truncated between stat() and the read.
OnlyCompletedReads ==
  /\ \A k \in DOMAIN cache : cache[k].resp = Uninit => cache[k].key \in short
  /\ \A k \in DOMAIN clients :
       clients[k].state = "WRITING" /\ heap[clients[k].resp] = Uninit => clients[k].cache_key \in short

\* A complete line lies in req_buf while the loop waits for the client to send more.
Stalled(s) ==
  \E k \in DOMAIN clients :
    clients[k].sock = s /\ clients[k].state = "READING" /\ HasLine(clients[k].req_buf) /\ pc = "select"

\* Every request is answered, also one sent before the last answer has come, with
\* three exceptions and no other: a line that came with an earlier one is left in
\* req_buf when the answer to that one is complete, an answer did not fit the socket
\* buffer, or the file was truncated.
AnsweredUnlessStalled ==
  \A s \in Conns :
    Unanswered(s) ~> \/ ~Unanswered(s)
                     \/ Stalled(s)
                     \/ conn[s].dropped
                     \/ Head(conn[s].pending).name \in short

\* A flush is carried out before select() is called again, unless the signal came
\* between the test of cache_clear_requested and select(): then once select() returns.
FlushAtNextPass ==
  (cache_clear_requested /\ pc \notin {"enter", "select"}) ~> (~cache_clear_requested \/ pc = "exit")
==============================================================================
