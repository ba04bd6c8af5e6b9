------------------------------ MODULE TimeServer ------------------------------
(***************************************************************************)
(* The time servers: select-server.c, which answers every line of up to    *)
(* MAX_CLIENTS clients with the time, and tcp-time-server.c, which answers *)
(* every connection and closes it ("sequential").  An answer is one line,  *)
(* here the unit Err of FileClients.                                       *)
(*                                                                         *)
(* Both are built with -std=c11 and without _GNU_SOURCE, so signal()       *)
(* installs a handler for one signal only: a second SIGINT kills.  Neither *)
(* ignores SIGPIPE.                                                        *)
(***************************************************************************)
EXTENDS FileClients

CONSTANTS MAX_CLIENTS,
          REQ_BUF_SIZE,
          MaxInterrupts       \* bound on SIGINT

TimeAssumption ==
  MAX_CLIENTS \in Nat \ {0} /\ REQ_BUF_SIZE \in Nat /\ REQ_BUF_SIZE > 2 /\ MaxInterrupts \in Nat

VARIABLES
  sequential,             \* which of the two programs runs
  pc,                     \* where its loop is
  i,                      \* the client slot being processed
  rfds,                   \* read_fds as select() returned it
  clients,                \* clients[1..num_clients]
  running,
  refused,                \* closed connections that have been written to
  interrupts,             \* SIGINTs so far
  missed                  \* SIGINT came between the test of running and the call

ownVars == <<sequential, pc, i, rfds, clients, running, refused, interrupts, missed>>
fileVars == <<version, signalled, flushed, closes>>
vars == <<ownVars, clientVars>>

NoFds == [listen |-> FALSE, socks |-> {}]
Stopped == pc \in {"exit", "killed"}

Init ==
  /\ sequential \in BOOLEAN
  /\ pc = "top" /\ i = 0 /\ rfds = NoFds /\ clients = <<>>
  /\ running = TRUE /\ refused = {} /\ interrupts = 0 /\ missed = FALSE
  /\ ClientsInit

\* The process ends, and with it its table.
End(how) ==
  /\ pc' = how
  /\ i' = 0 /\ rfds' = NoFds /\ clients' = <<>> /\ refused' = {}
  /\ Hangup
  /\ UNCHANGED <<sequential, fileVars>>

------------------------------------------------------------------------------
(* Writing to a socket; s is the connection of the client being served *)

\* The socket takes the answer.  A peer that has closed drops it and sends a reset.
Write(s) ==
  /\ Writable(s)
  /\ conn' = Deliver(conn, s, <<Err>>)
  /\ refused' = IF conn[s].fin THEN refused \cup {s} ELSE refused

\* ECONNRESET, or EINTR when SIGINT has interrupted a write that blocked.
WriteFails(s) == conn[s].fin \/ pc = "eintr"

\* The reset has arrived: write() raises SIGPIPE, which nobody handles.
KilledBySigpipe(s) ==
  /\ s \in refused
  /\ End("killed")
  /\ UNCHANGED <<running, interrupts, missed>>

------------------------------------------------------------------------------
(* Both loops *)

TopOfLoop ==
  /\ pc = "top" /\ running
  /\ pc' = "enter"
  /\ UNCHANGED <<sequential, i, rfds, clients, running, refused, interrupts, missed, clientVars>>

\* The loop ends, and all sockets are closed.
Exit ==
  /\ pc = "top" /\ ~running
  /\ End("exit")
  /\ UNCHANGED <<running, interrupts, missed>>

\* select() or accept() is called: only now does a signal interrupt it.
EnterCall ==
  /\ pc = "enter"
  /\ pc' = "wait"
  /\ UNCHANGED <<sequential, i, rfds, clients, running, refused, interrupts, missed, clientVars>>

------------------------------------------------------------------------------
(* tcp-time-server.c *)

AcceptOne ==
  /\ pc = "wait" /\ sequential /\ backlog # <<>>
  /\ clients' = <<[sock |-> Head(backlog), buf |-> <<>>]>>
  /\ conn' = [conn EXCEPT ![Head(backlog)].phase = "open"]
  /\ backlog' = Tail(backlog)
  /\ pc' = "serve"
  /\ UNCHANGED <<sequential, i, rfds, running, refused, interrupts, missed, fileVars>>

\* serve_connection, of which a failed write is only reported, then close().
serve_connection ==
  LET s == clients[1].sock
  IN /\ pc \in {"serve", "eintr"} /\ sequential
     /\ \/ pc = "serve" /\ Write(s)
        \/ WriteFails(s) /\ UNCHANGED <<conn, refused>>
     /\ pc' = "close"
     /\ UNCHANGED <<sequential, i, rfds, clients, running, interrupts, missed, backlog, fileVars>>

Close ==
  /\ pc = "close"
  /\ conn' = [conn EXCEPT ![clients[1].sock].phase = "closed"]
  /\ clients' = <<>>
  /\ pc' = "top"
  /\ UNCHANGED <<sequential, i, rfds, running, refused, interrupts, missed, backlog, fileVars>>

------------------------------------------------------------------------------
(* select-server.c *)

Socks == {clients[k].sock : k \in DOMAIN clients}
ReadyRead == [listen |-> backlog # <<>>, socks |-> {s \in Socks : Readable(s)}]

SelectReturn ==
  /\ pc = "wait" /\ ~sequential
  /\ ReadyRead # NoFds
  /\ rfds' = ReadyRead
  /\ pc' = "accept"
  /\ UNCHANGED <<sequential, i, clients, running, refused, interrupts, missed, clientVars>>

\* The backward loop goes on at slot k, or ends.
GoTo(k) ==
  /\ i' = k
  /\ IF k = 0 THEN pc' = "top" /\ rfds' = NoFds ELSE pc' = "client" /\ UNCHANGED rfds

\* How many of the waiting connections get a slot.
Room(waiting) == MinOf(MAX_CLIENTS - Len(clients), Len(waiting))

\* accept() until the queue is empty; add_client closes what finds the table full.
AcceptAll ==
  /\ pc = "accept"
  /\ LET waiting == IF rfds.listen THEN backlog ELSE <<>>
         n       == Room(waiting)
         added   == {waiting[k] : k \in 1..n}
         closed  == {waiting[k] : k \in (n + 1)..Len(waiting)}
     IN /\ clients' = clients \o [k \in 1..n |-> [sock |-> waiting[k], buf |-> <<>>]]
        /\ conn' = [s \in Conns |->
                      IF s \in added THEN [conn[s] EXCEPT !.phase = "open"]
                      ELSE IF s \in closed THEN [conn[s] EXCEPT !.phase = "closed"] ELSE conn[s]]
        /\ backlog' = SubSeq(backlog, Len(waiting) + 1, Len(backlog))
  /\ GoTo(Len(clients'))
  /\ UNCHANGED <<sequential, running, refused, interrupts, missed, fileVars>>

c == clients[i]

\* Mutant: the count is decremented, but the last client is not moved.
SwapRemoveTruncate(k) == SubSeq(clients, 1, Len(clients) - 1)

\* clients[i] = clients[--num_clients]
SwapRemove(k) == SubSeq([clients EXCEPT ![k] = clients[Len(clients)]], 1, Len(clients) - 1)

remove_client ==
  /\ conn' = [conn EXCEPT ![c.sock].phase = "closed"]
  /\ clients' = SwapRemove(i)
  /\ GoTo(i - 1)
  /\ UNCHANGED <<sequential, running, refused, interrupts, missed, backlog, fileVars>>

SkipClient ==
  /\ pc = "client" /\ c.sock \notin rfds.socks
  /\ GoTo(i - 1)
  /\ UNCHANGED <<sequential, clients, running, refused, interrupts, missed, clientVars>>

\* read() into the free space of buf, of which one byte is kept free.  It finds the
\* end of the stream, bytes, or that the peer has reset the connection.
ReadRequest ==
  /\ pc = "client" /\ c.sock \in rfds.socks
  /\ LET inq == conn[c.sock].inq
         n   == MinOf(REQ_BUF_SIZE - 1 - Len(c.buf), Len(inq))
     IN \/ (n = 0 \/ conn[c.sock].fin) /\ remove_client
        \/ /\ n > 0
           /\ clients' = [clients EXCEPT ![i].buf = @ \o SubSeq(inq, 1, n)]
           /\ conn' = [conn EXCEPT ![c.sock].inq = SubSeq(inq, n + 1, Len(inq))]
           /\ pc' = "line"
           /\ UNCHANGED <<sequential, i, rfds, running, refused, interrupts, missed, backlog, fileVars>>

\* Mutant: the whole buffer is dropped with the first line.
ConsumedAll(buf) == <<>>

\* What is left of the buffer behind the first line.
Consumed(buf) == RestOf(buf)

\* process_client_data, one turn: the line is answered and consumed.
AnswerLine ==
  /\ pc \in {"line", "eintr"} /\ ~sequential /\ HasLine(c.buf)
  /\ \/ /\ pc = "line" /\ Write(c.sock)
        /\ clients' = [clients EXCEPT ![i].buf = Consumed(@)]
        /\ UNCHANGED <<sequential, pc, i, rfds, running, interrupts, missed, backlog, fileVars>>
     \/ WriteFails(c.sock) /\ remove_client
     \/ pc = "line" /\ KilledBySigpipe(c.sock)

\* Mutant: the limit is off by one.
BufferFullLate == Len(c.buf) >= REQ_BUF_SIZE

BufferFull == Len(c.buf) >= REQ_BUF_SIZE - 1

\* No complete line is left; a line too long for the buffer ends the connection.
LinesDone ==
  /\ pc = "line" /\ ~HasLine(c.buf)
  /\ IF BufferFull
     THEN remove_client
     ELSE GoTo(i - 1) /\ UNCHANGED <<sequential, clients, running, refused, interrupts, missed, clientVars>>

ServerStep ==
  \/ TopOfLoop \/ Exit \/ EnterCall
  \/ AcceptOne \/ serve_connection \/ Close
  \/ SelectReturn \/ AcceptAll \/ SkipClient \/ ReadRequest \/ AnswerLine \/ LinesDone

------------------------------------------------------------------------------
InWrite ==
  IF sequential THEN pc = "serve" /\ ~Writable(clients[1].sock)
  ELSE pc = "line" /\ HasLine(c.buf) /\ ~Writable(c.sock)

\* Mutant: select() and accept() are restarted.
InterruptedNot == {pc}

\* What the call in progress makes of SIGINT.  EINTR breaks the loop, as the test of
\* running would; a write fails if it has been called and not just about to be.
Interrupted ==
  IF pc = "wait" THEN {"top"} ELSE IF InWrite THEN {pc, "eintr"} ELSE {pc}

\* The first SIGINT sets the flag, the second has its default effect.
handle_sigint ==
  /\ interrupts < MaxInterrupts /\ ~Stopped
  /\ running' = FALSE
  /\ interrupts' = interrupts + 1
  /\ missed' = (pc = "enter")
  /\ IF interrupts > 0
     THEN End("killed")
     ELSE pc' \in Interrupted /\ UNCHANGED <<sequential, i, rfds, clients, refused, clientVars>>

\* A connection to tcp-time-server.c is a request in itself.
Dial(s) ==
  IF sequential
  THEN /\ conn[s].phase = "new"
       /\ conn' = [conn EXCEPT ![s].phase = "backlog",
                               ![s].pending = <<[name |-> NULL, floor |-> 0]>>]
       /\ backlog' = Append(backlog, s)
       /\ UNCHANGED fileVars
  ELSE Connect(s)

\* Clients of tcp-time-server.c have nothing to send.  What clients do after the
\* process has ended is left out.
Surroundings ==
  /\ ~Stopped
  /\ \/ \E s \in Conns : ClientRead(s) \/ ClientClose(s) \/ Dial(s)
     \/ \E s \in Conns, chunk \in Chunks : ~sequential /\ ClientSend(s, chunk)
  /\ UNCHANGED ownVars

\* Blocked until something happens, or gone.
Idle ==
  /\ Stopped \/ (pc = "wait" /\ ReadyRead = NoFds)
  /\ UNCHANGED vars

Next == ServerStep \/ handle_sigint \/ Surroundings \/ Idle

Spec == Init /\ [][Next]_vars

\* The process is scheduled, and clients read what they are sent.
FairSpec ==
  /\ Spec
  /\ WF_vars(ServerStep)
  /\ \A s \in Conns : WF_vars(ClientRead(s) /\ UNCHANGED ownVars)

------------------------------------------------------------------------------
(* Properties *)

\* The table holds every accepted connection that is open, each once.
TableOK ==
  /\ Len(clients) <= MAX_CLIENTS
  /\ \A j, k \in DOMAIN clients : clients[j].sock = clients[k].sock => j = k
  /\ Socks = {s \in Conns : conn[s].phase = "open"}

\* select-server.c never calls read() with no room left in the buffer, so that a
\* result of 0 is the end of the stream and not a full buffer.
RoomToRead ==
  \A k \in DOMAIN clients : (pc \notin {"line", "eintr"} \/ k # i) => Len(clients[k].buf) < REQ_BUF_SIZE - 1

\* Ctrl-C quits at the end of the pass, unless it comes between the test of running
\* and the call of select() or accept(): then once that call returns.
QuitsAtNextPass == (~running /\ ~(missed /\ pc \in {"enter", "wait"})) ~> Stopped

\* Nothing but a second Ctrl-C kills a server: a client that closes does not.
ClientsNeverKill == pc = "killed" => interrupts > 1
===============================================================================
