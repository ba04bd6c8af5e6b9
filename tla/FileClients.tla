----------------------------- MODULE FileClients -----------------------------
(***************************************************************************)
(* What surrounds a file server: its clients, the sockets between them and *)
(* the writers of the served files, as the servers under                   *)
(* event-based-concurrency/exercise/ and their tests use them.             *)
(*                                                                         *)
(* A byte stream is a sequence of symbols, where NL is the newline.  What  *)
(* is sent to a client is a sequence of units: the header of a response, a *)
(* part of a file's bytes (with the version of the file they are from), or *)
(* a "-ERR ..." line.                                                      *)
(***************************************************************************)
EXTENDS Naturals, Sequences, SequencesExt

CONSTANTS Conns,              \* connections, each used once
          Files,              \* names that resolve to regular files in docroot
          LargeFiles,         \* those above MAX_CACHE_FILE_SIZE
          NL,                 \* the newline
          Chunks,             \* what a client may send at once
          SockCap,            \* units the send buffer of a socket holds
          MaxSends,           \* bound on the chunks a client sends
          MaxOutstanding,     \* unanswered requests a client allows itself
          MaxCloses,          \* bound on the connections that clients close
          Rewritten,          \* files that are rewritten while they are served
          MaxVersion,         \* bound on the rewrites of a file
          Uninit,             \* the contents of malloc'd bytes no read has filled
          NULL

ASSUME ClientsAssumption ==
  /\ LargeFiles \subseteq Files /\ Rewritten \subseteq Files
  /\ NL \notin Files
  /\ SockCap \in Nat \ {0}

VARIABLES
  conn,                   \* the two ends of each connection
  backlog,                \* connections waiting for accept()
  version,                \* version[f]: how often f has been rewritten
  signalled,              \* signalled[f]: version[f] at the last SIGUSR1
  flushed,                \* flushed[f]: the same for the last SIGUSR1 acted upon
  closes

clientVars == <<conn, backlog, version, signalled, flushed, closes>>

\* A small response is its header and one unit of bytes; a large file is two.
BodyUnits(f) == IF f \in LargeFiles THEN 2 ELSE 1
Hdr(f) == [kind |-> "hdr", file |-> f, ver |-> 0]
Body(f, v) == [kind |-> "body", file |-> f, ver |-> v]
Err == [kind |-> "err", file |-> NULL, ver |-> 0]

MinOf(a, b) == IF a < b THEN a ELSE b

\* conn[s].inq is what the server has not read, unread what the client has not;
\* pending are the client's requests without a complete answer, of the first of
\* which it still misses need units.  ok and fresh record whether all it received
\* fits its requests and is recent enough, dropped whether the server gave up on a
\* header or an error line.
ClientsInit ==
  /\ conn = [s \in Conns |->
       [phase |-> "new", inq |-> <<>>, fin |-> FALSE, unread |-> 0, sends |-> 0, line |-> <<>>,
        pending |-> <<>>, need |-> 0, ok |-> TRUE, fresh |-> TRUE, dropped |-> FALSE]]
  /\ backlog = <<>>
  /\ version = [f \in Files |-> 0]
  /\ signalled = [f \in Files |-> 0]
  /\ flushed = [f \in Files |-> 0]
  /\ closes = 0

------------------------------------------------------------------------------
(* Sockets *)

Space(s) == SockCap - conn[s].unread
Eof(s) == conn[s].fin /\ conn[s].inq = <<>>
Readable(s) == conn[s].fin \/ conn[s].inq # <<>>
Writable(s) == conn[s].fin \/ Space(s) > 0

\* The client takes one unit as the next part of the answer to its first request.
Receive(cn, unit) ==
  LET first == Head(cn.pending)
      last  == unit.kind = "err" \/ (unit.kind = "body" /\ cn.need = 1)
      fits  == /\ cn.ok
               /\ cn.pending # <<>>
               /\ unit.kind = "body" <=> cn.need > 0
               /\ unit.kind # "err" => unit.file = first.name
  IN IF ~fits THEN [cn EXCEPT !.ok = FALSE]
     ELSE [cn EXCEPT
             !.need    = CASE unit.kind = "hdr"  -> BodyUnits(unit.file)
                           [] unit.kind = "body" -> @ - 1
                           [] unit.kind = "err"  -> 0,
             !.fresh   = @ /\ (unit.kind = "body" /\ unit.ver # Uninit => unit.ver >= first.floor),
             !.pending = IF last THEN Tail(@) ELSE @]

\* Units the kernel has taken; those for a peer that has closed are dropped.
Deliver(cn, s, units) ==
  IF cn[s].fin THEN cn
  ELSE [cn EXCEPT ![s] = [FoldLeft(Receive, cn[s], units) EXCEPT !.unread = @ + Len(units)]]

\* The server's process ends, and the kernel closes its ends of all connections.
Hangup ==
  /\ conn' = [s \in Conns |->
                IF conn[s].phase = "new" THEN conn[s]
                ELSE [conn[s] EXCEPT !.phase = "closed", !.inq = <<>>]]
  /\ backlog' = <<>>

------------------------------------------------------------------------------
(* Requests *)

\* The first complete line of a buffer, and the name in it: only the lines of one
\* symbol name a file.
HasLine(buf) == \E k \in DOMAIN buf : buf[k] = NL
LineEnd(buf) == CHOOSE k \in DOMAIN buf : buf[k] = NL /\ \A l \in 1..(k-1) : buf[l] # NL
NameOf(line) == IF Len(line) = 1 THEN line[1] ELSE NULL

RequestIn(buf) == NameOf(SubSeq(buf, 1, LineEnd(buf) - 1))
RestOf(buf) == SubSeq(buf, LineEnd(buf) + 1, Len(buf))

------------------------------------------------------------------------------
(* Clients *)

Connect(s) ==
  /\ conn[s].phase = "new"
  /\ conn' = [conn EXCEPT ![s].phase = "backlog"]
  /\ backlog' = Append(backlog, s)
  /\ UNCHANGED <<version, signalled, flushed, closes>>

\* The requests completed by what a client sends, and the line it leaves open.
Split(acc, x) ==
  IF x # NL THEN [acc EXCEPT !.line = Append(@, x)]
  ELSE LET name == NameOf(acc.line)
       IN [line |-> <<>>,
           pending |-> Append(acc.pending, [name  |-> name,
                                            floor |-> IF name \in Files THEN flushed[name] ELSE 0])]

\* A client sends a chunk of bytes.  The floor of a request is the version its
\* file had at the last SIGUSR1 the server has acted upon.  An answer it has not
\* read is outstanding to the client.
ClientSend(s, chunk) ==
  /\ conn[s].phase \in {"backlog", "open"} /\ ~conn[s].fin
  /\ conn[s].sends < MaxSends
  /\ Len(conn[s].pending) + (IF conn[s].unread > 0 THEN 1 ELSE 0) < MaxOutstanding
  /\ LET sp == FoldLeft(Split, [line |-> conn[s].line, pending |-> conn[s].pending], chunk)
     IN conn' = [conn EXCEPT ![s].inq = @ \o chunk, ![s].sends = @ + 1,
                             ![s].line = sp.line, ![s].pending = sp.pending]
  /\ UNCHANGED <<backlog, version, signalled, flushed, closes>>

ClientRead(s) ==
  /\ conn[s].unread > 0
  /\ conn' = [conn EXCEPT ![s].unread = 0]
  /\ UNCHANGED <<backlog, version, signalled, flushed, closes>>

\* close() at the client: the server sees the end of the stream.
ClientClose(s) ==
  /\ closes < MaxCloses
  /\ conn[s].phase \in {"backlog", "open"} /\ ~conn[s].fin
  /\ conn' = [conn EXCEPT ![s].fin = TRUE, ![s].unread = 0]
  /\ closes' = closes + 1
  /\ UNCHANGED <<backlog, version, signalled, flushed>>

Rewrite(f) ==
  /\ version[f] < MaxVersion
  /\ version' = [version EXCEPT ![f] = @ + 1]
  /\ UNCHANGED <<conn, backlog, signalled, flushed, closes>>

ClientStep ==
  \/ \E s \in Conns : \/ ClientRead(s) \/ ClientClose(s)
                      \/ \E chunk \in Chunks : ClientSend(s, chunk)
  \/ \E f \in Rewritten : Rewrite(f)

------------------------------------------------------------------------------
(* Properties of a server, as its clients see them *)

\* What a client receives is the answers to its requests, in their order, each
\* whole: a header for the file it asked for and then that file's bytes, or -ERR.
Framing == \A s \in Conns : conn[s].ok

\* A request sent after the server has cleared its cache for a SIGUSR1 is not
\* answered from the file as it was before that signal.
FreshAfterFlush == \A s \in Conns : conn[s].fresh

Unanswered(s) ==
  conn[s].phase \in {"backlog", "open"} /\ ~conn[s].fin /\ conn[s].pending # <<>>

\* Every request is answered, unless the client goes away or is disconnected.
EveryRequestAnswered == \A s \in Conns : Unanswered(s) ~> ~Unanswered(s)
==============================================================================
