------------------------------ MODULE MCServers ------------------------------
(***************************************************************************)
(* The servers that are not a select() loop over files, each with the same *)
(* clients: tokio-file-server, select-server and tcp-time-server.  A       *)
(* behaviour is one of a single server.                                    *)
(***************************************************************************)
EXTENDS TokioFileServer

CONSTANTS MAX_CLIENTS, REQ_BUF_SIZE, MaxInterrupts,
          Active,               \* the clients that do more than connect
          Reading,              \* the clients that read what they are sent
          small, other, large   \* two small files and a large one

VARIABLES timed, sequential, pc, i, rfds, clients, running, refused, interrupts, missed

Ti == INSTANCE TimeServer

ASSUME Ti!TimeAssumption
ASSUME Reading \subseteq Active /\ Active \subseteq Conns

tiVars == <<sequential, pc, i, rfds, clients, running, refused, interrupts, missed>>
allVars == <<timed, tiVars, vars>>

Three == {small, other, large}

\* One request, two in one segment, and a line that overflows the buffer of
\* select-server and that names no file.
RequestsOrOverlong == {<<small, NL>>, <<large, NL, other, NL>>, <<small, small, small, small>>}

ServersInit == timed \in BOOLEAN /\ Init /\ Ti!Init /\ (sequential => timed)

\* Other clients than the active ones only take up a place in a time server's table.
\* Those in Reading do not close; as clients of a time server are alike and one of
\* them closes, this leaves nothing out there.  Of the clients of tokio-file-server,
\* those in Reading leave no line open, and the others ask for one file.
Bounded ==
  /\ \A s \in Conns \ Active : conn[s].sends = 0 /\ ~conn[s].fin /\ (timed \/ conn[s].phase = "new")
  /\ \A s \in Reading : ~conn[s].fin
  /\ timed \/ \A s \in Active : IF s \in Reading THEN conn[s].line = <<>>
                                                  ELSE Len(conn[s].pending) <= 1

ServersNext ==
  /\ UNCHANGED timed
  /\ \/ timed /\ Ti!Next /\ UNCHANGED ownVars
     \/ ~timed /\ Next /\ UNCHANGED tiVars
  /\ Bounded'

\* The servers are scheduled as their own specifications say: the time servers with
\* clients that read, tokio-file-server with some that need not.
ServersSpec ==
  /\ ServersInit /\ [][ServersNext]_allVars
  /\ WF_<<tiVars, conn, backlog>>(timed /\ Ti!ServerStep)
  /\ WF_<<ownVars, conn, backlog>>(~timed /\ MainStep)
  /\ \A s \in Active : WF_<<ownVars, conn>>(~timed /\ TaskStep(s))
  /\ \A s \in Conns : WF_conn((timed \/ s \in Reading) /\ ClientRead(s))

\* The table of select-server, and the one slot of tcp-time-server, hold the accepted
\* connections that are open, each once, and never one with a full buffer, of which
\* read() would return what looks like the end of the stream.
TableOK == timed => Ti!TableOK /\ Ti!RoomToRead

\* Every line sent to select-server and every connection to tcp-time-server is
\* answered, unless the client goes away or is turned away or the server ends.
LinesAnswered == timed => EveryRequestAnswered

\* Ctrl-C ends the event loops at the end of the pass, unless it comes just before
\* select() or accept() is called.
QuitsAtNextPass == timed => Ti!QuitsAtNextPass

\* Nothing but a second Ctrl-C kills a time server: a client that closes does not.
ClientsNeverKill == timed => Ti!ClientsNeverKill

\* tokio-file-server answers every client that reads, whatever the others do.
TokioAnswered == ~timed => ReadersAnswered(Reading)
==============================================================================
