-------------------------------- MODULE Ipc --------------------------------
(***************************************************************************)
(* The daemon's local socket (ipc.go): the accept loop, one read loop and  *)
(* one write loop per client, a goroutine per dispatched request, the      *)
(* goroutines that push accepted connections and received data, and the    *)
(* cleanup when a client leaves.  A client issues the commands of its      *)
(* script in order, may leave at any time and may stop reading.            *)
(*                                                                         *)
(* The overlay connections are what the port manager and the streams make  *)
(* of them (Ports, Stream): open or closed, with what was written to them. *)
(***************************************************************************)
EXTENDS Integers, Sequences, FiniteSets

CONSTANTS
  Client,
  Scenarios,                \* scripts, faults and bounds of the runs
  MaxIPCClients,
  MaxConnsPerIPCClient,
  ipcMaxInflightPerClient,  \* dispatch goroutines of one client
  ipcSendBuffer,            \* capacity of sendCh
  MaxConn,                  \* bound: connections ever made
  MaxCmds                   \* bound: commands in a script

VARIABLES
  sc,      \* the scenario
  cl,      \* per client, the ipcConn and its read and write loops
  task,    \* task[c][k]: the goroutine dispatched for command k of c
  lst,     \* the listeners bound so far and their acceptors
  conn,    \* the overlay connections made so far
  push,    \* push[i]: the recv pusher of connection i
  dgram,   \* the datagram pushes not yet queued
  sent,    \* bound: datagrams delivered so far
  stop     \* IPCServer.Close: "no", "closing" (done is closed), "closed"

vars == <<sc, cl, task, lst, conn, push, dgram, sent, stop>>
overlay == <<lst, conn, push>>
server == <<sc, dgram, sent, stop>>

Script(c) == sc.script[c]
Cmd(c) == DOMAIN Script(c)
Op(c, k) == Script(c)[k]
\* Commands the read loop handles itself.
Inline == {"send", "sendTo", "sendToConfirm", "health", "cancel"}
\* Commands nobody answers.
Unanswered == {"send", "sendTo", "cancel"}

NoTask == [pc |-> "none", id |-> 0, cancelled |-> FALSE]
newIPCConn ==
  [pc |-> "read", inbox |-> <<>>, issued |-> 0, eof |-> FALSE, shut |-> FALSE,
   done |-> FALSE, wdone |-> FALSE, q |-> <<>>, ports |-> {}, conns |-> {},
   todoConns |-> {}, todoPorts |-> {}, known |-> {}, answers |-> {}]

Init ==
  /\ sc \in Scenarios
  /\ cl = [c \in Client |-> [newIPCConn EXCEPT !.pc = "none"]]
  /\ task = [c \in Client |-> [k \in Cmd(c) |-> NoTask]]
  /\ lst = <<>>
  /\ conn = <<>>
  /\ push = <<>>
  /\ dgram = {} /\ sent = 0
  /\ stop = "no"

Clients == {c \in Client : cl[c].pc \notin {"none", "gone"}}
Running(c) == {k \in Cmd(c) : task[c][k].pc # "none"}
\* The listener of a port, 0 when the port is free.
Bound(p) == LET L == {l \in DOMAIN lst : lst[l].port = p /\ lst[l].open}
            IN  IF L = {} THEN 0 ELSE CHOOSE l \in L : TRUE

----------------------------------------------------------------------------
(***************************************************************************)
(* Shared helpers.                                                         *)
(***************************************************************************)

\* CloseConnection ends both directions; by tells who closed it first.
CloseConnection(cs, i, by) ==
  IF cs[i].open THEN [cs EXCEPT ![i].open = FALSE, ![i].by = by] ELSE cs
\* A new connection of client c: what the client meant to write on it, what
\* was written, what waits in RecvBuf and what the peer has yet to send.
NewConn(c, how) == [open |-> TRUE, by |-> "none", for |-> c, how |-> how,
                    meant |-> <<>>, out |-> <<>>, in |-> 0, more |-> sc.data]
Unbind(ls, p) == [l \in DOMAIN ls |-> IF ls[l].port = p THEN [ls[l] EXCEPT !.open = FALSE]
                                                         ELSE ls[l]]

\* ipcWrite fails once the connection is closed or its writer has exited,
\* and waits while sendCh is full.
WriteFails(s) == s.done \/ s.wdone
WriteRoom(s) == ~WriteFails(s) /\ Len(s.q) < ipcSendBuffer
\* A write of m by some goroutine: queued, or failed.
Queued(c, m) == WriteRoom(cl[c]) /\ cl' = [cl EXCEPT ![c].q = Append(@, m)]
Refused(c) == WriteFails(cl[c]) /\ UNCHANGED cl
Answer(k) == [op |-> "reply", id |-> k]

\* The cancel functions registered from addDialCancel to the handler's end.
cancelAllDials(ts) ==
  [k \in DOMAIN ts |-> IF ts[k].pc \in {"dialing", "made", "reply", "recheck"}
                       THEN [ts[k] EXCEPT !.cancelled = TRUE] ELSE ts[k]]
\* ipcConn.Close of the clients in C.
Close(C) ==
  /\ cl' = [c \in Client |-> IF c \in C THEN [cl[c] EXCEPT !.done = TRUE] ELSE cl[c]]
  /\ task' = [c \in Client |-> IF c \in C THEN cancelAllDials(task[c]) ELSE task[c]]

----------------------------------------------------------------------------
(***************************************************************************)
(* The accept loop and the server's Close.                                 *)
(***************************************************************************)

\* A connection that raced past the listener's close is refused, and so is
\* one over the cap.
acceptLoop(c) ==
  /\ cl[c].pc = "none" /\ Len(Script(c)) > 0
  /\ stop = "no"
  /\ Cardinality(Clients) < MaxIPCClients
  /\ cl' = [cl EXCEPT ![c] = newIPCConn]
  /\ UNCHANGED <<task, overlay, server>>

\* IPCServer.Close: first done and the listener, then every tracked client.
CloseBegins ==
  /\ sc.stops /\ stop = "no"
  /\ stop' = "closing"
  /\ UNCHANGED <<sc, cl, task, overlay, dgram, sent>>
CloseClients ==
  /\ stop = "closing"
  /\ stop' = "closed"
  /\ Close(Clients)
  /\ UNCHANGED <<sc, overlay, dgram, sent>>

----------------------------------------------------------------------------
(***************************************************************************)
(* The client: it writes the next command of its script, sends and closes  *)
(* on connections it was told of, and may leave.                           *)
(***************************************************************************)

Issue(c) ==
  LET k == cl[c].issued + 1
      put(i) == [cl EXCEPT ![c].issued = k, ![c].inbox = Append(@, [k |-> k, id |-> i])]
  IN  /\ cl[c].pc # "none" /\ ~cl[c].eof /\ ~cl[c].shut /\ k \in Cmd(c)
      /\ \/ /\ Op(c, k) \in {"send", "close"}
            /\ \E i \in cl[c].known :
                 /\ cl' = put(i)
                 /\ conn' = IF Op(c, k) = "send"
                            THEN [conn EXCEPT ![i].meant = Append(@, k)] ELSE conn
         \/ Op(c, k) \notin {"send", "close"} /\ cl' = put(0) /\ UNCHANGED conn
      /\ UNCHANGED <<task, lst, push, server>>
Leave(c) ==
  /\ cl[c].pc # "none" /\ ~cl[c].eof /\ sc.leaves
  /\ cl' = [cl EXCEPT ![c].eof = TRUE]
  /\ UNCHANGED <<task, overlay, server>>

----------------------------------------------------------------------------
(***************************************************************************)
(* handleClient's read loop.                                               *)
(***************************************************************************)

Take(c) == [cl EXCEPT ![c].inbox = Tail(@)]

\* Fire and forget: an error is only logged.
handleSend(c, h) ==
  /\ conn' = IF conn[h.id].open THEN [conn EXCEPT ![h.id].out = Append(@, h.k)] ELSE conn
  /\ cl' = Take(c)
  /\ UNCHANGED task
handleSendTo(c, h) == cl' = Take(c) /\ UNCHANGED <<task, conn>>
\* The read loop itself waits for room in sendCh for these two.
AnswerInline(c, h) ==
  /\ \/ WriteRoom(cl[c]) /\ cl' = [Take(c) EXCEPT ![c].q = Append(@, Answer(h.k))]
     \/ WriteFails(cl[c]) /\ cl' = Take(c)
  /\ UNCHANGED <<task, conn>>
handleSendToConfirm(c, h) == AnswerInline(c, h)
handleHealth(c, h) == AnswerInline(c, h)
handleCancel(c, h) ==
  /\ task' = [task EXCEPT ![c] = cancelAllDials(@)]
  /\ cl' = Take(c) /\ UNCHANGED conn
\* Everything else waits for a dispatch slot and gets a goroutine.
Dispatch(c, h) ==
  /\ Cardinality(Running(c)) < ipcMaxInflightPerClient
  /\ task' = [task EXCEPT ![c][h.k] = [NoTask EXCEPT !.pc = "start", !.id = h.id]]
  /\ cl' = Take(c)
  /\ UNCHANGED conn
ReadLoop(c) ==
  LET h == cl[c].inbox[1]
      op == Op(c, h.k)
  IN  /\ cl[c].pc = "read" /\ cl[c].inbox # <<>> /\ ~cl[c].shut
      /\ \/ op = "send" /\ handleSend(c, h)
         \/ op = "sendTo" /\ handleSendTo(c, h)
         \/ op = "sendToConfirm" /\ handleSendToConfirm(c, h)
         \/ op = "health" /\ handleHealth(c, h)
         \/ op = "cancel" /\ handleCancel(c, h)
         \/ op \notin Inline /\ Dispatch(c, h)
      /\ UNCHANGED <<lst, push, server>>

\* The read fails: the client has left, or the daemon closed the socket; or
\* the connection was closed while the loop waited for a slot.
ReadFails(c) ==
  /\ cl[c].pc = "read"
  /\ \/ cl[c].shut
     \/ cl[c].eof /\ cl[c].inbox = <<>>
     \/ cl[c].done /\ cl[c].inbox # <<>> /\ Op(c, cl[c].inbox[1].k) \notin Inline
  /\ cl' = [cl EXCEPT ![c].pc = "drain"]
  /\ UNCHANGED <<task, overlay, server>>

\* The cleanup: wait for the dispatched requests, copy what the client owns,
\* close the connections, unbind the ports, close the ipcConn.
CleanupCopies(c) ==
  /\ cl[c].pc = "drain" /\ Running(c) = {}
  /\ cl' = [cl EXCEPT ![c].pc = "sweep", ![c].todoConns = cl[c].conns,
                      ![c].todoPorts = cl[c].ports]
  /\ UNCHANGED <<task, overlay, server>>
CleanupReleases(c) ==
  /\ cl[c].pc = "sweep"
  /\ \/ \E i \in cl[c].todoConns :
          /\ conn' = CloseConnection(conn, i, "cleanup")
          /\ cl' = [cl EXCEPT ![c].todoConns = @ \ {i}]
          /\ UNCHANGED lst
     \/ /\ cl[c].todoConns = {}
        /\ \E p \in cl[c].todoPorts :
             /\ lst' = Unbind(lst, p)
             /\ cl' = [cl EXCEPT ![c].todoPorts = @ \ {p}]
        /\ UNCHANGED conn
  /\ UNCHANGED <<task, push, server>>
CleanupEnds(c) ==
  /\ cl[c].pc = "sweep" /\ cl[c].todoConns = {} /\ cl[c].todoPorts = {}
  /\ cl' = [cl EXCEPT ![c].pc = "gone", ![c].done = TRUE]
  /\ task' = [task EXCEPT ![c] = cancelAllDials(@)]
  /\ UNCHANGED <<overlay, server>>

----------------------------------------------------------------------------
\* writeLoop.  A write to a client that reads succeeds; to one that has left
\* or does not read it fails, at the latest when the deadline passes.  After
\* Close the queue is drained first.
Learn(s, m) ==
  CASE m.op = "reply" -> [s EXCEPT !.answers = @ \cup {m.id}]
    [] m.op = "dialOK" -> [s EXCEPT !.answers = @ \cup {m.k}, !.known = @ \cup {m.id}]
    [] m.op = "accept" -> [s EXCEPT !.known = @ \cup {m.id}]
    [] OTHER -> s
Reads(c) == ~cl[c].eof /\ c \notin sc.stalled
writeLoop(c) ==
  LET s == cl[c]
  IN  /\ s.pc # "none" /\ ~s.wdone
      /\ \/ /\ s.q # <<>> /\ Reads(c)
            /\ cl' = [cl EXCEPT ![c] = Learn([s EXCEPT !.q = Tail(@)], s.q[1])]
         \/ /\ \/ s.q # <<>> /\ ~Reads(c)
               \/ s.q = <<>> /\ s.done
            /\ cl' = [cl EXCEPT ![c].wdone = TRUE, ![c].shut = TRUE]
      /\ UNCHANGED <<task, overlay, server>>

----------------------------------------------------------------------------
(***************************************************************************)
(* The dispatched requests.                                                *)
(***************************************************************************)

Goto(c, k, pc) == task' = [task EXCEPT ![c][k].pc = pc]
End(c, k) == task' = [task EXCEPT ![c][k] = NoTask]

\* sendError, and the requests that only compute an answer.
sendError(c, k) ==
  /\ Queued(c, Answer(k)) \/ Refused(c)
  /\ End(c, k)
  /\ UNCHANGED overlay
dispatch(c, k) == Op(c, k) = "info" /\ task[c][k].pc = "start" /\ sendError(c, k)
Errors(c, k) == task[c][k].pc = "error" /\ sendError(c, k)

handleBind(c, k) ==
  /\ Op(c, k) = "bind"
  /\ \/ /\ task[c][k].pc = "start" /\ Bound(1) # 0
        /\ Goto(c, k, "error") /\ UNCHANGED <<cl, lst>>
     \/ /\ task[c][k].pc = "start" /\ Bound(1) = 0
        /\ lst' = Append(lst, [port |-> 1, open |-> TRUE, for |-> c, queue |-> <<>>,
                               acc |-> "none", id |-> 0])
        /\ task' = [task EXCEPT ![c][k] = [@ EXCEPT !.pc = "track", !.id = Len(lst) + 1]]
        /\ UNCHANGED cl
     \/ /\ task[c][k].pc = "track"
        /\ cl' = [cl EXCEPT ![c].ports = @ \cup {1}]
        /\ Goto(c, k, "reply") /\ UNCHANGED lst
     \/ /\ task[c][k].pc = "reply" /\ Queued(c, Answer(k))
        /\ lst' = [lst EXCEPT ![task[c][k].id].acc = "idle"]
        /\ End(c, k)
     \/ /\ task[c][k].pc = "reply" /\ Refused(c)
        /\ End(c, k) /\ UNCHANGED lst
  /\ UNCHANGED <<conn, push>>

handleUnbind(c, k) ==
  /\ Op(c, k) = "unbind"
  /\ \/ /\ task[c][k].pc = "start" /\ 1 \notin cl[c].ports
        /\ Goto(c, k, "error") /\ UNCHANGED <<cl, lst>>
     \/ /\ task[c][k].pc = "start" /\ 1 \in cl[c].ports
        /\ cl' = [cl EXCEPT ![c].ports = @ \ {1}]
        /\ Goto(c, k, "unbind") /\ UNCHANGED lst
     \/ /\ task[c][k].pc = "unbind"
        /\ lst' = Unbind(lst, 1)
        /\ Goto(c, k, "error") /\ UNCHANGED cl
  /\ UNCHANGED <<conn, push>>

handleClose(c, k) ==
  LET i == task[c][k].id
  IN  /\ Op(c, k) = "close"
      /\ \/ /\ task[c][k].pc = "start"
            /\ conn' = CloseConnection(conn, i, "client")
            /\ Goto(c, k, "untrack") /\ UNCHANGED cl
         \/ /\ task[c][k].pc = "untrack"
            /\ cl' = [cl EXCEPT ![c].conns = @ \ {i}]
            /\ Goto(c, k, "error") /\ UNCHANGED conn
      /\ UNCHANGED <<lst, push>>

\* handleDial: quota, the dial itself under a cancellable context, and the
\* two looks at the context, before tracking and after the reply.
DialStarts(c, k) ==
  /\ task[c][k].pc = "start"
  /\ Goto(c, k, IF Cardinality(cl[c].conns) >= MaxConnsPerIPCClient THEN "error" ELSE "dialing")
  /\ UNCHANGED <<cl, overlay>>
DialConnectionContext(c, k) ==
  /\ task[c][k].pc = "dialing"
  /\ \/ /\ Len(conn) < MaxConn
        /\ conn' = Append(conn, NewConn(c, "dial"))
        /\ push' = Append(push, "none")
        /\ task' = [task EXCEPT ![c][k] = [@ EXCEPT !.pc = "made", !.id = Len(conn) + 1]]
     \/ Goto(c, k, "error") /\ UNCHANGED <<conn, push>>
  /\ UNCHANGED <<cl, lst>>
DialMade_NoCheck(c, k) ==
  /\ task[c][k].pc = "made"
  /\ IF task[c][k].cancelled
     THEN End(c, k) /\ UNCHANGED <<cl, conn>>
     ELSE /\ cl' = [cl EXCEPT ![c].conns = @ \cup {task[c][k].id}]
          /\ Goto(c, k, "reply") /\ UNCHANGED conn
  /\ UNCHANGED <<lst, push>>
DialMade(c, k) ==
  /\ task[c][k].pc = "made"
  /\ IF task[c][k].cancelled
     THEN conn' = CloseConnection(conn, task[c][k].id, "dial") /\ End(c, k) /\ UNCHANGED cl
     ELSE /\ cl' = [cl EXCEPT ![c].conns = @ \cup {task[c][k].id}]
          /\ Goto(c, k, "reply") /\ UNCHANGED conn
  /\ UNCHANGED <<lst, push>>
DialReplies(c, k) ==
  LET i == task[c][k].id
  IN  /\ task[c][k].pc = "reply"
      /\ \/ /\ Queued(c, [op |-> "dialOK", id |-> i, k |-> k])
            /\ Goto(c, k, "recheck") /\ UNCHANGED conn
         \/ /\ WriteFails(cl[c])
            /\ conn' = CloseConnection(conn, i, "dial")
            /\ cl' = [cl EXCEPT ![c].conns = @ \ {i}]
            /\ End(c, k)
      /\ UNCHANGED <<lst, push>>
DialRechecks(c, k) ==
  LET i == task[c][k].id
  IN  /\ task[c][k].pc = "recheck"
      /\ IF task[c][k].cancelled
         THEN /\ conn' = CloseConnection(conn, i, "dial")
              /\ cl' = [cl EXCEPT ![c].conns = @ \ {i}]
              /\ UNCHANGED push
         ELSE push' = [push EXCEPT ![i] = "run"] /\ UNCHANGED <<cl, conn>>
      /\ End(c, k)
      /\ UNCHANGED lst
handleDial(c, k) ==
  /\ Op(c, k) = "dial"
  /\ \/ DialStarts(c, k) \/ DialConnectionContext(c, k) \/ DialMade(c, k)
     \/ DialReplies(c, k) \/ DialRechecks(c, k)

TaskStep(c, k) ==
  /\ \/ dispatch(c, k) \/ Errors(c, k) \/ handleBind(c, k) \/ handleUnbind(c, k)
     \/ handleClose(c, k) \/ handleDial(c, k)
  /\ UNCHANGED server

----------------------------------------------------------------------------
(***************************************************************************)
(* The pushers.                                                            *)
(***************************************************************************)

\* handleBind's goroutine: track, tell the client, start the recv pusher;
\* it gives up on the first failing push and ends with the queue's close.
Acceptor(l) ==
  LET L == lst[l]
      c == L.for
  IN  /\ \/ /\ L.acc = "idle" /\ L.queue # <<>>
            /\ lst' = [lst EXCEPT ![l] = [L EXCEPT !.acc = "push", !.id = L.queue[1],
                                                   !.queue = Tail(@)]]
            /\ cl' = [cl EXCEPT ![c].conns = @ \cup {L.queue[1]}]
            /\ UNCHANGED push
         \/ /\ L.acc = "push" /\ Queued(c, [op |-> "accept", id |-> L.id])
            /\ lst' = [lst EXCEPT ![l].acc = "idle", ![l].id = 0]
            /\ push' = [push EXCEPT ![L.id] = "run"]
         \/ /\ L.acc = "push" /\ Refused(c)
            /\ lst' = [lst EXCEPT ![l].acc = "end"]
            /\ push' = [push EXCEPT ![L.id] = "lost"]
         \/ /\ L.acc = "idle" /\ L.queue = <<>> /\ ~L.open
            /\ lst' = [lst EXCEPT ![l].acc = "end"]
            /\ UNCHANGED <<cl, push>>
      /\ UNCHANGED <<task, conn, server>>

\* startRecvPusher: a failing push drops the connection from the client's
\* list; the end of the data is announced.
startRecvPusher(i) ==
  LET c == conn[i].for
      untracked(C) == [C EXCEPT ![c].conns = @ \ {i}]
  IN  /\ push[i] = "run"
      /\ \/ /\ conn[i].in > 0 /\ Queued(c, [op |-> "recv", id |-> i])
            /\ conn' = [conn EXCEPT ![i].in = @ - 1]
            /\ UNCHANGED push
         \/ /\ conn[i].in > 0 /\ WriteFails(cl[c])
            /\ cl' = untracked(cl)
            /\ push' = [push EXCEPT ![i] = "lost"]
            /\ UNCHANGED conn
         \/ /\ conn[i].in = 0 /\ ~conn[i].open
            /\ \/ WriteRoom(cl[c]) /\ cl' = untracked([cl EXCEPT ![c].q = Append(@, [op |-> "closeOK", id |-> i])])
               \/ WriteFails(cl[c]) /\ cl' = untracked(cl)
            /\ push' = [push EXCEPT ![i] = "end"]
            /\ UNCHANGED conn
      /\ UNCHANGED <<task, lst, server>>

\* One goroutine per client that was connected, so the caller never waits.
DeliverDatagram ==
  /\ sent < sc.datagrams /\ Clients # {}
  /\ sent' = sent + 1
  /\ dgram' = dgram \cup Clients
  /\ UNCHANGED <<sc, cl, task, overlay, stop>>
PushDatagram(c) ==
  /\ c \in dgram
  /\ Queued(c, [op |-> "recvFrom", id |-> 0]) \/ Refused(c)
  /\ dgram' = dgram \ {c}
  /\ UNCHANGED <<sc, task, overlay, sent, stop>>

----------------------------------------------------------------------------
(***************************************************************************)
(* The network: connections arrive at a bound port, data arrives on an     *)
(* open connection, and the peer closes.                                   *)
(***************************************************************************)

Arrive ==
  /\ Bound(1) # 0 /\ Len(conn) < sc.conns
  /\ LET l == Bound(1)
     IN  /\ conn' = Append(conn, NewConn(lst[l].for, "accept"))
         /\ lst' = [lst EXCEPT ![l].queue = Append(@, Len(conn) + 1)]
  /\ push' = Append(push, "none")
  /\ UNCHANGED <<cl, task, server>>
PeerSends(i) ==
  /\ conn[i].more > 0 /\ conn[i].open
  /\ conn' = [conn EXCEPT ![i].in = @ + 1, ![i].more = @ - 1]
  /\ UNCHANGED <<cl, task, lst, push, server>>
PeerCloses(i) ==
  /\ sc.closes /\ conn[i].open
  /\ conn' = CloseConnection(conn, i, "peer")
  /\ UNCHANGED <<cl, task, lst, push, server>>

----------------------------------------------------------------------------
ClientStep(c) ==
  ReadLoop(c) \/ ReadFails(c) \/ CleanupCopies(c) \/ CleanupReleases(c) \/ CleanupEnds(c)
Next ==
  \/ \E c \in Client :
       \/ acceptLoop(c) \/ Issue(c) \/ Leave(c) \/ ClientStep(c) \/ writeLoop(c)
       \/ PushDatagram(c) \/ \E k \in Cmd(c) : TaskStep(c, k)
  \/ CloseBegins \/ CloseClients \/ DeliverDatagram \/ Arrive
  \/ \E l \in DOMAIN lst : Acceptor(l)
  \/ \E i \in DOMAIN conn : startRecvPusher(i) \/ PeerSends(i) \/ PeerCloses(i)

\* Every goroutine runs on when it can; a client, the network and the
\* operator owe nothing.
Fairness ==
  /\ \A c \in Client : WF_vars(ClientStep(c)) /\ WF_vars(writeLoop(c)) /\ WF_vars(PushDatagram(c))
  /\ \A c \in Client : \A k \in 1 .. MaxCmds : WF_vars(k \in Cmd(c) /\ TaskStep(c, k))
  /\ WF_vars(CloseClients)
  /\ WF_vars(\E l \in DOMAIN lst : Acceptor(l))
  /\ WF_vars(\E i \in DOMAIN conn : startRecvPusher(i))
Spec == Init /\ [][Next]_vars /\ Fairness

----------------------------------------------------------------------------
(***************************************************************************)
(* Properties.                                                             *)
(***************************************************************************)

\* Every variable has its type; sendCh, the dispatch slots, the set of
\* clients and the lists a client owns stay within what the server made.
TypeOK ==
  /\ stop \in {"no", "closing", "closed"} /\ dgram \subseteq Client
  /\ Cardinality(Clients) <= MaxIPCClients
  /\ \A c \in Client :
       /\ cl[c].pc \in {"none", "read", "drain", "sweep", "gone"}
       /\ Len(cl[c].q) <= ipcSendBuffer
       /\ Cardinality(Running(c)) <= ipcMaxInflightPerClient
       /\ cl[c].conns \cup cl[c].todoConns \subseteq DOMAIN conn
  /\ Len(push) = Len(conn) /\ Len(conn) <= MaxConn
  /\ \A i \in DOMAIN push : push[i] \in {"none", "run", "lost", "end"}

\* What a client writes on a connection is handed to it in the order it was
\* written, and a close takes effect after all of it: handleClient runs
\* CmdSend in the read loop, CmdClose in a goroutine started later.
WrittenInOrder ==
  \A i \in DOMAIN conn :
    /\ conn[i].by = "none" => \E n \in 0 .. Len(conn[i].meant) :
                                 conn[i].out = SubSeq(conn[i].meant, 1, n)
    /\ conn[i].by = "client" => conn[i].out = conn[i].meant

\* When a client has been cleaned up, no port is bound for it, and the only
\* connections it dialled that stay open are those whose pusher failed: no
\* cancelled or unanswered dial leaves one behind.
GoneOwnsNothing ==
  \A c \in Client : cl[c].pc = "gone" =>
    /\ \A l \in DOMAIN lst : lst[l].for = c => ~lst[l].open
    /\ \A i \in DOMAIN conn :
         conn[i].for = c /\ conn[i].how = "dial" /\ conn[i].open => push[i] = "lost"

CleanedUp == \A c \in Client : cl[c].eof \/ cl[c].shut => cl[c].pc = "gone"
AllEnded == stop = "closed" => Clients = {}
Excused(c) ==
  ~Reads(c) \/ cl[c].done \/ \E j \in Cmd(c) : j <= cl[c].issued /\ Op(c, j) = "cancel"
NoneOwed ==
  \A c \in Client : Excused(c) \/
    {k \in Cmd(c) : k <= cl[c].issued /\ Op(c, k) \notin Unanswered} \subseteq cl[c].answers
\* A client that leaves or does not read is cleaned up: no request of its
\* stays blocked on its full queue.  Close ends every client, one that
\* connected while it ran included.  And every command that has an answer is
\* answered to a client that stays and reads, unless it cancelled its dials
\* or the server closed.
ClientsServed == CleanedUp /\ AllEnded /\ NoneOwed
NobodyWaits == []<>ClientsServed
============================================================================
