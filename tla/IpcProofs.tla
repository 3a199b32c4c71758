----------------------------- MODULE IpcProofs -----------------------------
(***************************************************************************)
(* A client that has been cleaned up owns nothing, for every number of     *)
(* clients, every script of commands, every limit and every interleaving   *)
(* of its requests, its dials' cancellation, the pushers and the cleanup.  *)
(*                                                                         *)
(* GoneOwnsNothing speaks of the end.  The invariant says, for every open  *)
(* listener and every open connection that was dialled, who will close it: *)
(* the client's list while the client is served, the request that has just *)
(* made it and not yet entered it there, or the copy the cleanup works on. *)
(***************************************************************************)
EXTENDS Ipc, TLAPS

-----------------------------------------------------------------------------
(* The types.                                                              *)

ClientPc == {"none", "read", "drain", "sweep", "gone"}
Heard == [k : Nat, id : Nat]
MsgOp == {"reply", "accept", "recv", "closeOK", "recvFrom"}
Msg == [op : MsgOp, id : Nat] \cup [op : {"dialOK"}, id : Nat, k : Nat]
Requests == Seq(Heard)
Queue == Seq(Msg)
ClientType ==
  [pc : ClientPc, inbox : Requests, issued : Nat, eof : BOOLEAN, shut : BOOLEAN, done : BOOLEAN,
   wdone : BOOLEAN, q : Queue, ports : SUBSET {1}, conns : SUBSET Nat, todoConns : SUBSET Nat,
   todoPorts : SUBSET {1}, known : SUBSET Nat, answers : SUBSET Nat]
TaskPc == {"none", "start", "error", "track", "reply", "unbind", "untrack", "dialing", "made", "recheck"}
TaskType == [pc : TaskPc, id : Nat, cancelled : BOOLEAN]
Numbers == Seq(Nat)
ListenerType ==
  [port : {1}, open : BOOLEAN, for : Client, queue : Numbers, acc : {"none", "idle", "push", "end"},
   id : Nat]
By == {"none", "cleanup", "client", "dial", "peer"}
ConnType ==
  [open : BOOLEAN, by : By, for : Client, how : {"dial", "accept"}, meant : Numbers, out : Numbers,
   in : Nat, more : Nat]
PushType == {"none", "run", "lost", "end"}

ClientsTyped == cl \in [Client -> ClientType]
TasksTyped == DOMAIN task = Client /\ \A c \in Client : task[c] \in [Cmd(c) -> TaskType]
Types ==
  /\ sc \in Scenarios
  /\ ClientsTyped /\ TasksTyped
  /\ lst \in Seq(ListenerType) /\ conn \in Seq(ConnType)
  /\ push \in Seq(PushType) /\ Len(push) = Len(conn)

-----------------------------------------------------------------------------
(* The invariant.                                                          *)

Live(c) == cl[c].pc \in {"read", "drain"}
At(c, k) == task[c][k].pc
Id(c, k) == task[c][k].id

(* Requests run only for a client that is served; what waits in the inbox  *)
(* has not been dispatched, and comes in the order of the script.          *)
Tasks ==
  \A c \in Client : \A k \in Cmd(c) : At(c, k) # "none" => Live(c) /\ k \in 1 .. cl[c].issued
Inbox ==
  \A c \in Client : \A j \in DOMAIN cl[c].inbox :
    /\ cl[c].inbox[j].k \in 1 .. cl[c].issued /\ cl[c].inbox[j].k \in Cmd(c)
    /\ At(c, cl[c].inbox[j].k) = "none"
    /\ Op(c, cl[c].inbox[j].k) = "close" => cl[c].inbox[j].id \in DOMAIN conn
    /\ \A i \in DOMAIN cl[c].inbox : i < j => cl[c].inbox[i].k < cl[c].inbox[j].k

(* A client is told only of connections that were made.                    *)
Fits(m, D) == m.op \in {"dialOK", "accept"} => m.id \in D
Told ==
  \A c \in Client :
    cl[c].known \subseteq DOMAIN conn /\ \A j \in DOMAIN cl[c].q : Fits(cl[c].q[j], DOMAIN conn)

(* handleClose forgets a connection only after it has closed it.           *)
Closes ==
  \A c \in Client : \A k \in Cmd(c) :
    Op(c, k) = "close" /\ At(c, k) \in {"start", "untrack"} =>
      Id(c, k) \in DOMAIN conn /\ (At(c, k) = "untrack" => ~conn[Id(c, k)].open)

(* A dial that has made its connection is the only one for it, and has not *)
(* yet started its pusher; an acceptor handles accepted ones.              *)
Pending(c, k) == Op(c, k) = "dial" /\ At(c, k) \in {"made", "reply", "recheck"}
Dials ==
  \A c \in Client : \A k \in Cmd(c) : Pending(c, k) =>
    /\ Id(c, k) \in DOMAIN conn /\ conn[Id(c, k)].how = "dial" /\ push[Id(c, k)] = "none"
    /\ \A d \in Client : \A j \in Cmd(d) : Pending(d, j) /\ Id(d, j) = Id(c, k) => d = c /\ j = k
AcceptedBy(i, cs) == i \in DOMAIN cs /\ cs[i].how = "accept"
Sound(L, cs) ==
  /\ \A j \in DOMAIN L.queue : AcceptedBy(L.queue[j], cs)
  /\ L.acc = "push" => AcceptedBy(L.id, cs)
Accepts == \A l \in DOMAIN lst : Sound(lst[l], conn)

(* Who unbinds an open listener, and who closes a dialled connection.      *)
Held(c) ==
  \/ Live(c) /\ (1 \in cl[c].ports \/ \E k \in Cmd(c) : At(c, k) \in {"track", "unbind"})
  \/ cl[c].pc = "sweep" /\ 1 \in cl[c].todoPorts
Owned(c, i) ==
  \/ Live(c) /\ (i \in cl[c].conns \/ \E k \in Cmd(c) : At(c, k) = "made" /\ Id(c, k) = i)
  \/ cl[c].pc = "sweep" /\ i \in cl[c].todoConns
Listening == \A l \in DOMAIN lst : \A c \in Client : lst[l].open /\ lst[l].for = c => Held(c)
Leaky(i) == conn[i].how = "dial" /\ conn[i].open /\ push[i] # "lost"
Dialled == \A i \in DOMAIN conn : \A c \in Client : Leaky(i) /\ conn[i].for = c => Owned(c, i)

IInv == Types /\ Tasks /\ Inbox /\ Told /\ Closes /\ Dials /\ Accepts /\ Listening /\ Dialled

-----------------------------------------------------------------------------
(* A step that names no prover is left to Zenon.                           *)
USE Zenon

(* The records, a field at a time.                                         *)

LEMMA ClientFields ==
  ASSUME NEW r \in ClientType
  PROVE  /\ r.pc \in ClientPc /\ r.inbox \in Requests /\ r.issued \in Nat /\ r.q \in Queue
         /\ r.ports \in SUBSET {1} /\ r.conns \in SUBSET Nat /\ r.todoConns \in SUBSET Nat
         /\ r.todoPorts \in SUBSET {1} /\ r.known \in SUBSET Nat /\ r.answers \in SUBSET Nat
  BY SMTT(30) DEF ClientType

(* What of a client the invariant speaks of, but for what it is told.      *)
Alike(r, s) ==
  /\ r.pc = s.pc /\ r.ports = s.ports /\ r.conns = s.conns
  /\ r.todoConns = s.todoConns /\ r.todoPorts = s.todoPorts
  /\ r.inbox = s.inbox /\ r.issued = s.issued

(* A client's record with new ears: what it has been told, what it will be. *)
Hears(u, r, K, Q) == u \in ClientType /\ Alike(u, r) /\ u.known = K /\ u.q = Q

LEMMA ClientUpdates ==
  ASSUME NEW r \in ClientType
  PROVE  /\ \A x \in Queue : Hears([r EXCEPT !.q = x], r, r.known, x)
         /\ \A x \in SUBSET Nat :
              Hears([r EXCEPT !.known = x], r, x, r.q) /\ Hears([r EXCEPT !.answers = x], r, r.known, r.q)
         /\ \A x \in BOOLEAN :
              /\ Hears([r EXCEPT !.eof = x], r, r.known, r.q) /\ Hears([r EXCEPT !.shut = x], r, r.known, r.q)
              /\ Hears([r EXCEPT !.done = x], r, r.known, r.q) /\ Hears([r EXCEPT !.wdone = x], r, r.known, r.q)
<1>1. \A x \in Queue : Hears([r EXCEPT !.q = x], r, r.known, x)
  BY SMTT(30) DEF ClientType, Alike, Hears
<1>2. \A x \in SUBSET Nat : Hears([r EXCEPT !.known = x], r, x, r.q)
  BY SMTT(30) DEF ClientType, Alike, Hears
<1>3. \A x \in SUBSET Nat : Hears([r EXCEPT !.answers = x], r, r.known, r.q)
  BY SMTT(30) DEF ClientType, Alike, Hears
<1>4. \A x \in BOOLEAN : Hears([r EXCEPT !.eof = x], r, r.known, r.q)
  BY SMTT(30) DEF ClientType, Alike, Hears
<1>5. \A x \in BOOLEAN : Hears([r EXCEPT !.shut = x], r, r.known, r.q)
  BY SMTT(30) DEF ClientType, Alike, Hears
<1>6. \A x \in BOOLEAN : Hears([r EXCEPT !.done = x], r, r.known, r.q)
  BY SMTT(30) DEF ClientType, Alike, Hears
<1>7. \A x \in BOOLEAN : Hears([r EXCEPT !.wdone = x], r, r.known, r.q)
  BY SMTT(30) DEF ClientType, Alike, Hears
<1> QED BY <1>1, <1>2, <1>3, <1>4, <1>5, <1>6, <1>7

-----------------------------------------------------------------------------
(* One client's record, one request's record.                              *)

LEMMA PutClient ==
  ASSUME ClientsTyped, NEW c \in Client, NEW r \in ClientType, cl' = [cl EXCEPT ![c] = r]
  PROVE  ClientsTyped' /\ cl'[c] = r /\ \A d \in Client : d # c => cl'[d] = cl[d]
  BY SMTT(30) DEF ClientsTyped

Becomes(c, k, t) == task' = [task EXCEPT ![c][k] = t]

LEMMA PutTask ==
  ASSUME TasksTyped, sc' = sc, NEW c \in Client, NEW k \in Cmd(c), NEW t \in TaskType, Becomes(c, k, t)
  PROVE  /\ TasksTyped' /\ task'[c][k] = t
         /\ \A d \in Client : \A j \in Cmd(d) : d # c \/ j # k => task'[d][j] = task[d][j]
<1>1. \A d \in Client : Cmd(d)' = Cmd(d)
  BY DEF Cmd, Script
<1>2. DOMAIN task' = Client /\ task'[c] = [task[c] EXCEPT ![k] = t]
      /\ \A d \in Client : d # c => task'[d] = task[d]
  BY SMTT(30) DEF TasksTyped, Becomes
<1>3. task'[c] \in [Cmd(c) -> TaskType] /\ task'[c][k] = t
      /\ \A j \in Cmd(c) : j # k => task'[c][j] = task[c][j]
  BY <1>2, SMTT(30) DEF TasksTyped
<1>4. TasksTyped'
  <2>1. \A d \in Client : task'[d] \in [Cmd(d) -> TaskType]
    BY <1>2, <1>3 DEF TasksTyped
  <2> QED BY <1>1, <1>2, <2>1 DEF TasksTyped
<1> QED BY <1>2, <1>3, <1>4

LEMMA TaskUpdates ==
  ASSUME NEW t \in TaskType
  PROVE  /\ \A x \in TaskPc : /\ [t EXCEPT !.pc = x] \in TaskType
                              /\ [t EXCEPT !.pc = x].pc = x /\ [t EXCEPT !.pc = x].id = t.id
         /\ [t EXCEPT !.cancelled = TRUE] \in TaskType
         /\ [t EXCEPT !.cancelled = TRUE].pc = t.pc /\ [t EXCEPT !.cancelled = TRUE].id = t.id
         /\ t.id \in Nat /\ t.pc \in TaskPc
<1>1. \A x \in TaskPc : /\ [t EXCEPT !.pc = x] \in TaskType
                        /\ [t EXCEPT !.pc = x].pc = x /\ [t EXCEPT !.pc = x].id = t.id
  BY SMTT(30) DEF TaskType
<1>3. /\ [t EXCEPT !.cancelled = TRUE] \in TaskType
      /\ [t EXCEPT !.cancelled = TRUE].pc = t.pc /\ [t EXCEPT !.cancelled = TRUE].id = t.id
  <2>1. \A x \in BOOLEAN : /\ [t EXCEPT !.cancelled = x] \in TaskType
                           /\ [t EXCEPT !.cancelled = x].pc = t.pc /\ [t EXCEPT !.cancelled = x].id = t.id
    BY SMTT(30) DEF TaskType
  <2> QED BY <2>1
<1>4. t.id \in Nat /\ t.pc \in TaskPc
  BY SMTT(30) DEF TaskType
<1> QED BY <1>1, <1>3, <1>4

Names(u, x, y) == u \in TaskType /\ u.pc = x /\ u.id = y

LEMMA TaskNamed ==
  ASSUME NEW t \in TaskType, NEW x \in TaskPc, NEW y \in Nat
  PROVE  Names([t EXCEPT !.pc = x, !.id = y], x, y)
<1> DEFINE s == [t EXCEPT !.pc = x]
<1>1. s \in TaskType /\ s.pc = x
  BY TaskUpdates
<1>2. [t EXCEPT !.pc = x, !.id = y] = [s EXCEPT !.id = y]
  BY SMTT(30) DEF TaskType
<1> HIDE DEF s
<1>3. [s EXCEPT !.id = y] \in TaskType /\ [s EXCEPT !.id = y].pc = s.pc /\ [s EXCEPT !.id = y].id = y
  BY <1>1, SMTT(30) DEF TaskType
<1>4. Names([s EXCEPT !.id = y], x, y)
  BY <1>1, <1>3 DEF Names
<1> QED BY <1>2, <1>4

LEMMA NoTaskTyped == NoTask \in TaskType /\ NoTask.pc = "none"
  BY SMTT(30) DEF NoTask, TaskType, TaskPc

(* The requests keep their places.                                         *)
SamePlaces == \A c \in Client : \A k \in Cmd(c) : At(c, k)' = At(c, k) /\ Id(c, k)' = Id(c, k)

(* Cancelling dials moves no request.                                      *)
LEMMA Cancels ==
  ASSUME TasksTyped, sc' = sc, DOMAIN task' = Client,
         \A c \in Client : task'[c] = task[c] \/ task'[c] = cancelAllDials(task[c])
  PROVE  TasksTyped' /\ SamePlaces
<1>1. \A d \in Client : Cmd(d)' = Cmd(d)
  BY DEF Cmd, Script
<1>2. SUFFICES ASSUME NEW c \in Client
               PROVE  /\ task'[c] \in [Cmd(c) -> TaskType]
                      /\ \A k \in Cmd(c) : task'[c][k].pc = task[c][k].pc /\ task'[c][k].id = task[c][k].id
  BY <1>1 DEF TasksTyped, SamePlaces, At, Id
<1>3. task[c] \in [Cmd(c) -> TaskType]
  BY DEF TasksTyped
<1>4. CASE task'[c] = task[c]
  BY <1>3, <1>4
<1>5. CASE task'[c] = cancelAllDials(task[c])
  <2> DEFINE C(k) == [task[c][k] EXCEPT !.cancelled = TRUE]
  <2>1. \A k \in Cmd(c) : C(k) \in TaskType /\ C(k).pc = task[c][k].pc /\ C(k).id = task[c][k].id
    <3> TAKE k \in Cmd(c)
    <3>1. task[c][k] \in TaskType
      BY <1>3, SMTT(30)
    <3> QED BY <3>1, TaskUpdates
  <2>2. task'[c] = [k \in Cmd(c) |-> IF task[c][k].pc \in {"dialing", "made", "reply", "recheck"}
                                     THEN C(k) ELSE task[c][k]]
    BY <1>3, <1>5, SMTT(30) DEF cancelAllDials
  <2> HIDE DEF C
  <2> QED BY <1>3, <2>1, <2>2, SMTT(30)
<1> QED BY <1>2, <1>4, <1>5

-----------------------------------------------------------------------------
(* The connections and the listeners.                                      *)

LEMMA ConnFields ==
  ASSUME NEW r \in ConnType
  PROVE  /\ r.for \in Client /\ r.how \in {"dial", "accept"} /\ r.open \in BOOLEAN
         /\ r.meant \in Numbers /\ r.out \in Numbers /\ r.in \in Nat /\ r.more \in Nat
  BY SMTT(30) DEF ConnType

(* Nothing the invariant speaks of changes but that a connection may end.  *)
Follows(r, s) == r \in ConnType /\ r.how = s.how /\ r.for = s.for /\ (r.open => s.open)

LEMMA ConnUpdates ==
  ASSUME NEW r \in ConnType
  PROVE  /\ Follows(r, r)
         /\ \A x \in Numbers :
              Follows([r EXCEPT !.meant = x], r) /\ Follows([r EXCEPT !.out = x], r)
         /\ \A x \in Nat : Follows([r EXCEPT !.in = x], r) /\ Follows([r EXCEPT !.more = x], r)
         /\ \A b \in By : /\ Follows([r EXCEPT !.open = FALSE, !.by = b], r)
                          /\ ~[r EXCEPT !.open = FALSE, !.by = b].open
<1>1. Follows(r, r)
  BY SMTT(30) DEF Follows
<1>2. \A x \in Numbers : Follows([r EXCEPT !.meant = x], r) /\ Follows([r EXCEPT !.out = x], r)
  BY SMTT(30) DEF ConnType, Follows
<1>3. \A x \in Nat : Follows([r EXCEPT !.in = x], r) /\ Follows([r EXCEPT !.more = x], r)
  BY SMTT(30) DEF ConnType, Follows
<1>4. ASSUME NEW b \in By
      PROVE  /\ Follows([r EXCEPT !.open = FALSE, !.by = b], r)
             /\ ~[r EXCEPT !.open = FALSE, !.by = b].open
  <2> DEFINE s == [r EXCEPT !.open = FALSE]
  <2>1. \A x \in BOOLEAN : /\ [r EXCEPT !.open = x] \in ConnType /\ [r EXCEPT !.open = x].open = x
                           /\ [r EXCEPT !.open = x].how = r.how /\ [r EXCEPT !.open = x].for = r.for
    BY SMTT(30) DEF ConnType
  <2>2. s \in ConnType /\ s.open = FALSE /\ s.how = r.how /\ s.for = r.for
    BY <2>1
  <2>3. [r EXCEPT !.open = FALSE, !.by = b] = [s EXCEPT !.by = b]
    BY SMTT(30) DEF ConnType
  <2> HIDE DEF s
  <2>4. /\ [s EXCEPT !.by = b] \in ConnType /\ [s EXCEPT !.by = b].open = s.open
        /\ [s EXCEPT !.by = b].how = s.how /\ [s EXCEPT !.by = b].for = s.for
    BY <2>2, SMTT(30) DEF ConnType
  <2> QED BY <2>2, <2>3, <2>4, SMTT(30) DEF Follows
<1> QED BY <1>1, <1>2, <1>3, <1>4

(* No connection is made.                                                  *)
ConnsFollow ==
  /\ conn' \in Seq(ConnType) /\ Len(conn') = Len(conn) /\ DOMAIN conn' = DOMAIN conn
  /\ \A i \in DOMAIN conn : Follows(conn'[i], conn[i])

LEMMA ConnsStay == ASSUME conn \in Seq(ConnType), UNCHANGED conn PROVE ConnsFollow
<1>1. \A i \in DOMAIN conn : conn[i] \in ConnType
  BY SMTT(30)
<1>2. \A i \in DOMAIN conn : Follows(conn[i], conn[i])
  BY <1>1, ConnUpdates
<1> QED BY <1>2 DEF ConnsFollow

LEMMA PutConn ==
  ASSUME conn \in Seq(ConnType), NEW i \in DOMAIN conn, NEW r, Follows(r, conn[i]),
         conn' = [conn EXCEPT ![i] = r]
  PROVE  ConnsFollow /\ conn'[i] = r /\ \A j \in DOMAIN conn : j # i => conn'[j] = conn[j]
<1>1. r \in ConnType
  BY DEF Follows
<1>2. conn' \in Seq(ConnType) /\ Len(conn') = Len(conn) /\ DOMAIN conn' = DOMAIN conn
  BY <1>1, SMTT(30)
<1>3. conn'[i] = r /\ \A j \in DOMAIN conn : j # i => conn'[j] = conn[j]
  BY SMTT(30)
<1>4. \A j \in DOMAIN conn : conn[j] \in ConnType
  BY SMTT(30)
<1>5. \A j \in DOMAIN conn : Follows(conn'[j], conn[j])
  BY <1>3, <1>4, ConnUpdates
<1> QED BY <1>2, <1>3, <1>5 DEF ConnsFollow

LEMMA PutTwice ==
  ASSUME NEW f, NEW i, NEW x, NEW y
  PROVE  [[f EXCEPT ![i] = x] EXCEPT ![i] = y] = [f EXCEPT ![i] = y]
  OBVIOUS

LEMMA ConnCloses ==
  ASSUME conn \in Seq(ConnType), NEW i \in DOMAIN conn, NEW b \in By,
         conn' = CloseConnection(conn, i, b)
  PROVE  /\ ConnsFollow /\ ~conn'[i].open
         /\ \A j \in DOMAIN conn : j # i => conn'[j] = conn[j]
<1>1. conn[i] \in ConnType
  BY SMTT(30)
<1>2. CASE conn[i].open
  <2> DEFINE r == [conn[i] EXCEPT !.open = FALSE, !.by = b]
  <2>1. Follows(r, conn[i]) /\ ~r.open
    BY <1>1, ConnUpdates
  <2>2. conn' = [conn EXCEPT ![i] = r]
    <3>1. conn' = [conn EXCEPT ![i].open = FALSE, ![i].by = b]
      BY <1>2 DEF CloseConnection
    <3> DEFINE s == [conn[i] EXCEPT !.open = FALSE]
               half == [conn EXCEPT ![i] = s]
    <3>2. conn' = [half EXCEPT ![i] = [half[i] EXCEPT !.by = b]]
      BY <3>1, SMTT(30)
    <3>3. r = [s EXCEPT !.by = b]
      BY <1>1, SMTT(30) DEF ConnType
    <3> HIDE DEF s, r
    <3>4. half[i] = s
      BY SMTT(30)
    <3>5. conn' = [half EXCEPT ![i] = r]
      BY <3>2, <3>3, <3>4
    <3> QED BY <3>5, PutTwice
  <2> HIDE DEF r
  <2> QED BY <2>1, <2>2, PutConn
<1>3. CASE ~conn[i].open
  <2>1. conn' = conn
    BY <1>3 DEF CloseConnection
  <2> QED BY <1>3, <2>1, ConnsStay
<1> QED BY <1>2, <1>3

LEMMA MakeConn ==
  ASSUME conn \in Seq(ConnType), push \in Seq(PushType), Len(push) = Len(conn),
         NEW r \in ConnType, conn' = Append(conn, r), push' = Append(push, "none")
  PROVE  /\ conn' \in Seq(ConnType) /\ push' \in Seq(PushType) /\ Len(push') = Len(conn')
         /\ DOMAIN conn' = DOMAIN conn \cup {Len(conn) + 1}
         /\ Len(conn) + 1 \notin DOMAIN conn /\ Len(conn) + 1 \in Nat
         /\ conn'[Len(conn) + 1] = r /\ push'[Len(conn) + 1] = "none"
         /\ \A i \in DOMAIN conn : conn'[i] = conn[i] /\ push'[i] = push[i]
<1>1. "none" \in PushType
  BY DEF PushType
<1> QED BY <1>1, SMTT(30)

-----------------------------------------------------------------------------
(* What clients are told.                                                  *)

LEMMA MsgTyped ==
  /\ \A k \in Nat : Answer(k) \in Msg /\ Answer(k).op = "reply"
  /\ \A i \in Nat : \A o \in MsgOp : [op |-> o, id |-> i] \in Msg
  /\ \A i \in Nat : \A o \in MsgOp : [op |-> o, id |-> i].op = o /\ [op |-> o, id |-> i].id = i
  /\ \A i \in Nat, k \in Nat :
       LET m == [op |-> "dialOK", id |-> i, k |-> k] IN m \in Msg /\ m.op = "dialOK" /\ m.id = i
<1>1. \A o \in {"reply", "accept", "recv", "closeOK", "recvFrom"} : o \in MsgOp
  BY DEF MsgOp
<1>2. \A i \in Nat : \A o \in MsgOp : [op |-> o, id |-> i] \in Msg
  BY SMTT(30) DEF Msg
<1>3. \A i \in Nat : \A o \in MsgOp : [op |-> o, id |-> i].op = o /\ [op |-> o, id |-> i].id = i
  BY SMTT(30)
<1>4. \A k \in Nat : Answer(k) \in Msg /\ Answer(k).op = "reply"
  BY <1>1, <1>2, SMTT(30) DEF Answer
<1>5. \A i \in Nat, k \in Nat :
        LET m == [op |-> "dialOK", id |-> i, k |-> k] IN m \in Msg /\ m.op = "dialOK" /\ m.id = i
  BY <1>1, SMTT(30) DEF Msg
<1> QED BY <1>2, <1>3, <1>4, <1>5

(* What a client was told is still so.                                     *)
Grows == DOMAIN conn \subseteq DOMAIN conn'
TrueQueue(q, D) == q \in Queue /\ \A j \in DOMAIN q : Fits(q[j], D)

LEMMA QueueStays ==
  ASSUME NEW D, NEW E, D \subseteq E, NEW q, TrueQueue(q, D)
  PROVE  TrueQueue(q, E)
  BY SMTT(30) DEF TrueQueue, Fits

LEMMA QueueGrows ==
  ASSUME NEW D, NEW q, TrueQueue(q, D), NEW m \in Msg, Fits(m, D)
  PROVE  TrueQueue(Append(q, m), D)
<1>1. Append(q, m) \in Queue /\ DOMAIN Append(q, m) = DOMAIN q \cup {Len(q) + 1}
  BY SMTT(30) DEF TrueQueue, Queue
<1>2. Append(q, m)[Len(q) + 1] = m /\ \A j \in DOMAIN q : Append(q, m)[j] = q[j]
  BY SMTT(30) DEF TrueQueue, Queue
<1>3. \A j \in DOMAIN Append(q, m) : Fits(Append(q, m)[j], D)
  BY <1>1, <1>2 DEF TrueQueue
<1> QED BY <1>1, <1>3 DEF TrueQueue

LEMMA QueueShrinks ==
  ASSUME NEW D, NEW q, TrueQueue(q, D), q # <<>>
  PROVE  TrueQueue(Tail(q), D) /\ q[1] \in Msg /\ Fits(q[1], D)
<1>1. Tail(q) \in Queue /\ \A j \in DOMAIN Tail(q) : j + 1 \in DOMAIN q /\ Tail(q)[j] = q[j + 1]
  BY SMTT(30) DEF TrueQueue, Queue
<1>2. 1 \in DOMAIN q /\ q[1] \in Msg
  BY SMTT(30) DEF TrueQueue, Queue
<1>3. \A j \in DOMAIN Tail(q) : Fits(Tail(q)[j], D)
  BY <1>1 DEF TrueQueue
<1> QED BY <1>1, <1>2, <1>3 DEF TrueQueue

LEMMA ToldIs ==
  ASSUME ClientsTyped, Told, NEW c \in Client
  PROVE  TrueQueue(cl[c].q, DOMAIN conn) /\ cl[c].known \subseteq DOMAIN conn
<1>1. cl[c].q \in Queue
  BY ClientFields, SMTT(30) DEF ClientsTyped
<1> QED BY <1>1 DEF Told, TrueQueue

(* One client is told something, the others nothing.                       *)
LEMMA ToldPut ==
  ASSUME ClientsTyped, Told, Grows, NEW c \in Client,
         cl'[c].known \subseteq DOMAIN conn', TrueQueue(cl'[c].q, DOMAIN conn'),
         \A d \in Client : d # c => cl'[d] = cl[d]
  PROVE  Told'
<1>1. ASSUME NEW d \in Client, d # c
      PROVE  cl'[d].known \subseteq DOMAIN conn' /\ TrueQueue(cl'[d].q, DOMAIN conn')
  <2>1. TrueQueue(cl[d].q, DOMAIN conn) /\ cl[d].known \subseteq DOMAIN conn /\ cl'[d] = cl[d]
    BY <1>1, ToldIs
  <2>2. TrueQueue(cl[d].q, DOMAIN conn')
    BY <2>1, QueueStays DEF Grows
  <2>3. cl[d].known \subseteq DOMAIN conn'
    BY <2>1, SMTT(30) DEF Grows
  <2> QED BY <2>1, <2>2, <2>3
<1>2. \A d \in Client : cl'[d].known \subseteq DOMAIN conn' /\ TrueQueue(cl'[d].q, DOMAIN conn')
  BY <1>1
<1> QED BY <1>2 DEF Told, TrueQueue

-----------------------------------------------------------------------------
(* What each part of the invariant depends on.                             *)

LEMMA ScriptStays ==
  ASSUME sc' = sc
  PROVE  \A c : Cmd(c)' = Cmd(c) /\ \A k : Op(c, k)' = Op(c, k)
  BY DEF Cmd, Op, Script

Serving(c) == cl'[c].pc = cl[c].pc /\ cl'[c].inbox = cl[c].inbox /\ cl'[c].issued = cl[c].issued

LEMMA ServeKept ==
  ASSUME Tasks, Inbox, sc' = sc, Grows, \A c \in Client : Serving(c),
         \A c \in Client : \A k \in Cmd(c) : At(c, k) = "none" => At(c, k)' = "none"
  PROVE  Tasks' /\ Inbox'
<1>0. \A c : Cmd(c)' = Cmd(c) /\ \A k : Op(c, k)' = Op(c, k)
  BY ScriptStays
<1>1. Tasks'
  BY <1>0, SMTT(30) DEF Tasks, Live, Serving
<1>2. SUFFICES ASSUME NEW c \in Client, NEW j \in DOMAIN cl'[c].inbox
               PROVE  /\ cl'[c].inbox[j].k \in 1 .. cl'[c].issued /\ cl'[c].inbox[j].k \in Cmd(c)
                      /\ task'[c][cl'[c].inbox[j].k].pc = "none"
                      /\ Script(c)'[cl'[c].inbox[j].k] = "close" => cl'[c].inbox[j].id \in DOMAIN conn'
                      /\ \A i \in DOMAIN cl'[c].inbox : i < j => cl'[c].inbox[i].k < cl'[c].inbox[j].k
  BY <1>0, <1>1 DEF Inbox, At, Op
<1>3. cl'[c].inbox = cl[c].inbox /\ cl'[c].issued = cl[c].issued
  BY DEF Serving
<1>k. PICK k : k = cl[c].inbox[j].k
  OBVIOUS
<1>4. /\ k \in 1 .. cl[c].issued /\ k \in Cmd(c) /\ At(c, k) = "none"
      /\ Op(c, k) = "close" => cl[c].inbox[j].id \in DOMAIN conn
      /\ \A i \in DOMAIN cl[c].inbox : i < j => cl[c].inbox[i].k < k
  BY <1>3, <1>k DEF Inbox
<1>5. At(c, k)' = "none"
  BY <1>4
<1>6. task'[c][k].pc = "none" /\ Script(c)' = Script(c)
  BY <1>5 DEF At, Script
<1>7. Script(c)[k] = "close" => cl[c].inbox[j].id \in DOMAIN conn'
  BY <1>4, SMTT(30) DEF Op, Grows
<1> QED BY <1>3, <1>k, <1>4, <1>6, <1>7

LEMMA ClosesKept ==
  ASSUME Closes, sc' = sc, Grows, \A i \in DOMAIN conn : conn'[i].open => conn[i].open,
         \A c \in Client : \A k \in Cmd(c) : Op(c, k) = "close" =>
           \/ At(c, k)' = At(c, k) /\ Id(c, k)' = Id(c, k)
           \/ At(c, k)' \notin {"start", "untrack"}
           \/ Id(c, k)' \in DOMAIN conn' /\ (At(c, k)' = "untrack" => ~conn'[Id(c, k)'].open)
  PROVE  Closes'
<1>0. \A c : Cmd(c)' = Cmd(c) /\ \A k : Op(c, k)' = Op(c, k)
  BY ScriptStays
<1>1. SUFFICES ASSUME NEW c \in Client, NEW k \in Cmd(c), Op(c, k) = "close",
                      At(c, k)' \in {"start", "untrack"}
               PROVE  Id(c, k)' \in DOMAIN conn' /\ (At(c, k)' = "untrack" => ~conn'[Id(c, k)'].open)
  BY <1>0 DEF Closes
<1>2. CASE At(c, k)' = At(c, k) /\ Id(c, k)' = Id(c, k)
  BY <1>1, <1>2, SMTT(30) DEF Closes, Grows
<1> QED BY <1>1, <1>2

LEMMA DialsKept ==
  ASSUME Dials, sc' = sc, Grows, \A i \in DOMAIN conn : conn'[i].how = conn[i].how,
         \A c \in Client : \A k \in Cmd(c) : Pending(c, k)' =>
           Pending(c, k) /\ Id(c, k)' = Id(c, k) /\ push'[Id(c, k)] = push[Id(c, k)]
  PROVE  Dials'
<1>0. \A c : Cmd(c)' = Cmd(c) /\ \A k : Op(c, k)' = Op(c, k)
  BY ScriptStays
<1>1. SUFFICES ASSUME NEW c \in Client, NEW k \in Cmd(c), Pending(c, k)'
               PROVE  /\ Id(c, k)' \in DOMAIN conn' /\ conn'[Id(c, k)'].how = "dial"
                      /\ push'[Id(c, k)'] = "none"
                      /\ \A d \in Client : \A j \in Cmd(d) :
                           Pending(d, j)' /\ Id(d, j)' = Id(c, k)' => d = c /\ j = k
  BY <1>0 DEF Dials
<1>2. Pending(c, k) /\ Id(c, k)' = Id(c, k) /\ push'[Id(c, k)] = push[Id(c, k)]
  BY <1>1
<1>3. Id(c, k) \in DOMAIN conn /\ conn[Id(c, k)].how = "dial" /\ push[Id(c, k)] = "none"
  <2>1. Pending(c, k)
    BY <1>2
  <2> QED BY <2>1, ZenonT(40) DEF Dials
<1>4. ASSUME NEW d \in Client, NEW j \in Cmd(d), Pending(d, j)', Id(d, j)' = Id(c, k)'
      PROVE  d = c /\ j = k
  <2>1. Pending(c, k) /\ Pending(d, j) /\ Id(d, j) = Id(c, k)
    BY <1>2, <1>4
  <2> QED BY <2>1, SMTT(30) DEF Dials
<1> QED BY <1>2, <1>3, <1>4, SMTT(30) DEF Grows

LEMMA AcceptsKept ==
  ASSUME Accepts, Grows, \A i \in DOMAIN conn : conn'[i].how = conn[i].how,
         \A l \in DOMAIN lst' :
           \/ l \in DOMAIN lst /\ lst'[l].queue = lst[l].queue
              /\ (lst'[l].acc = "push" => lst[l].acc = "push" /\ lst'[l].id = lst[l].id)
           \/ lst'[l].queue = <<>> /\ lst'[l].acc # "push"
  PROVE  Accepts'
<1>1. SUFFICES ASSUME NEW l \in DOMAIN lst'
               PROVE  /\ \A j \in DOMAIN lst'[l].queue : lst'[l].queue[j] \in DOMAIN conn'
                                                        /\ conn'[lst'[l].queue[j]].how = "accept"
                      /\ lst'[l].acc = "push" => lst'[l].id \in DOMAIN conn' /\ conn'[lst'[l].id].how = "accept"
  BY DEF Accepts, Sound, AcceptedBy
<1>2. CASE /\ l \in DOMAIN lst /\ lst'[l].queue = lst[l].queue
           /\ lst'[l].acc = "push" => lst[l].acc = "push" /\ lst'[l].id = lst[l].id
  BY <1>2, SMTT(30) DEF Accepts, Sound, AcceptedBy, Grows
<1>3. CASE lst'[l].queue = <<>> /\ lst'[l].acc # "push"
  BY <1>3, SMTT(30)
<1> QED BY <1>2, <1>3

LEMMA ListeningKept ==
  ASSUME Listening, \A c \in Client : Held(c) => Held(c)',
         \A l \in DOMAIN lst' : lst'[l].open => l \in DOMAIN lst /\ lst[l].open /\ lst'[l].for = lst[l].for
  PROVE  Listening'
  BY DEF Listening

LEMMA DialledKept ==
  ASSUME Dialled,
         \A i \in DOMAIN conn' : Leaky(i)' =>
           /\ i \in DOMAIN conn /\ Leaky(i) /\ conn'[i].for = conn[i].for
           /\ \A c \in Client : conn[i].for = c /\ Owned(c, i) => Owned(c, i)'
  PROVE  Dialled'
  BY DEF Dialled

-----------------------------------------------------------------------------
(* Steps that move no request: the pushers, the acceptors, the writer, the *)
(* network.  They may drop a connection from a client's list when it is    *)
(* closed or its pusher failed.                                            *)

Lists(c) ==
  /\ cl'[c].pc = cl[c].pc /\ cl'[c].ports = cl[c].ports
  /\ cl'[c].todoConns = cl[c].todoConns /\ cl'[c].todoPorts = cl[c].todoPorts
Aside(c) == Lists(c) /\ cl'[c].inbox = cl[c].inbox /\ cl'[c].issued = cl[c].issued

(* No request moves, but one may be dispatched.                            *)
Begins(c, k) ==
  At(c, k) = "none" /\ At(c, k)' = "start" /\ (Op(c, k) = "close" => Id(c, k)' \in DOMAIN conn)
Places ==
  \A c \in Client : \A k \in Cmd(c) : (At(c, k)' = At(c, k) /\ Id(c, k)' = Id(c, k)) \/ Begins(c, k)

LEMMA AsideRest ==
  ASSUME IInv, sc' = sc, Places, ConnsFollow, \A c \in Client : Lists(c),
         \A i \in DOMAIN conn :
           /\ Leaky(i)' => Leaky(i) /\ \A c \in Client : i \in cl[c].conns => i \in cl'[c].conns
           /\ push'[i] = push[i] \/ push[i] # "none" \/ conn[i].how = "accept",
         \A l \in DOMAIN lst' : lst'[l].open => l \in DOMAIN lst /\ lst[l].open /\ lst'[l].for = lst[l].for
  PROVE  Closes' /\ Dials' /\ Listening' /\ Dialled'
<1>0. \A c : Cmd(c)' = Cmd(c) /\ \A k : Op(c, k)' = Op(c, k)
  BY ScriptStays
<1>1. Grows /\ DOMAIN conn' = DOMAIN conn
  BY DEF ConnsFollow, Grows
<1>2. \A i \in DOMAIN conn : /\ conn'[i].how = conn[i].how /\ conn'[i].for = conn[i].for
                             /\ conn'[i].open => conn[i].open
  BY DEF ConnsFollow, Follows
<1>4. Closes'
  <2>1. \A c \in Client : \A k \in Cmd(c) : Op(c, k) = "close" =>
           \/ At(c, k)' = At(c, k) /\ Id(c, k)' = Id(c, k)
           \/ Id(c, k)' \in DOMAIN conn' /\ (At(c, k)' = "untrack" => ~conn'[Id(c, k)'].open)
    BY <1>1, SMTT(30) DEF Places, Begins
  <2> QED BY <1>1, <1>2, <2>1, ClosesKept DEF IInv
<1>5. Dials'
  <2>1. ASSUME NEW c \in Client, NEW k \in Cmd(c), Pending(c, k)'
        PROVE  Pending(c, k) /\ Id(c, k)' = Id(c, k) /\ push'[Id(c, k)] = push[Id(c, k)]
    <3>1. Pending(c, k) /\ Id(c, k)' = Id(c, k)
      BY <1>0, <2>1, SMTT(30) DEF Pending, Places, Begins
    <3>2. Id(c, k) \in DOMAIN conn /\ conn[Id(c, k)].how = "dial" /\ push[Id(c, k)] = "none"
      <4>1. Pending(c, k)
        BY <3>1
      <4> QED BY <4>1 DEF IInv, Dials
    <3> QED BY <3>1, <3>2, SMTT(30)
  <2> QED BY <1>1, <1>2, <2>1, DialsKept DEF IInv
<1>6. Listening'
  <2>1. ASSUME NEW c \in Client, Held(c) PROVE Held(c)'
    <3>1. \A k \in Cmd(c) : At(c, k) # "none" => At(c, k)' = At(c, k)
      BY DEF Places, Begins
    <3>2. cl'[c].pc = cl[c].pc /\ cl'[c].ports = cl[c].ports /\ cl'[c].todoPorts = cl[c].todoPorts
      BY DEF Lists
    <3> QED BY <1>0, <2>1, <3>1, <3>2, SMTT(30) DEF Held, Live
  <2> QED BY <2>1, ListeningKept DEF IInv
<1>7. Dialled'
  <2>1. ASSUME NEW i \in DOMAIN conn, Leaky(i)', NEW c \in Client, Owned(c, i) PROVE Owned(c, i)'
    <3>1. \A k \in Cmd(c) : At(c, k) # "none" => At(c, k)' = At(c, k) /\ Id(c, k)' = Id(c, k)
      BY DEF Places, Begins
    <3>2. /\ cl'[c].pc = cl[c].pc /\ cl'[c].todoConns = cl[c].todoConns
          /\ i \in cl[c].conns => i \in cl'[c].conns
      BY <2>1 DEF Lists
    <3> QED BY <1>0, <2>1, <3>1, <3>2, SMTT(30) DEF Owned, Live
  <2>2. \A i \in DOMAIN conn' : Leaky(i)' =>
           /\ i \in DOMAIN conn /\ Leaky(i) /\ conn'[i].for = conn[i].for
           /\ \A c \in Client : conn[i].for = c /\ Owned(c, i) => Owned(c, i)'
    BY <1>1, <1>2, <2>1
  <2> QED BY <2>2, DialledKept DEF IInv
<1> QED BY <1>4, <1>5, <1>6, <1>7

LEMMA AsideStep ==
  ASSUME IInv, Types', Told', Accepts', sc' = sc, SamePlaces, ConnsFollow,
         \A c \in Client : Aside(c),
         \A i \in DOMAIN conn :
           /\ Leaky(i)' => Leaky(i) /\ \A c \in Client : i \in cl[c].conns => i \in cl'[c].conns
           /\ push'[i] = push[i] \/ push[i] # "none" \/ conn[i].how = "accept",
         \A l \in DOMAIN lst' : lst'[l].open => l \in DOMAIN lst /\ lst[l].open /\ lst'[l].for = lst[l].for
  PROVE  IInv'
<1>1. Tasks' /\ Inbox'
  <2>1. \A c \in Client : Serving(c)
    BY DEF Aside, Lists, Serving
  <2>2. \A c \in Client : \A k \in Cmd(c) : At(c, k) = "none" => At(c, k)' = "none"
    BY DEF SamePlaces
  <2>3. Grows
    BY DEF ConnsFollow, Grows
  <2> QED BY <2>1, <2>2, <2>3, ServeKept DEF IInv
<1>2. Places /\ \A c \in Client : Lists(c)
  BY DEF SamePlaces, Places, Aside
<1>3. Closes' /\ Dials' /\ Listening' /\ Dialled'
  BY <1>2, AsideRest
<1> QED BY <1>1, <1>3 DEF IInv

(* A step that changes of all this only what clients are told, or ends a   *)
(* connection.                                                             *)
LEMMA CalmStep ==
  ASSUME IInv, ClientsTyped', TasksTyped', Told', sc' = sc, lst' = lst, push' = push, SamePlaces,
         ConnsFollow, \A c \in Client : Alike(cl'[c], cl[c])
  PROVE  IInv'
<1>1. Types'
  BY DEF IInv, Types, ConnsFollow
<1>2. \A i \in DOMAIN conn : /\ conn'[i].how = conn[i].how /\ conn'[i].for = conn[i].for
                             /\ conn'[i].open => conn[i].open
  BY DEF ConnsFollow, Follows
<1>3. Accepts'
  <2>1. Grows
    BY DEF ConnsFollow, Grows
  <2> QED BY <1>2, <2>1, AcceptsKept DEF IInv
<1>4. \A c \in Client : Aside(c) /\ cl'[c].conns = cl[c].conns
  BY DEF Alike, Aside, Lists
<1>5. \A i \in DOMAIN conn : Leaky(i)' => Leaky(i)
  BY <1>2 DEF Leaky
<1> QED BY <1>1, <1>3, <1>4, <1>5, AsideStep

-----------------------------------------------------------------------------
(* The calm steps.                                                         *)

(* An update of one client's record that leaves Alike alone.               *)
LEMMA PutAlike ==
  ASSUME ClientsTyped, Told, Grows, NEW c \in Client, NEW r \in ClientType,
         cl' = [cl EXCEPT ![c] = r], Alike(r, cl[c]), r.known \subseteq DOMAIN conn',
         TrueQueue(r.q, DOMAIN conn')
  PROVE  ClientsTyped' /\ Told' /\ \A d \in Client : Alike(cl'[d], cl[d])
<1>1. ClientsTyped' /\ cl'[c] = r /\ \A d \in Client : d # c => cl'[d] = cl[d]
  BY PutClient
<1>2. Told'
  BY <1>1, ToldPut
<1>3. \A d \in Client : Alike(cl'[d], cl[d])
  BY <1>1 DEF Alike
<1> QED BY <1>1, <1>2, <1>3

LEMMA KeepAlike ==
  ASSUME ClientsTyped, Told, Grows, cl' = cl
  PROVE  ClientsTyped' /\ Told' /\ \A d \in Client : Alike(cl'[d], cl[d])
<1>1. ClientsTyped' /\ \A d \in Client : Alike(cl'[d], cl[d])
  BY DEF ClientsTyped, Alike
<1>2. Told'
  BY SMTT(30) DEF Told, Fits, Grows
<1> QED BY <1>1, <1>2

(* ipcWrite: queued or refused.                                            *)
LEMMA Writes ==
  ASSUME ClientsTyped, Told, Grows, NEW c \in Client, NEW m \in Msg, Fits(m, DOMAIN conn'),
         Queued(c, m) \/ Refused(c)
  PROVE  ClientsTyped' /\ Told' /\ \A d \in Client : Alike(cl'[d], cl[d])
<1>1. CASE Queued(c, m)
  <2> DEFINE x == Append(cl[c].q, m)
             r == [cl[c] EXCEPT !.q = x]
  <2>1. cl[c] \in ClientType
    BY SMTT(30) DEF ClientsTyped
  <2>2. TrueQueue(cl[c].q, DOMAIN conn) /\ cl[c].known \subseteq DOMAIN conn
    BY ToldIs
  <2>3. TrueQueue(cl[c].q, DOMAIN conn')
    BY <2>2, QueueStays DEF Grows
  <2>4. TrueQueue(x, DOMAIN conn')
    BY <2>3, QueueGrows
  <2>5. cl' = [cl EXCEPT ![c] = r]
    BY <1>1 DEF Queued
  <2> HIDE DEF x
  <2>6. x \in Queue
    BY <2>4 DEF TrueQueue
  <2>7. r \in ClientType /\ Alike(r, cl[c]) /\ r.known = cl[c].known /\ r.q = x
    BY <2>1, <2>6, ClientUpdates DEF Hears
  <2>8. r.known \subseteq DOMAIN conn'
    BY <2>2, <2>7, SMTT(30) DEF Grows
  <2>9. TrueQueue(r.q, DOMAIN conn')
    BY <2>4, <2>7
  <2> HIDE DEF r
  <2> QED BY <2>5, <2>7, <2>8, <2>9, PutAlike
<1>2. CASE Refused(c)
  BY <1>2, KeepAlike DEF Refused
<1> QED BY <1>1, <1>2

LEMMA Still ==
  ASSUME Types, UNCHANGED conn
  PROVE  ConnsFollow /\ Grows
  BY ConnsStay DEF Types, ConnsFollow, Grows

LEMMA TasksStay ==
  ASSUME Types, sc' = sc, task' = task
  PROVE  TasksTyped' /\ SamePlaces
<1>1. \A c : Cmd(c)' = Cmd(c)
  BY DEF Cmd, Script
<1> QED BY <1>1 DEF Types, TasksTyped, SamePlaces, At, Id

LEMMA PushDatagramStep ==
  ASSUME IInv, NEW c \in Client, PushDatagram(c) PROVE IInv'
<1> DEFINE m == [op |-> "recvFrom", id |-> 0]
<1>1. m \in Msg /\ Fits(m, DOMAIN conn')
  <2>1. "recvFrom" \in MsgOp /\ 0 \in Nat
    BY SMTT(30) DEF MsgOp
  <2>2. m \in Msg /\ m.op = "recvFrom"
    BY <2>1, MsgTyped
  <2> QED BY <2>2, SMTT(30) DEF Fits
<1>2. (Queued(c, m) \/ Refused(c)) /\ UNCHANGED <<sc, task, lst, conn, push>>
  BY DEF PushDatagram, overlay
<1> HIDE DEF m
<1>3. Types /\ ClientsTyped /\ Told
  BY DEF IInv, Types
<1>4. ConnsFollow /\ Grows /\ TasksTyped' /\ SamePlaces
  BY <1>2, <1>3, Still, TasksStay
<1>5. ClientsTyped' /\ Told' /\ \A d \in Client : Alike(cl'[d], cl[d])
  BY <1>1, <1>2, <1>3, <1>4, Writes
<1> QED BY <1>2, <1>4, <1>5, CalmStep

LEMMA LeaveStep ==
  ASSUME IInv, NEW c \in Client, Leave(c) PROVE IInv'
<1> DEFINE r == [cl[c] EXCEPT !.eof = TRUE]
<1>2. cl' = [cl EXCEPT ![c] = r] /\ UNCHANGED <<sc, task, lst, conn, push>>
  BY DEF Leave, overlay, server
<1>3. Types /\ ClientsTyped /\ Told /\ cl[c] \in ClientType
  BY DEF IInv, Types, ClientsTyped
<1>4. ConnsFollow /\ Grows /\ TasksTyped' /\ SamePlaces
  BY <1>2, <1>3, Still, TasksStay
<1>5. r \in ClientType /\ Alike(r, cl[c]) /\ r.known = cl[c].known /\ r.q = cl[c].q
  BY <1>3, ClientUpdates DEF Hears
<1> HIDE DEF r
<1>6. r.known \subseteq DOMAIN conn' /\ TrueQueue(r.q, DOMAIN conn')
  BY <1>2, <1>3, <1>5, ToldIs
<1>7. ClientsTyped' /\ Told' /\ \A d \in Client : Alike(cl'[d], cl[d])
  BY <1>2, <1>3, <1>4, <1>5, <1>6, PutAlike
<1> QED BY <1>2, <1>4, <1>7, CalmStep

LEMMA WriteLoopStep ==
  ASSUME IInv, NEW c \in Client, writeLoop(c) PROVE IInv'
<1> DEFINE s == cl[c]
<1>2. UNCHANGED <<sc, task, lst, conn, push>>
  BY DEF writeLoop, overlay, server
<1>3. Types /\ ClientsTyped /\ Told /\ s \in ClientType
  BY DEF IInv, Types, ClientsTyped
<1>4. ConnsFollow /\ Grows /\ TasksTyped' /\ SamePlaces
  BY <1>2, <1>3, Still, TasksStay
<1>5. TrueQueue(s.q, DOMAIN conn') /\ s.known \subseteq DOMAIN conn'
  BY <1>2, <1>3, ToldIs
<1>6. SUFFICES ASSUME NEW r \in ClientType, cl' = [cl EXCEPT ![c] = r], Alike(r, s),
                      r.known \subseteq DOMAIN conn', TrueQueue(r.q, DOMAIN conn')
               PROVE  IInv'
  <2>1. ASSUME s.q # <<>>, cl' = [cl EXCEPT ![c] = Learn([s EXCEPT !.q = Tail(@)], s.q[1])]
        PROVE  IInv'
    <3> DEFINE m == s.q[1]
               x == Tail(s.q)
               t == [s EXCEPT !.q = x]
               r == Learn(t, m)
    <3>1. TrueQueue(x, DOMAIN conn') /\ m \in Msg /\ Fits(m, DOMAIN conn')
      BY <1>5, <2>1, QueueShrinks
    <3>2. cl' = [cl EXCEPT ![c] = r]
      BY <2>1
    <3> HIDE DEF m, x
    <3>3. x \in Queue
      BY <3>1 DEF TrueQueue
    <3>4. t \in ClientType /\ Alike(t, s) /\ t.known = s.known /\ t.q = x
      BY <1>3, <3>3, ClientUpdates DEF Hears
    <3> HIDE DEF t
    <3>5. m.id \in Nat /\ (m.op = "dialOK" => m.k \in Nat)
      BY <3>1, SMTT(30) DEF Msg, MsgOp
    <3>6. t.answers \in SUBSET Nat /\ t.known \in SUBSET Nat
      BY <3>4, ClientFields
    <3> DEFINE Out(u) == /\ u \in ClientType /\ Alike(u, t) /\ u.q = t.q
                         /\ u.known \subseteq DOMAIN conn'
    <3>7. t.known \subseteq DOMAIN conn'
      BY <1>5, <3>4
    <3>8. ASSUME NEW n \in Nat PROVE Out([t EXCEPT !.answers = @ \cup {n}])
      <4>1. t.answers \cup {n} \in SUBSET Nat
        BY <3>6, SMTT(30)
      <4> QED BY <3>4, <3>7, <4>1, ClientUpdates DEF Hears
    <3>9. ASSUME NEW u, Out(u), m.op \in {"dialOK", "accept"} PROVE Out([u EXCEPT !.known = @ \cup {m.id}])
      <4> DEFINE K == u.known \cup {m.id}
                 v == [u EXCEPT !.known = K]
      <4>1. K \in SUBSET Nat /\ K \subseteq DOMAIN conn'
        <5>1. u.known \in SUBSET Nat
          BY <3>9, ClientFields
        <5> QED BY <3>1, <3>5, <3>9, <5>1, SMTT(30) DEF Fits
      <4> HIDE DEF K
      <4>2. v \in ClientType /\ Alike(v, u) /\ v.known = K /\ v.q = u.q
        BY <3>9, <4>1, ClientUpdates, ZenonT(40) DEF Hears
      <4>3. Out(v)
        BY <3>9, <4>1, <4>2 DEF Alike
      <4> QED BY <4>3 DEF K
    <3>10. Out(t)
      BY <3>4, <3>7 DEF Alike
    <3> HIDE DEF Out
    <3>11. Out(r)
      <4>1. CASE m.op = "reply"
        BY <3>5, <3>8, <4>1, SMTT(30) DEF Learn
      <4>2. CASE m.op = "dialOK"
        <5> DEFINE u == [t EXCEPT !.answers = @ \cup {m.k}]
        <5>1. Out(u)
          BY <3>5, <3>8, <4>2
        <5>2. r = [u EXCEPT !.known = @ \cup {m.id}]
          <6>1. r = [t EXCEPT !.answers = @ \cup {m.k}, !.known = @ \cup {m.id}]
            BY <4>2, SMTT(30) DEF Learn
          <6> QED BY <6>1
        <5> QED BY <3>9, <4>2, <5>1, <5>2
      <4>3. CASE m.op = "accept"
        BY <3>9, <3>10, <4>3, SMTT(30) DEF Learn
      <4>4. CASE m.op \notin {"reply", "dialOK", "accept"}
        BY <3>10, <4>4, SMTT(30) DEF Learn
      <4> QED BY <4>1, <4>2, <4>3, <4>4
    <3> HIDE DEF r
    <3>12. /\ r \in ClientType /\ Alike(r, s) /\ r.known \subseteq DOMAIN conn'
           /\ TrueQueue(r.q, DOMAIN conn')
      BY <3>1, <3>4, <3>11 DEF Out, Alike
    <3> QED BY <1>6, <3>2, <3>12
  <2>2. ASSUME cl' = [cl EXCEPT ![c].wdone = TRUE, ![c].shut = TRUE]
        PROVE  IInv'
    <3> DEFINE t == [s EXCEPT !.wdone = TRUE]
               r == [t EXCEPT !.shut = TRUE]
               half == [cl EXCEPT ![c] = t]
    <3>1. t \in ClientType /\ Alike(t, s) /\ t.known = s.known /\ t.q = s.q
      BY <1>3, ClientUpdates DEF Hears
    <3>2. cl' = [half EXCEPT ![c] = [half[c] EXCEPT !.shut = TRUE]]
      BY <2>2
    <3> HIDE DEF t
    <3>3. half[c] = t
      BY <1>3, SMTT(30) DEF ClientsTyped
    <3>4. cl' = [cl EXCEPT ![c] = r]
      BY <3>2, <3>3, PutTwice
    <3>5. r \in ClientType /\ Alike(r, t) /\ r.known = t.known /\ r.q = t.q
      BY <3>1, ClientUpdates DEF Hears
    <3> HIDE DEF r
    <3>6. Alike(r, s) /\ r.known \subseteq DOMAIN conn' /\ TrueQueue(r.q, DOMAIN conn')
      BY <1>5, <3>1, <3>5 DEF Alike
    <3> QED BY <1>6, <3>4, <3>5, <3>6
  <2> QED BY <2>1, <2>2 DEF writeLoop
<1>7. ClientsTyped' /\ Told' /\ \A d \in Client : Alike(cl'[d], cl[d])
  BY <1>3, <1>4, <1>6, PutAlike
<1> QED BY <1>2, <1>4, <1>7, CalmStep

LEMMA CloseClientsStep ==
  ASSUME IInv, CloseClients PROVE IInv'
<1>1. Close(Clients) /\ UNCHANGED <<sc, lst, conn, push>>
  BY DEF CloseClients, overlay
<1>2. Types /\ ClientsTyped /\ Told
  BY DEF IInv, Types
<1>3. ConnsFollow /\ Grows
  BY <1>1, <1>2, Still
<1>4. TasksTyped' /\ SamePlaces
  <2>1. /\ DOMAIN task' = Client
        /\ \A c \in Client : task'[c] = task[c] \/ task'[c] = cancelAllDials(task[c])
    BY <1>1, SMTT(30) DEF Close
  <2> QED BY <1>1, <1>2, <2>1, Cancels DEF Types
<1> DEFINE done(c) == [cl[c] EXCEPT !.done = TRUE]
<1>5. \A c \in Client : cl'[c] = cl[c] \/ cl'[c] = done(c)
  BY <1>1, SMTT(30) DEF Close
<1>6. \A c \in Client : cl[c] \in ClientType
  BY <1>2 DEF ClientsTyped
<1>7. \A c \in Client : /\ done(c) \in ClientType /\ Alike(done(c), cl[c])
                        /\ done(c).known = cl[c].known /\ done(c).q = cl[c].q
  BY <1>6, ClientUpdates DEF Hears
<1> HIDE DEF done
<1>8. \A c \in Client : /\ cl'[c] \in ClientType /\ Alike(cl'[c], cl[c])
                        /\ cl'[c].known = cl[c].known /\ cl'[c].q = cl[c].q
  BY <1>5, <1>6, <1>7, ZenonT(40) DEF Alike
<1>9. ClientsTyped'
  <2>1. cl' = [c \in Client |-> cl'[c]]
    BY <1>1, SMTT(30) DEF Close
  <2> QED BY <1>8, <2>1, SMTT(30) DEF ClientsTyped
<1>10. Told'
  BY <1>1, <1>2, <1>8 DEF Told
<1> QED BY <1>1, <1>3, <1>4, <1>8, <1>9, <1>10, CalmStep

(* Nothing the invariant speaks of changes.                                *)
LEMMA IdleStep ==
  ASSUME IInv, UNCHANGED <<sc, cl, task, lst, conn, push>> PROVE IInv'
<1>1. Types /\ ClientsTyped /\ Told
  BY DEF IInv, Types
<1>2. ConnsFollow /\ Grows /\ TasksTyped' /\ SamePlaces
  BY <1>1, Still, TasksStay
<1> QED BY <1>1, <1>2, KeepAlike, CalmStep

(* Only the connections change.                                            *)
LEMMA ConnStep ==
  ASSUME IInv, UNCHANGED <<sc, cl, task, lst, push>>, ConnsFollow PROVE IInv'
<1>1. Types /\ ClientsTyped /\ Told
  BY DEF IInv, Types
<1>2. Grows /\ TasksTyped' /\ SamePlaces
  BY <1>1, TasksStay DEF ConnsFollow, Grows
<1> QED BY <1>1, <1>2, KeepAlike, CalmStep

LEMMA ConnAt ==
  ASSUME IInv, NEW i \in DOMAIN conn
  PROVE  conn \in Seq(ConnType) /\ conn[i] \in ConnType /\ conn[i].for \in Client
<1>1. conn \in Seq(ConnType)
  BY DEF IInv, Types
<1>2. conn[i] \in ConnType
  BY <1>1, SMTT(30)
<1> QED BY <1>1, <1>2, ConnFields

LEMMA PeerSendsStep ==
  ASSUME IInv, NEW i \in DOMAIN conn, PeerSends(i) PROVE IInv'
<1>1. conn \in Seq(ConnType) /\ conn[i] \in ConnType
  BY ConnAt
<1> DEFINE s == conn[i]
           t == [s EXCEPT !.in = s.in + 1]
           r == [t EXCEPT !.more = s.more - 1]
           half == [conn EXCEPT ![i] = t]
<1>2. s.in + 1 \in Nat /\ s.more - 1 \in Nat
  <2>1. s.in \in Nat /\ s.more \in Nat
    BY <1>1, ConnFields
  <2> QED BY <2>1, SMTT(30) DEF PeerSends
<1>3. Follows(t, s) /\ t \in ConnType /\ t.more = s.more
  <2>1. t.more = s.more
    BY <1>1, SMTT(30) DEF ConnType
  <2> QED BY <1>1, <1>2, <2>1, ConnUpdates, ZenonT(40) DEF Follows
<1>4. conn' = [half EXCEPT ![i] = [half[i] EXCEPT !.more = half[i].more - 1]]
  BY DEF PeerSends
<1> HIDE DEF t
<1>5. half[i] = t
  BY SMTT(30)
<1>6. conn' = [conn EXCEPT ![i] = r]
  <2>1. conn' = [half EXCEPT ![i] = r]
    BY <1>3, <1>4, <1>5
  <2> QED BY <2>1, PutTwice
<1>7. Follows(r, t)
  BY <1>2, <1>3, ConnUpdates
<1>8. Follows(r, s)
  BY <1>3, <1>7 DEF Follows
<1> HIDE DEF r
<1>9. ConnsFollow
  BY <1>1, <1>6, <1>8, PutConn
<1> QED BY <1>9, ConnStep DEF PeerSends, server

LEMMA PeerClosesStep ==
  ASSUME IInv, NEW i \in DOMAIN conn, PeerCloses(i) PROVE IInv'
<1>1. conn \in Seq(ConnType) /\ "peer" \in By
  BY ConnAt DEF By
<1>2. ConnsFollow
  BY <1>1, ConnCloses DEF PeerCloses
<1> QED BY <1>2, ConnStep DEF PeerCloses, server

-----------------------------------------------------------------------------
(* The pushers and the acceptors.                                          *)

(* Dropping or entering a connection in a client's list.                   *)
LEMMA ListUpdates ==
  ASSUME NEW r \in ClientType, NEW N \in SUBSET Nat
  PROVE  LET u == [r EXCEPT !.conns = N] IN
         /\ u \in ClientType /\ u.conns = N /\ u.known = r.known /\ u.q = r.q
         /\ u.pc = r.pc /\ u.ports = r.ports /\ u.todoConns = r.todoConns
         /\ u.todoPorts = r.todoPorts /\ u.inbox = r.inbox /\ u.issued = r.issued
  BY SMTT(30) DEF ClientType

(* The client of a record is Aside, its list is N, and it has been told    *)
(* nothing but m.                                                          *)
LEMMA PutAside ==
  ASSUME ClientsTyped, Told, Grows, NEW c \in Client, NEW N \in SUBSET Nat, NEW s \in ClientType,
         Alike(s, cl[c]), s.known = cl[c].known, TrueQueue(s.q, DOMAIN conn'),
         cl' = [cl EXCEPT ![c] = [s EXCEPT !.conns = N]]
  PROVE  /\ ClientsTyped' /\ Told' /\ \A d \in Client : Aside(d)
         /\ cl'[c].conns = N /\ \A d \in Client : d # c => cl'[d].conns = cl[d].conns
<1> DEFINE r == [s EXCEPT !.conns = N]
<1>1. /\ r \in ClientType /\ r.conns = N /\ r.known = s.known /\ r.q = s.q
      /\ r.pc = s.pc /\ r.ports = s.ports /\ r.todoConns = s.todoConns
      /\ r.todoPorts = s.todoPorts /\ r.inbox = s.inbox /\ r.issued = s.issued
  BY ListUpdates
<1>2. cl' = [cl EXCEPT ![c] = r]
  OBVIOUS
<1> HIDE DEF r
<1>3. ClientsTyped' /\ cl'[c] = r /\ \A d \in Client : d # c => cl'[d] = cl[d]
  BY <1>1, <1>2, PutClient
<1>4. cl'[c].known \subseteq DOMAIN conn' /\ TrueQueue(cl'[c].q, DOMAIN conn')
  <2>1. cl[c].known \subseteq DOMAIN conn
    BY ToldIs
  <2> QED BY <1>1, <1>3, <2>1, SMTT(30) DEF Grows
<1>5. Told'
  BY <1>3, <1>4, ToldPut
<1>6. ASSUME NEW d \in Client PROVE Aside(d) /\ (d # c => cl'[d].conns = cl[d].conns)
  <2>1. CASE d = c
    BY <1>1, <1>3, <2>1 DEF Aside, Lists, Alike
  <2>2. CASE d # c
    BY <1>3, <2>2 DEF Aside, Lists
  <2> QED BY <2>1, <2>2
<1> QED BY <1>1, <1>3, <1>5, <1>6

(* startRecvPusher forgets a connection of a client only when it is closed *)
(* or the push has failed.                                                 *)
LEMMA PusherStep ==
  ASSUME IInv, NEW i \in DOMAIN conn, startRecvPusher(i) PROVE IInv'
<1>1. conn \in Seq(ConnType) /\ conn[i] \in ConnType /\ conn[i].for \in Client
  BY ConnAt
<1>2. Types /\ ClientsTyped /\ Told /\ push \in Seq(PushType) /\ Len(push) = Len(conn)
  BY DEF IInv, Types
<1>3. i \in Nat /\ i \in DOMAIN push /\ DOMAIN push = DOMAIN conn
  BY <1>1, <1>2, SMTT(30)
<1>4. push[i] = "run" /\ UNCHANGED <<sc, task, lst>>
  BY DEF startRecvPusher, server
<1>5. TasksTyped' /\ SamePlaces
  BY <1>2, <1>4, TasksStay
<1>c. PICK c \in Client : c = conn[i].for
  BY <1>1
<1>6. ASSUME conn[i].in > 0, Queued(c, [op |-> "recv", id |-> i]),
             conn' = [conn EXCEPT ![i].in = @ - 1], UNCHANGED push
      PROVE  IInv'
  <2> DEFINE m == [op |-> "recv", id |-> i]
             r == [conn[i] EXCEPT !.in = conn[i].in - 1]
  <2>1. conn[i].in - 1 \in Nat
    <3>1. conn[i].in \in Nat
      BY <1>1, ConnFields
    <3> QED BY <1>6, <3>1, SMTT(30)
  <2>2. Follows(r, conn[i])
    BY <1>1, <2>1, ConnUpdates
  <2>3. conn' = [conn EXCEPT ![i] = r]
    BY <1>6
  <2> HIDE DEF r
  <2>4. ConnsFollow /\ Grows
    BY <1>1, <2>2, <2>3, PutConn DEF ConnsFollow, Grows
  <2>5. m \in Msg /\ Fits(m, DOMAIN conn')
    <3>1. "recv" \in MsgOp
      BY DEF MsgOp
    <3>2. m \in Msg /\ m.op = "recv"
      BY <1>3, <3>1, MsgTyped
    <3> QED BY <3>2, SMTT(30) DEF Fits
  <2> HIDE DEF m
  <2>6. Queued(c, m)
    BY <1>6 DEF m
  <2>7. ClientsTyped' /\ Told' /\ \A d \in Client : Alike(cl'[d], cl[d])
    BY <1>2, <2>4, <2>5, <2>6, Writes
  <2> QED BY <1>4, <1>5, <1>6, <2>4, <2>7, CalmStep
<1> DEFINE N == cl[c].conns \ {i}
<1>7. ASSUME NEW s \in ClientType, Alike(s, cl[c]), s.known = cl[c].known,
             TrueQueue(s.q, DOMAIN conn), cl' = [cl EXCEPT ![c] = [s EXCEPT !.conns = N]],
             NEW e \in {"lost", "end"}, push' = [push EXCEPT ![i] = e], e = "lost" \/ ~conn[i].open,
             UNCHANGED conn
      PROVE  IInv'
  <2>1. ConnsFollow /\ Grows
    BY <1>2, <1>7, Still
  <2>2. N \in SUBSET Nat
    <3>1. cl[c].conns \in SUBSET Nat
      BY <1>2, ClientFields DEF ClientsTyped
    <3> QED BY <3>1, SMTT(30)
  <2>3. /\ ClientsTyped' /\ Told' /\ \A d \in Client : Aside(d)
        /\ cl'[c].conns = N /\ \A d \in Client : d # c => cl'[d].conns = cl[d].conns
    BY <1>2, <1>7, <2>1, <2>2, PutAside
  <2>4. push' \in Seq(PushType) /\ Len(push') = Len(push) /\ push'[i] = e
        /\ \A j \in DOMAIN conn : j # i => push'[j] = push[j]
    <3>1. e \in PushType
      BY DEF PushType
    <3> QED BY <1>2, <1>3, <1>7, <3>1, SMTT(30)
  <2>5. Types'
    BY <1>2, <1>4, <1>5, <1>7, <2>3, <2>4 DEF Types
  <2>6. Accepts'
    BY <1>4, <1>7 DEF IInv, Accepts
  <2>7. ~Leaky(i)'
    BY <1>7, <2>4, SMTT(30) DEF Leaky
  <2>8. \A j \in DOMAIN conn : Leaky(j)' => j # i /\ Leaky(j)
    BY <1>7, <2>4, <2>7 DEF Leaky
  <2>9. \A j \in DOMAIN conn : j # i => \A d \in Client : j \in cl[d].conns => j \in cl'[d].conns
    BY <2>3, SMTT(30)
  <2>10. \A j \in DOMAIN conn : push'[j] = push[j] \/ push[j] # "none"
    BY <1>4, <2>4, SMTT(30)
  <2>11. \A l \in DOMAIN lst' : lst'[l].open => l \in DOMAIN lst /\ lst[l].open /\ lst'[l].for = lst[l].for
    BY <1>4
  <2> QED BY <1>4, <1>5, <2>1, <2>3, <2>5, <2>6, <2>8, <2>9, <2>10, <2>11, AsideStep
<1>8. cl[c] \in ClientType /\ Alike(cl[c], cl[c]) /\ TrueQueue(cl[c].q, DOMAIN conn)
  BY <1>2, ToldIs DEF ClientsTyped, Alike
<1>9. ASSUME cl' = [cl EXCEPT ![c].conns = @ \ {i}], UNCHANGED conn,
             \/ push' = [push EXCEPT ![i] = "lost"]
             \/ push' = [push EXCEPT ![i] = "end"] /\ ~conn[i].open
      PROVE  IInv'
  <2>1. cl' = [cl EXCEPT ![c] = [cl[c] EXCEPT !.conns = N]]
    BY <1>9
  <2> HIDE DEF N
  <2> QED BY <1>7, <1>8, <1>9, <2>1
<1>10. ASSUME cl' = [[cl EXCEPT ![c].q = Append(@, [op |-> "closeOK", id |-> i])] EXCEPT ![c].conns = @ \ {i}],
              UNCHANGED conn, push' = [push EXCEPT ![i] = "end"], ~conn[i].open
       PROVE  IInv'
  <2> DEFINE m == [op |-> "closeOK", id |-> i]
             x == Append(cl[c].q, m)
             s == [cl[c] EXCEPT !.q = x]
             half == [cl EXCEPT ![c] = s]
  <2>1. m \in Msg /\ Fits(m, DOMAIN conn)
    <3>1. "closeOK" \in MsgOp
      BY DEF MsgOp
    <3>2. m \in Msg /\ m.op = "closeOK"
      BY <1>3, <3>1, MsgTyped
    <3> QED BY <3>2, SMTT(30) DEF Fits
  <2>2. cl' = [half EXCEPT ![c] = [half[c] EXCEPT !.conns = half[c].conns \ {i}]]
    BY <1>10
  <2> HIDE DEF m
  <2>3. TrueQueue(x, DOMAIN conn)
    BY <1>8, <2>1, QueueGrows
  <2> HIDE DEF x
  <2>4. x \in Queue
    BY <2>3 DEF TrueQueue
  <2>5. s \in ClientType /\ Alike(s, cl[c]) /\ s.known = cl[c].known /\ s.q = x
    BY <1>8, <2>4, ClientUpdates DEF Hears
  <2> HIDE DEF s
  <2>6. half[c] = s
    BY <1>2, SMTT(30) DEF ClientsTyped
  <2>7. s.conns \ {i} = N
    BY <2>5 DEF Alike
  <2>8. cl' = [half EXCEPT ![c] = [s EXCEPT !.conns = N]]
    BY <2>2, <2>6, <2>7
  <2>9. cl' = [cl EXCEPT ![c] = [s EXCEPT !.conns = N]]
    BY <2>8, PutTwice
  <2> HIDE DEF N, half
  <2> QED BY <1>7, <1>10, <2>3, <2>5, <2>9
<1>11. \/ /\ conn[i].in > 0 /\ Queued(c, [op |-> "recv", id |-> i])
          /\ conn' = [conn EXCEPT ![i].in = @ - 1] /\ UNCHANGED push
       \/ /\ cl' = [cl EXCEPT ![c].conns = @ \ {i}] /\ UNCHANGED conn
          /\ \/ push' = [push EXCEPT ![i] = "lost"]
             \/ push' = [push EXCEPT ![i] = "end"] /\ ~conn[i].open
       \/ /\ cl' = [[cl EXCEPT ![c].q = Append(@, [op |-> "closeOK", id |-> i])] EXCEPT ![c].conns = @ \ {i}]
          /\ UNCHANGED conn /\ push' = [push EXCEPT ![i] = "end"] /\ ~conn[i].open
  BY <1>c DEF startRecvPusher
<1> QED BY <1>6, <1>9, <1>10, <1>11

AccState == {"none", "idle", "push", "end"}
Kept(r, s) == r \in ListenerType /\ r.open = s.open /\ r.for = s.for /\ r.port = s.port

Turns(u, r, q, i, a) == Kept(u, r) /\ u.queue = q /\ u.id = i /\ u.acc = a

LEMMA ListenerUpdates ==
  ASSUME NEW r \in ListenerType
  PROVE  /\ \A x \in AccState : Turns([r EXCEPT !.acc = x], r, r.queue, r.id, x)
         /\ \A x \in Nat : Turns([r EXCEPT !.id = x], r, r.queue, x, r.acc)
         /\ \A x \in Numbers : Turns([r EXCEPT !.queue = x], r, x, r.id, r.acc)
         /\ r.queue \in Numbers /\ r.id \in Nat /\ r.for \in Client /\ r.acc \in AccState
<1>1. \A x \in AccState : Turns([r EXCEPT !.acc = x], r, r.queue, r.id, x)
  BY SMTT(30) DEF ListenerType, Kept, AccState, Turns
<1>2. \A x \in Nat : Turns([r EXCEPT !.id = x], r, r.queue, x, r.acc)
  BY SMTT(30) DEF ListenerType, Kept, Turns
<1>3. \A x \in Numbers : Turns([r EXCEPT !.queue = x], r, x, r.id, r.acc)
  BY SMTT(30) DEF ListenerType, Kept, Turns
<1>4. r.queue \in Numbers /\ r.id \in Nat /\ r.for \in Client /\ r.acc \in AccState
  BY SMTT(30) DEF ListenerType, AccState
<1> QED BY <1>1, <1>2, <1>3, <1>4

LEMMA PutListener ==
  ASSUME lst \in Seq(ListenerType), NEW l \in DOMAIN lst, NEW r \in ListenerType,
         lst' = [lst EXCEPT ![l] = r]
  PROVE  /\ lst' \in Seq(ListenerType) /\ DOMAIN lst' = DOMAIN lst /\ lst'[l] = r
         /\ \A j \in DOMAIN lst : j # l => lst'[j] = lst[j]
  BY SMTT(30)

(* The acceptor of one listener moves; a connection it starts a pusher for *)
(* was accepted.                                                           *)
LEMMA AcceptorMoves ==
  ASSUME IInv, NEW l \in DOMAIN lst, NEW r, Kept(r, lst[l]), Sound(r, conn),
         lst' = [lst EXCEPT ![l] = r], UNCHANGED <<sc, task, conn>>,
         ClientsTyped', Told', \A c \in Client : Aside(c) /\ cl[c].conns \subseteq cl'[c].conns,
         \/ UNCHANGED push
         \/ \E i \in DOMAIN conn, e \in PushType : AcceptedBy(i, conn) /\ push' = [push EXCEPT ![i] = e]
  PROVE  IInv'
<1>1. Types /\ lst \in Seq(ListenerType) /\ r \in ListenerType /\ push \in Seq(PushType)
      /\ Len(push) = Len(conn) /\ conn \in Seq(ConnType)
  BY DEF IInv, Types, Kept
<1>2. ConnsFollow /\ TasksTyped' /\ SamePlaces
  BY <1>1, Still, TasksStay
<1>3. /\ lst' \in Seq(ListenerType) /\ DOMAIN lst' = DOMAIN lst /\ lst'[l] = r
      /\ \A j \in DOMAIN lst : j # l => lst'[j] = lst[j]
  BY <1>1, PutListener
<1>4. push' \in Seq(PushType) /\ Len(push') = Len(push)
      /\ \A i \in DOMAIN conn : push'[i] = push[i] \/ conn[i].how = "accept"
  <2>1. ASSUME NEW i \in DOMAIN conn, NEW e \in PushType, conn[i].how = "accept",
               push' = [push EXCEPT ![i] = e]
        PROVE  push' \in Seq(PushType) /\ Len(push') = Len(push)
               /\ \A j \in DOMAIN conn : push'[j] = push[j] \/ conn[j].how = "accept"
    BY <1>1, <2>1, SMTT(30)
  <2> QED BY <1>1, <2>1 DEF AcceptedBy
<1>5. Types'
  BY <1>1, <1>2, <1>3, <1>4 DEF Types
<1>6. Accepts'
  <2>1. \A j \in DOMAIN lst' : Sound(lst'[j], conn)
    BY <1>3 DEF IInv, Accepts
  <2> QED BY <2>1 DEF Accepts
<1>7. \A i \in DOMAIN conn : Leaky(i)' => Leaky(i)
  BY <1>4, SMTT(30) DEF Leaky
<1>8. \A i \in DOMAIN conn : \A c \in Client : i \in cl[c].conns => i \in cl'[c].conns
  BY SMTT(30)
<1>9. \A j \in DOMAIN lst' : lst'[j].open => j \in DOMAIN lst /\ lst[j].open /\ lst'[j].for = lst[j].for
  BY <1>3 DEF Kept
<1> QED BY <1>2, <1>4, <1>5, <1>6, <1>7, <1>8, <1>9, AsideStep

LEMMA AcceptorStep ==
  ASSUME IInv, NEW l \in DOMAIN lst, Acceptor(l) PROVE IInv'
<1> DEFINE L == lst[l]
<1>1. Types /\ ClientsTyped /\ Told /\ lst \in Seq(ListenerType) /\ conn \in Seq(ConnType)
  BY DEF IInv, Types
<1>2. L \in ListenerType
  BY <1>1, SMTT(30)
<1>3. L.queue \in Numbers /\ L.id \in Nat /\ L.for \in Client /\ Sound(L, conn)
  BY <1>2, ListenerUpdates DEF IInv, Accepts
<1>4. UNCHANGED <<sc, task, conn>>
  BY DEF Acceptor, server
<1>5. Grows
  BY <1>4 DEF Grows
<1>c. PICK c \in Client : c = L.for
  BY <1>3
<1>6. AccState = {"none", "idle", "push", "end"} /\ 0 \in Nat
  BY SMTT(30) DEF AccState
<1>7. ASSUME \A d \in Client : Alike(cl'[d], cl[d])
      PROVE  \A d \in Client : Aside(d) /\ cl[d].conns \subseteq cl'[d].conns
  BY <1>7 DEF Alike, Aside, Lists
<1>8. ASSUME L.acc = "push", Queued(c, [op |-> "accept", id |-> L.id]),
             lst' = [lst EXCEPT ![l].acc = "idle", ![l].id = 0], push' = [push EXCEPT ![L.id] = "run"]
      PROVE  IInv'
  <2> DEFINE m == [op |-> "accept", id |-> L.id]
             s == [L EXCEPT !.acc = "idle"]
             r == [s EXCEPT !.id = 0]
             half == [lst EXCEPT ![l] = s]
  <2>1. AcceptedBy(L.id, conn)
    BY <1>3, <1>8 DEF Sound
  <2>2. m \in Msg /\ Fits(m, DOMAIN conn')
    <3>1. "accept" \in MsgOp
      BY DEF MsgOp
    <3>2. m \in Msg /\ m.id = L.id
      BY <1>3, <3>1, MsgTyped
    <3> QED BY <1>4, <2>1, <3>2 DEF Fits, AcceptedBy
  <2> HIDE DEF m
  <2>3. ClientsTyped' /\ Told' /\ \A d \in Client : Alike(cl'[d], cl[d])
    <3>1. Queued(c, m)
      BY <1>8 DEF m
    <3> QED BY <1>1, <1>5, <2>2, <3>1, Writes
  <2>4. lst' = [half EXCEPT ![l] = [half[l] EXCEPT !.id = 0]]
    BY <1>8
  <2>5. Kept(s, L) /\ s.acc = "idle" /\ s.queue = L.queue
    BY <1>2, <1>6, ListenerUpdates DEF Turns
  <2> HIDE DEF s
  <2>6. half[l] = s
    BY SMTT(30)
  <2>7. lst' = [lst EXCEPT ![l] = r]
    BY <2>4, <2>6, PutTwice
  <2>8. Kept(r, s) /\ r.acc = s.acc /\ r.queue = s.queue
    <3>1. s \in ListenerType
      BY <2>5 DEF Kept
    <3>2. \A x \in Nat : /\ Kept([s EXCEPT !.id = x], s) /\ [s EXCEPT !.id = x].queue = s.queue
                         /\ [s EXCEPT !.id = x].acc = s.acc
      BY <3>1, ListenerUpdates DEF Turns
    <3> QED BY <3>2, SMTT(30)
  <2> HIDE DEF r
  <2>9. Kept(r, L) /\ Sound(r, conn)
    BY <1>3, <2>5, <2>8, SMTT(30) DEF Kept, Sound
  <2>10. \E i \in DOMAIN conn, e \in PushType : AcceptedBy(i, conn) /\ push' = [push EXCEPT ![i] = e]
    BY <1>8, <2>1 DEF AcceptedBy, PushType
  <2> QED BY <1>4, <1>7, <2>3, <2>7, <2>9, <2>10, AcceptorMoves
<1>9. ASSUME UNCHANGED cl, lst' = [lst EXCEPT ![l].acc = "end"],
             UNCHANGED push \/ (L.acc = "push" /\ push' = [push EXCEPT ![L.id] = "lost"])
      PROVE  IInv'
  <2> DEFINE r == [L EXCEPT !.acc = "end"]
  <2>1. lst' = [lst EXCEPT ![l] = r]
    BY <1>9
  <2>2. Kept(r, L) /\ r.acc = "end" /\ r.queue = L.queue
    BY <1>2, <1>6, ListenerUpdates DEF Turns
  <2> HIDE DEF r
  <2>3. Sound(r, conn)
    BY <1>3, <2>2, SMTT(30) DEF Sound
  <2>4. L.acc = "push" => AcceptedBy(L.id, conn)
    BY <1>3 DEF Sound
  <2>5. \/ UNCHANGED push
        \/ \E i \in DOMAIN conn, e \in PushType : AcceptedBy(i, conn) /\ push' = [push EXCEPT ![i] = e]
    BY <1>9, <2>4 DEF AcceptedBy, PushType
  <2>6. ClientsTyped' /\ Told' /\ \A d \in Client : Alike(cl'[d], cl[d])
    BY <1>1, <1>5, <1>9, KeepAlike
  <2> QED BY <1>4, <1>7, <2>1, <2>2, <2>3, <2>5, <2>6, AcceptorMoves
<1>10. ASSUME L.queue # <<>>, UNCHANGED push, cl' = [cl EXCEPT ![c].conns = @ \cup {L.queue[1]}],
              lst' = [lst EXCEPT ![l] = [L EXCEPT !.acc = "push", !.id = L.queue[1], !.queue = Tail(@)]]
       PROVE  IInv'
  <2> DEFINE x == L.queue[1]
             s == [L EXCEPT !.acc = "push"]
             t == [s EXCEPT !.id = x]
             r == [t EXCEPT !.queue = Tail(t.queue)]
             N == cl[c].conns \cup {x}
  <2>1. /\ x \in Nat /\ 1 \in DOMAIN L.queue /\ Tail(L.queue) \in Numbers
        /\ \A j \in DOMAIN Tail(L.queue) : j + 1 \in DOMAIN L.queue /\ Tail(L.queue)[j] = L.queue[j + 1]
    BY <1>3, <1>10, SMTT(30) DEF Numbers
  <2>2. /\ Kept(s, L) /\ s.acc = "push" /\ s.queue = L.queue
    BY <1>2, <1>6, ListenerUpdates DEF Turns
  <2>3. lst' = [lst EXCEPT ![l] = r]
    BY <1>10
  <2>4. cl' = [cl EXCEPT ![c] = [cl[c] EXCEPT !.conns = N]]
    BY <1>10
  <2>5. AcceptedBy(x, conn)
    BY <1>3, <2>1 DEF Sound
  <2>a. \A j \in DOMAIN Tail(L.queue) : AcceptedBy(Tail(L.queue)[j], conn)
    BY <1>3, <2>1 DEF Sound
  <2> HIDE DEF x, s
  <2>6. Kept(t, s) /\ t.acc = s.acc /\ t.queue = s.queue /\ t.id = x
    BY <2>1, <2>2, ListenerUpdates, ZenonT(40) DEF Kept, Turns
  <2> HIDE DEF t
  <2>7. Kept(r, t) /\ r.acc = t.acc /\ r.queue = Tail(L.queue) /\ r.id = t.id
    <3>1. Tail(t.queue) = Tail(L.queue) /\ t \in ListenerType
      BY <2>2, <2>6 DEF Kept
    <3>2. Tail(t.queue) \in Numbers
      BY <2>1, <3>1
    <3>3. Kept(r, t) /\ r.acc = t.acc /\ r.queue = Tail(t.queue) /\ r.id = t.id
      BY <3>1, <3>2, ListenerUpdates DEF Turns
    <3> QED BY <3>1, <3>3
  <2> HIDE DEF r
  <2>8. Kept(r, L) /\ Sound(r, conn)
    BY <2>2, <2>5, <2>6, <2>7, <2>a DEF Kept, Sound
  <2>9. N \in SUBSET Nat /\ cl[c] \in ClientType /\ Alike(cl[c], cl[c]) /\ TrueQueue(cl[c].q, DOMAIN conn')
    <3>1. cl[c] \in ClientType
      BY <1>1 DEF ClientsTyped
    <3>2. cl[c].conns \in SUBSET Nat
      BY <3>1, ClientFields
    <3>3. N \in SUBSET Nat
      BY <2>1, <3>2, SMTT(30) DEF x
    <3>4. TrueQueue(cl[c].q, DOMAIN conn')
      BY <1>1, <1>4, ToldIs
    <3> QED BY <3>1, <3>3, <3>4 DEF Alike
  <2> HIDE DEF N
  <2>10. /\ ClientsTyped' /\ Told' /\ \A d \in Client : Aside(d)
         /\ cl'[c].conns = N /\ \A d \in Client : d # c => cl'[d].conns = cl[d].conns
    BY <1>1, <1>5, <2>4, <2>9, PutAside
  <2>11. \A d \in Client : cl[d].conns \subseteq cl'[d].conns
    BY <2>10, SMTT(30) DEF N
  <2> QED BY <1>4, <1>10, <2>3, <2>8, <2>10, <2>11, AcceptorMoves
<1>11. \/ /\ L.queue # <<>> /\ UNCHANGED push /\ cl' = [cl EXCEPT ![c].conns = @ \cup {L.queue[1]}]
          /\ lst' = [lst EXCEPT ![l] = [L EXCEPT !.acc = "push", !.id = L.queue[1], !.queue = Tail(@)]]
       \/ /\ L.acc = "push" /\ Queued(c, [op |-> "accept", id |-> L.id])
          /\ lst' = [lst EXCEPT ![l].acc = "idle", ![l].id = 0] /\ push' = [push EXCEPT ![L.id] = "run"]
       \/ /\ UNCHANGED cl /\ lst' = [lst EXCEPT ![l].acc = "end"]
          /\ UNCHANGED push \/ (L.acc = "push" /\ push' = [push EXCEPT ![L.id] = "lost"])
  BY <1>c DEF Acceptor, Refused
<1> QED BY <1>8, <1>9, <1>10, <1>11

(* A connection arrives at a bound port: it is new, so no dial waits for   *)
(* it, and it was not dialled.                                             *)
LEMMA ArriveStep ==
  ASSUME IInv, \A s \in Scenarios : s.data \in Nat, Arrive PROVE IInv'
<1> DEFINE n == Len(conn) + 1
<1>1. Types /\ lst \in Seq(ListenerType) /\ conn \in Seq(ConnType) /\ push \in Seq(PushType)
      /\ Len(push) = Len(conn) /\ sc.data \in Nat /\ ClientsTyped /\ Told
  BY DEF IInv, Types
<1>l. PICK l : l = Bound(1)
  OBVIOUS
<1>2. l \in DOMAIN lst
  <2> DEFINE Ls == {x \in DOMAIN lst : lst[x].port = 1 /\ lst[x].open}
  <2>1. Bound(1) # 0 /\ Bound(1) = IF Ls = {} THEN 0 ELSE CHOOSE x \in Ls : TRUE
    BY DEF Arrive, Bound
  <2>2. Bound(1) \in Ls
    BY <2>1
  <2> QED BY <1>l, <2>2
<1> DEFINE L == lst[l]
           a == NewConn(L.for, "accept")
           r == [L EXCEPT !.queue = Append(L.queue, n)]
<1>3. L \in ListenerType
  BY <1>1, <1>2, SMTT(30)
<1>4. /\ conn' = Append(conn, a) /\ push' = Append(push, "none") /\ lst' = [lst EXCEPT ![l] = r]
      /\ UNCHANGED <<sc, cl, task>>
  BY <1>l DEF Arrive, server
<1>5. a \in ConnType /\ a.how = "accept"
  <2>1. L.for \in Client /\ <<>> \in Numbers /\ 0 \in Nat
    BY <1>3, ListenerUpdates, SMTT(30) DEF Numbers
  <2> QED BY <1>1, <2>1, SMTT(30) DEF NewConn, ConnType, By
<1> HIDE DEF a
<1>6. /\ conn' \in Seq(ConnType) /\ push' \in Seq(PushType) /\ Len(push') = Len(conn')
      /\ DOMAIN conn' = DOMAIN conn \cup {n} /\ n \notin DOMAIN conn /\ n \in Nat
      /\ conn'[n] = a /\ push'[n] = "none"
      /\ \A i \in DOMAIN conn : conn'[i] = conn[i] /\ push'[i] = push[i]
  BY <1>1, <1>4, <1>5, MakeConn
<1> HIDE DEF n
<1>7. Grows
  BY <1>6, SMTT(30) DEF Grows
<1>8. L.queue \in Numbers /\ Sound(L, conn)
  BY <1>2, <1>3, ListenerUpdates DEF IInv, Accepts
<1>9. /\ Append(L.queue, n) \in Numbers
      /\ \A j \in DOMAIN Append(L.queue, n) :
           Append(L.queue, n)[j] = n \/ (j \in DOMAIN L.queue /\ Append(L.queue, n)[j] = L.queue[j])
  BY <1>6, <1>8, SMTT(30) DEF Numbers
<1>10. Kept(r, L) /\ r.queue = Append(L.queue, n) /\ r.acc = L.acc /\ r.id = L.id
  BY <1>3, <1>9, ListenerUpdates DEF Turns
<1> HIDE DEF r
<1>11. /\ lst' \in Seq(ListenerType) /\ DOMAIN lst' = DOMAIN lst /\ lst'[l] = r
       /\ \A j \in DOMAIN lst : j # l => lst'[j] = lst[j]
  BY <1>1, <1>2, <1>4, <1>10, PutListener DEF Kept
<1>12. TasksTyped' /\ SamePlaces /\ ClientsTyped' /\ Told' /\ \A c \in Client : Alike(cl'[c], cl[c])
  BY <1>1, <1>4, <1>7, TasksStay, KeepAlike
<1>13. Types'
  BY <1>1, <1>4, <1>6, <1>11, <1>12 DEF Types
<1>14. \A c : Cmd(c)' = Cmd(c) /\ \A k : Op(c, k)' = Op(c, k)
  BY <1>4, ScriptStays
<1>15. Tasks' /\ Inbox'
  <2>1. \A c \in Client : Serving(c)
    BY <1>4 DEF Serving
  <2> QED BY <1>4, <1>7, <1>12, <2>1, ServeKept DEF IInv, SamePlaces
<1>16. Closes'
  BY <1>4, <1>6, <1>7, <1>12, ClosesKept DEF IInv, SamePlaces
<1>17. Dials'
  <2>1. ASSUME NEW c \in Client, NEW k \in Cmd(c), Pending(c, k)'
        PROVE  Pending(c, k) /\ Id(c, k)' = Id(c, k) /\ push'[Id(c, k)] = push[Id(c, k)]
    <3>1. Pending(c, k) /\ Id(c, k)' = Id(c, k)
      BY <1>12, <1>14, <2>1 DEF Pending, SamePlaces
    <3>2. Pending(c, k)
      BY <3>1
    <3>3. Id(c, k) \in DOMAIN conn
      BY <3>2 DEF IInv, Dials
    <3> QED BY <1>6, <3>1, <3>3
  <2> QED BY <1>4, <1>6, <1>7, <2>1, DialsKept DEF IInv
<1>18. Accepts'
  <2>1. ASSUME NEW j \in DOMAIN lst PROVE Sound(lst[j], conn')
    <3>1. Sound(lst[j], conn)
      BY DEF IInv, Accepts
    <3> QED BY <1>6, <1>7, <3>1, SMTT(30) DEF Sound, AcceptedBy, Grows
  <2>2. AcceptedBy(n, conn')
    BY <1>5, <1>6, SMTT(30) DEF AcceptedBy
  <2>3. Sound(L, conn')
    BY <1>2, <2>1
  <2>4. Sound(r, conn')
    BY <1>9, <1>10, <2>2, <2>3 DEF Sound
  <2>5. \A j \in DOMAIN lst' : Sound(lst'[j], conn')
    BY <1>11, <2>1, <2>4
  <2> QED BY <2>5 DEF Accepts
<1>19. \A c \in Client : (Held(c) => Held(c)') /\ \A i : Owned(c, i) => Owned(c, i)'
  BY <1>4 DEF Held, Owned, Live, At, Id, Cmd, Script
<1>20. Listening'
  <2>1. \A j \in DOMAIN lst' : lst'[j].open => j \in DOMAIN lst /\ lst[j].open /\ lst'[j].for = lst[j].for
    BY <1>10, <1>11 DEF Kept
  <2> QED BY <1>19, <2>1, ListeningKept DEF IInv
<1>21. Dialled'
  <2>1. ASSUME NEW i \in DOMAIN conn', Leaky(i)' PROVE i \in DOMAIN conn /\ Leaky(i) /\ conn'[i].for = conn[i].for
    BY <1>5, <1>6, <2>1, SMTT(30) DEF Leaky
  <2> QED BY <1>19, <2>1, DialledKept DEF IInv
<1> QED BY <1>12, <1>13, <1>15, <1>16, <1>17, <1>18, <1>20, <1>21 DEF IInv

-----------------------------------------------------------------------------
(* The client writes requests, the read loop takes them.                   *)

LEMMA RequestStep ==
  ASSUME IInv, ClientsTyped', TasksTyped', Told', Tasks', Inbox', sc' = sc, lst' = lst, push' = push,
         Places, ConnsFollow, \A c \in Client : Lists(c) /\ cl'[c].conns = cl[c].conns
  PROVE  IInv'
<1>1. Types'
  BY DEF IInv, Types, ConnsFollow
<1>2. \A i \in DOMAIN conn : /\ conn'[i].how = conn[i].how /\ conn'[i].for = conn[i].for
                             /\ conn'[i].open => conn[i].open
  BY DEF ConnsFollow, Follows
<1>3. Accepts'
  <2>1. Grows
    BY DEF ConnsFollow, Grows
  <2> QED BY <1>2, <2>1, AcceptsKept DEF IInv
<1>4. \A i \in DOMAIN conn : Leaky(i)' => Leaky(i)
  BY <1>2 DEF Leaky
<1>5. Closes' /\ Dials' /\ Listening' /\ Dialled'
  BY <1>4, AsideRest
<1> QED BY <1>1, <1>3, <1>5 DEF IInv

(* A record that differs only in what waits and what was issued.           *)
Waits(r, s, x, n) ==
  /\ r \in ClientType /\ r.pc = s.pc /\ r.ports = s.ports /\ r.conns = s.conns
  /\ r.todoConns = s.todoConns /\ r.todoPorts = s.todoPorts /\ r.known = s.known
  /\ r.inbox = x /\ r.issued = n

LEMMA WaitsUpdates ==
  ASSUME NEW r \in ClientType
  PROVE  /\ \A x \in Requests : /\ Waits([r EXCEPT !.inbox = x], r, x, r.issued)
                                /\ [r EXCEPT !.inbox = x].q = r.q
         /\ \A n \in Nat : /\ Waits([r EXCEPT !.issued = n], r, r.inbox, n)
                           /\ [r EXCEPT !.issued = n].q = r.q
<1>1. \A x \in Requests : /\ Waits([r EXCEPT !.inbox = x], r, x, r.issued)
                          /\ [r EXCEPT !.inbox = x].q = r.q
  BY SMTT(30) DEF ClientType, Waits
<1>2. \A n \in Nat : /\ Waits([r EXCEPT !.issued = n], r, r.inbox, n)
                     /\ [r EXCEPT !.issued = n].q = r.q
  BY SMTT(30) DEF ClientType, Waits
<1> QED BY <1>1, <1>2

LEMMA PutWaits ==
  ASSUME ClientsTyped, Told, Grows, NEW c \in Client, NEW x, NEW n, NEW r, Waits(r, cl[c], x, n),
         TrueQueue(r.q, DOMAIN conn'), cl' = [cl EXCEPT ![c] = r]
  PROVE  /\ ClientsTyped' /\ Told' /\ \A d \in Client : Lists(d) /\ cl'[d].conns = cl[d].conns
         /\ cl'[c].inbox = x /\ cl'[c].issued = n
         /\ \A d \in Client : d # c => cl'[d].inbox = cl[d].inbox /\ cl'[d].issued = cl[d].issued
<1>0. r \in ClientType
  BY DEF Waits
<1>1. ClientsTyped' /\ cl'[c] = r /\ \A d \in Client : d # c => cl'[d] = cl[d]
  BY <1>0, PutClient
<1>2. cl[c].known \subseteq DOMAIN conn
  BY ToldIs
<1>3. cl'[c].known \subseteq DOMAIN conn' /\ TrueQueue(cl'[c].q, DOMAIN conn')
  BY <1>1, <1>2, SMTT(30) DEF Waits, Grows
<1>4. Told'
  BY <1>1, <1>3, ToldPut
<1>5. ASSUME NEW d \in Client PROVE Lists(d) /\ cl'[d].conns = cl[d].conns
  BY <1>1 DEF Lists, Waits
<1>6. cl'[c].inbox = x /\ cl'[c].issued = n
  BY <1>1 DEF Waits
<1> QED BY <1>1, <1>4, <1>5, <1>6

LEMMA InboxFacts ==
  ASSUME IInv, NEW c \in Client
  PROVE  /\ cl[c] \in ClientType /\ cl[c].inbox \in Requests /\ cl[c].issued \in Nat
         /\ TrueQueue(cl[c].q, DOMAIN conn) /\ cl[c].known \subseteq DOMAIN conn
<1>1. cl[c] \in ClientType /\ ClientsTyped /\ Told
  BY DEF IInv, Types, ClientsTyped
<1> QED BY <1>1, ClientFields, ToldIs

(* Inbox, for one client and one place.                                    *)
LEMMA InboxNext ==
  ASSUME sc' = sc,
         \A c \in Client : \A j \in DOMAIN cl'[c].inbox : \E k \in Cmd(c) :
           /\ k = cl'[c].inbox[j].k /\ k \in 1 .. cl'[c].issued /\ At(c, k)' = "none"
           /\ Op(c, k) = "close" => cl'[c].inbox[j].id \in DOMAIN conn'
           /\ \A i \in DOMAIN cl'[c].inbox : i < j => cl'[c].inbox[i].k < k
  PROVE  Inbox'
<1>1. SUFFICES ASSUME NEW c \in Client, NEW j \in DOMAIN cl'[c].inbox
               PROVE  /\ cl'[c].inbox[j].k \in 1 .. cl'[c].issued /\ cl'[c].inbox[j].k \in Cmd(c)'
                      /\ task'[c][cl'[c].inbox[j].k].pc = "none"
                      /\ Script(c)'[cl'[c].inbox[j].k] = "close" => cl'[c].inbox[j].id \in DOMAIN conn'
                      /\ \A i \in DOMAIN cl'[c].inbox : i < j => cl'[c].inbox[i].k < cl'[c].inbox[j].k
  BY DEF Inbox, At, Op
<1>2. Cmd(c)' = Cmd(c) /\ Script(c)' = Script(c)
  BY DEF Cmd, Script
<1>k. PICK k \in Cmd(c) :
        /\ k = cl'[c].inbox[j].k /\ k \in 1 .. cl'[c].issued /\ At(c, k)' = "none"
        /\ Op(c, k) = "close" => cl'[c].inbox[j].id \in DOMAIN conn'
        /\ \A i \in DOMAIN cl'[c].inbox : i < j => cl'[c].inbox[i].k < k
  OBVIOUS
<1>3. task'[c][k].pc = "none" /\ (Script(c)[k] = "close" => cl'[c].inbox[j].id \in DOMAIN conn')
  BY <1>k DEF At, Op
<1> QED BY <1>2, <1>k, <1>3

LEMMA InboxNow ==
  ASSUME Inbox, NEW c \in Client, NEW j \in DOMAIN cl[c].inbox
  PROVE  \E k \in Cmd(c) :
           /\ k = cl[c].inbox[j].k /\ k \in 1 .. cl[c].issued /\ At(c, k) = "none"
           /\ Op(c, k) = "close" => cl[c].inbox[j].id \in DOMAIN conn
           /\ \A i \in DOMAIN cl[c].inbox : i < j => cl[c].inbox[i].k < k
  BY DEF Inbox

(* Issue: the new request is the first of its number.                      *)
NextOf(c, k) == k = cl[c].issued + 1 /\ k \in Cmd(c)
Issued(c, k, i) == cl' = [cl EXCEPT ![c].issued = k, ![c].inbox = Append(@, [k |-> k, id |-> i])]
LEMMA UpTo == \A m \in Nat : \A n \in 1 .. m : n \in Nat /\ n \in 1 .. m + 1
BY SMTT(30)

LEMMA IssuePuts ==
  ASSUME IInv, NEW c \in Client, NEW k, NextOf(c, k), NEW i \in Nat,
         Op(c, k) = "close" => i \in DOMAIN conn,
         Issued(c, k, i), ConnsFollow, UNCHANGED <<sc, task, lst, push>>
  PROVE  IInv'
<1>1. /\ cl[c] \in ClientType /\ cl[c].inbox \in Requests /\ cl[c].issued \in Nat
      /\ TrueQueue(cl[c].q, DOMAIN conn)
  BY InboxFacts
<1>2. Types /\ ClientsTyped /\ Told /\ Tasks /\ Inbox
  BY DEF IInv, Types
<1>3. Grows /\ TasksTyped' /\ SamePlaces /\ DOMAIN conn' = DOMAIN conn
  BY <1>2, TasksStay DEF ConnsFollow, Grows
<1> DEFINE old == cl[c].inbox
           h == [k |-> k, id |-> i]
           x == Append(old, h)
           s == [cl[c] EXCEPT !.issued = k]
           r == [s EXCEPT !.inbox = x]
           half == [cl EXCEPT ![c] = s]
<1>4. k \in Nat
  BY <1>1, SMTT(30) DEF NextOf
<1>5. Waits(s, cl[c], old, k) /\ s.q = cl[c].q
  BY <1>1, <1>4, WaitsUpdates
<1>6. cl' = [half EXCEPT ![c] = [half[c] EXCEPT !.inbox = Append(half[c].inbox, h)]]
  BY DEF Issued
<1> HIDE DEF s
<1>7. half[c] = s
  BY <1>2, SMTT(30) DEF ClientsTyped
<1>8. cl' = [cl EXCEPT ![c] = r]
  <2>1. half[c].inbox = old
    BY <1>5, <1>7 DEF Waits
  <2>2. cl' = [half EXCEPT ![c] = r]
    BY <1>6, <1>7, <2>1
  <2> QED BY <2>2, PutTwice
<1>9. h \in Heard /\ h.k = k /\ h.id = i
  BY <1>4, SMTT(30) DEF Heard
<1> HIDE DEF h
<1>10. /\ x \in Requests /\ Len(old) \in Nat /\ DOMAIN x = DOMAIN old \cup {Len(old) + 1} /\ x[Len(old) + 1] = h
       /\ DOMAIN old = 1 .. Len(old) /\ \A j \in DOMAIN old : x[j] = old[j]
  BY <1>1, <1>9, SMTT(30) DEF Requests
<1> HIDE DEF x
<1>11. Waits(r, s, x, s.issued) /\ r.q = s.q
  <2>1. s \in ClientType
    BY <1>5 DEF Waits
  <2> QED BY <1>10, <2>1, WaitsUpdates
<1> HIDE DEF r
<1>12. Waits(r, cl[c], x, k) /\ TrueQueue(r.q, DOMAIN conn')
  BY <1>1, <1>3, <1>5, <1>11 DEF Waits
<1>13. /\ ClientsTyped' /\ Told' /\ \A d \in Client : Lists(d) /\ cl'[d].conns = cl[d].conns
       /\ cl'[c].inbox = x /\ cl'[c].issued = k
       /\ \A d \in Client : d # c => cl'[d].inbox = cl[d].inbox /\ cl'[d].issued = cl[d].issued
  <2>1. ClientsTyped /\ Told /\ Grows
    BY <1>2, <1>3
  <2> QED BY <1>8, <1>12, <2>1, PutWaits
<1>14. \A d : Cmd(d)' = Cmd(d) /\ \A j : Op(d, j)' = Op(d, j)
  BY ScriptStays
<1>15. \A d \in Client : cl'[d].pc = cl[d].pc /\ (cl'[d].issued = cl[d].issued \/ d = c)
  BY <1>13 DEF Lists
<1>16. Tasks'
  <2>1. \A d \in Client : \A j \in 1 .. cl[d].issued : j \in 1 .. cl'[d].issued
    <3>1. \A d \in Client : cl[d].issued \in Nat
      BY InboxFacts
    <3> QED BY <1>1, <1>13, <1>15, <3>1, SMTT(30) DEF NextOf
  <2>2. ASSUME NEW d \in Client, NEW j \in Cmd(d), At(d, j)' # "none"
        PROVE  Live(d)' /\ j \in 1 .. cl'[d].issued
    <3>1. Live(d) /\ j \in 1 .. cl[d].issued
      BY <1>2, <1>3, <2>2 DEF Tasks, SamePlaces
    <3> QED BY <1>15, <2>1, <3>1 DEF Live
  <2> QED BY <1>14, <2>2 DEF Tasks
<1>17. At(c, k)' = "none"
  <2>1. k \notin 1 .. cl[c].issued /\ k \in Cmd(c)
    BY <1>1, SMTT(30) DEF NextOf
  <2> QED BY <1>2, <1>3, <2>1 DEF Tasks, SamePlaces
<1>18. Inbox'
  <2>1. ASSUME NEW d \in Client, NEW j \in DOMAIN cl'[d].inbox
        PROVE  \E n \in Cmd(d) :
                 /\ n = cl'[d].inbox[j].k /\ n \in 1 .. cl'[d].issued /\ At(d, n)' = "none"
                 /\ Op(d, n) = "close" => cl'[d].inbox[j].id \in DOMAIN conn'
                 /\ \A a \in DOMAIN cl'[d].inbox : a < j => cl'[d].inbox[a].k < n
    <3>1. CASE d # c
      <4>1. cl'[d].inbox = cl[d].inbox /\ cl'[d].issued = cl[d].issued
        BY <1>13, <3>1
      <4>n. PICK n \in Cmd(d) :
              /\ n = cl[d].inbox[j].k /\ n \in 1 .. cl[d].issued /\ At(d, n) = "none"
              /\ Op(d, n) = "close" => cl[d].inbox[j].id \in DOMAIN conn
              /\ \A a \in DOMAIN cl[d].inbox : a < j => cl[d].inbox[a].k < n
        BY <1>2, <4>1, InboxNow
      <4>2. At(d, n)' = "none"
        BY <1>3, <4>n DEF SamePlaces
      <4> QED BY <1>3, <4>1, <4>n, <4>2
    <3>2. CASE d = c /\ j \in DOMAIN old
      <4>n. PICK n \in Cmd(c) :
              /\ n = old[j].k /\ n \in 1 .. cl[c].issued /\ At(c, n) = "none"
              /\ Op(c, n) = "close" => old[j].id \in DOMAIN conn
              /\ \A a \in DOMAIN old : a < j => old[a].k < n
        BY <1>2, <3>2, InboxNow
      <4>1. At(c, n)' = "none" /\ n \in 1 .. k
        <5>1. At(c, n)' = "none"
          BY <1>3, <4>n DEF SamePlaces
        <5>2. n \in 1 .. k
          <6>1. k = cl[c].issued + 1
            BY DEF NextOf
          <6> QED BY <1>1, <4>n, <6>1, UpTo
        <5> QED BY <5>1, <5>2
      <4>2. x[j] = old[j] /\ \A a \in DOMAIN x : a < j => a \in DOMAIN old /\ x[a] = old[a]
        BY <1>10, <3>2, SMTT(30)
      <4> QED BY <1>3, <1>13, <3>2, <4>n, <4>1, <4>2
    <3>3. CASE d = c /\ j = Len(old) + 1
      <4>1. ASSUME NEW a \in DOMAIN x, a < j PROVE x[a].k < k
        <5>1. a \in DOMAIN old /\ x[a] = old[a]
          BY <1>10, <3>3, <4>1, SMTT(30)
        <5>2. old[a].k \in 1 .. cl[c].issued
          BY <1>2, <5>1, InboxNow
        <5> QED BY <1>1, <5>1, <5>2, SMTT(30) DEF NextOf
      <4>2. k \in 1 .. k /\ k \in Cmd(c)
        BY <1>1, SMTT(30) DEF NextOf
      <4>3. x[j].k = k /\ x[j].id = i
        BY <1>9, <1>10, <3>3
      <4> QED BY <1>3, <1>13, <1>17, <3>3, <4>1, <4>2, <4>3
    <3>4. d # c \/ (d = c /\ j \in DOMAIN old) \/ (d = c /\ j = Len(old) + 1)
      BY <1>10, <1>13
    <3> QED BY <3>1, <3>2, <3>3, <3>4
  <2> QED BY <2>1, InboxNext
<1> QED BY <1>3, <1>13, <1>16, <1>18, RequestStep DEF SamePlaces, Places

LEMMA IssueStep ==
  ASSUME IInv, NEW c \in Client, Issue(c) PROVE IInv'
<1>k. PICK k : k = cl[c].issued + 1
  OBVIOUS
<1>1. NextOf(c, k) /\ UNCHANGED <<sc, task, lst, push>>
  BY <1>k DEF Issue, NextOf, server
<1>2. Types /\ conn \in Seq(ConnType) /\ cl[c].known \subseteq DOMAIN conn /\ k \in Nat
  <2>1. cl[c].issued \in Nat /\ cl[c].known \subseteq DOMAIN conn
    BY InboxFacts
  <2>2. k \in Nat
    BY <1>k, <2>1, SMTT(30)
  <2> QED BY <2>1, <2>2 DEF IInv, Types
<1>3. \/ \E i \in cl[c].known :
           /\ Issued(c, k, i)
           /\ conn' = [conn EXCEPT ![i].meant = Append(@, k)] \/ UNCHANGED conn
      \/ Op(c, k) # "close" /\ Issued(c, k, 0) /\ UNCHANGED conn
  BY <1>k DEF Issue, Issued
<1>4. ASSUME NEW i \in cl[c].known, Issued(c, k, i),
             conn' = [conn EXCEPT ![i].meant = Append(@, k)] \/ UNCHANGED conn
      PROVE  IInv'
  <2>1. i \in DOMAIN conn /\ i \in Nat /\ conn[i] \in ConnType
    BY <1>2, SMTT(30)
  <2>2. ConnsFollow
    <3>1. CASE UNCHANGED conn
      BY <1>2, <3>1, ConnsStay
    <3>2. CASE conn' = [conn EXCEPT ![i].meant = Append(@, k)]
      <4> DEFINE x == Append(conn[i].meant, k)
                 r == [conn[i] EXCEPT !.meant = x]
      <4>1. conn' = [conn EXCEPT ![i] = r]
        BY <3>2
      <4>2. x \in Numbers
        <5>1. conn[i].meant \in Numbers
          BY <2>1, ConnFields
        <5> QED BY <1>2, <5>1, SMTT(30) DEF Numbers
      <4> HIDE DEF x
      <4>3. Follows(r, conn[i])
        BY <2>1, <4>2, ConnUpdates
      <4> HIDE DEF r
      <4> QED BY <1>2, <2>1, <4>1, <4>3, PutConn
    <3> QED BY <1>4, <3>1, <3>2
  <2> QED BY <1>1, <1>4, <2>1, <2>2, IssuePuts
<1>5. ASSUME Op(c, k) # "close", Issued(c, k, 0), UNCHANGED conn PROVE IInv'
  <2>1. ConnsFollow /\ 0 \in Nat
    BY <1>2, <1>5, ConnsStay, SMTT(30)
  <2> QED BY <1>1, <1>5, <2>1, IssuePuts
<1> QED BY <1>3, <1>4, <1>5

(* The read loop takes the first request; nothing moves but that request,  *)
(* which may get its goroutine.                                            *)
LEMMA ReadTakes ==
  ASSUME IInv, NEW c \in Client, cl[c].pc = "read", cl[c].inbox # <<>>, NEW h, h = cl[c].inbox[1],
         NEW r, Waits(r, cl[c], Tail(cl[c].inbox), cl[c].issued), TrueQueue(r.q, DOMAIN conn),
         cl' = [cl EXCEPT ![c] = r], ConnsFollow, UNCHANGED <<sc, lst, push>>, TasksTyped',
         \A d \in Client : \A n \in Cmd(d) :
           (At(d, n)' = At(d, n) /\ Id(d, n)' = Id(d, n)) \/ (d = c /\ n = h.k /\ Begins(c, n))
  PROVE  IInv'
<1> DEFINE old == cl[c].inbox
           x == Tail(old)
<1>1. cl[c] \in ClientType /\ old \in Requests /\ cl[c].issued \in Nat
  BY InboxFacts
<1>2. /\ 1 \in DOMAIN old /\ x \in Requests
      /\ \A j \in DOMAIN x : j \in Nat /\ j + 1 \in DOMAIN old /\ x[j] = old[j + 1] /\ 1 < j + 1
      /\ \A j \in DOMAIN x, i \in DOMAIN x : i < j => i + 1 < j + 1
  BY <1>1, SMTT(30) DEF Requests
<1>3. Types /\ ClientsTyped /\ Told /\ Tasks /\ Inbox
  BY DEF IInv, Types
<1>4. Grows /\ DOMAIN conn' = DOMAIN conn
  BY DEF ConnsFollow, Grows
<1>5. /\ ClientsTyped' /\ Told' /\ \A d \in Client : Lists(d) /\ cl'[d].conns = cl[d].conns
      /\ cl'[c].inbox = x /\ cl'[c].issued = cl[c].issued
      /\ \A d \in Client : d # c => cl'[d].inbox = cl[d].inbox /\ cl'[d].issued = cl[d].issued
  <2>1. TrueQueue(r.q, DOMAIN conn')
    BY <1>4
  <2> QED BY <1>3, <1>4, <2>1, PutWaits
<1>6. Places
  BY DEF Places
<1>7. \A d : Cmd(d)' = Cmd(d) /\ \A j : Op(d, j)' = Op(d, j)
  BY ScriptStays
<1>8. h.k \in Cmd(c) /\ h.k \in 1 .. cl[c].issued
  BY <1>2, <1>3 DEF Inbox
<1>9. Tasks'
  <2>1. ASSUME NEW d \in Client, NEW n \in Cmd(d), At(d, n)' # "none"
        PROVE  Live(d)' /\ n \in 1 .. cl'[d].issued
    <3>1. cl'[d].pc = cl[d].pc /\ cl'[d].issued = cl[d].issued
      BY <1>5 DEF Lists
    <3>2. CASE At(d, n)' = At(d, n)
      <4>1. Live(d) /\ n \in 1 .. cl[d].issued
        BY <1>3, <2>1, <3>2 DEF Tasks
      <4> QED BY <3>1, <4>1 DEF Live
    <3>3. CASE d = c /\ n = h.k
      BY <1>8, <3>1, <3>3 DEF Live
    <3> QED BY <3>2, <3>3
  <2> QED BY <1>7, <2>1 DEF Tasks
<1>10. Inbox'
  <2>1. ASSUME NEW d \in Client, NEW j \in DOMAIN cl'[d].inbox
        PROVE  \E n \in Cmd(d) :
                 /\ n = cl'[d].inbox[j].k /\ n \in 1 .. cl'[d].issued /\ At(d, n)' = "none"
                 /\ Op(d, n) = "close" => cl'[d].inbox[j].id \in DOMAIN conn'
                 /\ \A a \in DOMAIN cl'[d].inbox : a < j => cl'[d].inbox[a].k < n
    <3>1. CASE d # c
      <4>1. cl'[d].inbox = cl[d].inbox /\ cl'[d].issued = cl[d].issued
        BY <1>5, <3>1
      <4>n. PICK n \in Cmd(d) :
              /\ n = cl[d].inbox[j].k /\ n \in 1 .. cl[d].issued /\ At(d, n) = "none"
              /\ Op(d, n) = "close" => cl[d].inbox[j].id \in DOMAIN conn
              /\ \A a \in DOMAIN cl[d].inbox : a < j => cl[d].inbox[a].k < n
        BY <1>3, <4>1, InboxNow
      <4>2. At(d, n)' = "none"
        BY <3>1, <4>n
      <4> QED BY <1>4, <4>1, <4>n, <4>2
    <3>2. CASE d = c
      <4>1. j \in DOMAIN x /\ j + 1 \in DOMAIN old /\ x[j] = old[j + 1] /\ 1 < j + 1
        BY <1>2, <1>5, <3>2
      <4>n. PICK n \in Cmd(c) :
              /\ n = old[j + 1].k /\ n \in 1 .. cl[c].issued /\ At(c, n) = "none"
              /\ Op(c, n) = "close" => old[j + 1].id \in DOMAIN conn
              /\ \A a \in DOMAIN old : a < j + 1 => old[a].k < n
        BY <1>3, <4>1, InboxNow
      <4>2. n # h.k
        <5>1. h.k < n
          BY <1>2, <4>1, <4>n
        <5>2. h.k \in Nat /\ n \in Nat
          BY <1>1, <1>8, <4>n, UpTo
        <5>3. \A a, b \in Nat : a < b => b # a
          BY SMTT(30)
        <5> QED BY <5>1, <5>2, <5>3
      <4>3. At(c, n)' = "none"
        BY <4>n, <4>2
      <4>4. \A a \in DOMAIN x : a < j => x[a].k < n
        BY <1>2, <4>1, <4>n
      <4>5. cl'[d].inbox = x /\ cl'[d].issued = cl[c].issued /\ DOMAIN conn' = DOMAIN conn
        BY <1>4, <1>5, <3>2
      <4>6. n \in Cmd(d) /\ n = x[j].k /\ (Op(d, n) = "close" => x[j].id \in DOMAIN conn)
        BY <3>2, <4>1, <4>n
      <4>7. At(d, n)' = "none" /\ n \in 1 .. cl[c].issued
        BY <3>2, <4>n, <4>3
      <4> HIDE DEF x
      <4> QED BY <4>4, <4>5, <4>6, <4>7
    <3> QED BY <3>1, <3>2
  <2> QED BY <2>1, InboxNext
<1> QED BY <1>5, <1>6, <1>9, <1>10, RequestStep

LEMMA ReadLoopStep ==
  ASSUME IInv, NEW c \in Client, ReadLoop(c) PROVE IInv'
<1>h. PICK h : h = cl[c].inbox[1]
  OBVIOUS
<1>1. cl[c].pc = "read" /\ cl[c].inbox # <<>> /\ UNCHANGED <<sc, lst, push>>
  BY DEF ReadLoop, server
<1>2. /\ cl[c] \in ClientType /\ cl[c].inbox \in Requests /\ cl[c].issued \in Nat
      /\ TrueQueue(cl[c].q, DOMAIN conn)
  BY InboxFacts
<1>3. Types /\ ClientsTyped /\ TasksTyped /\ conn \in Seq(ConnType)
  BY DEF IInv, Types
<1> DEFINE x == Tail(cl[c].inbox)
           r == [cl[c] EXCEPT !.inbox = x]
<1>4. x \in Requests /\ 1 \in DOMAIN cl[c].inbox /\ h \in Heard
  BY <1>1, <1>2, <1>h, SMTT(30) DEF Requests
<1>5. h.k \in Nat /\ h.id \in Nat /\ h.k \in Cmd(c) /\ At(c, h.k) = "none"
      /\ (Op(c, h.k) = "close" => h.id \in DOMAIN conn)
  <2>1. h.k \in Nat /\ h.id \in Nat
    BY <1>4, SMTT(30) DEF Heard
  <2> QED BY <1>4, <1>h, <2>1 DEF IInv, Inbox
<1>6. Take(c) = [cl EXCEPT ![c] = r]
  BY DEF Take
<1>7. Waits(r, cl[c], x, cl[c].issued) /\ r.q = cl[c].q /\ r \in ClientType
  <2>1. Waits(r, cl[c], x, cl[c].issued) /\ r.q = cl[c].q
    BY <1>2, <1>4, WaitsUpdates
  <2> QED BY <2>1 DEF Waits
<1> HIDE DEF r
<1>8. TrueQueue(r.q, DOMAIN conn)
  BY <1>2, <1>7
<1>9. ASSUME NEW s, Waits(s, cl[c], x, cl[c].issued), TrueQueue(s.q, DOMAIN conn),
             cl' = [cl EXCEPT ![c] = s], ConnsFollow, TasksTyped',
             \A d \in Client : \A n \in Cmd(d) :
               (At(d, n)' = At(d, n) /\ Id(d, n)' = Id(d, n)) \/ (d = c /\ n = h.k /\ Begins(c, n))
      PROVE  IInv'
  BY <1>h, <1>1, <1>9, ReadTakes
<1>10. ASSUME UNCHANGED task PROVE TasksTyped' /\ SamePlaces
  BY <1>1, <1>3, <1>10, TasksStay
<1>11. ASSUME UNCHANGED conn PROVE ConnsFollow
  BY <1>3, <1>11, ConnsStay
<1>12. ASSUME cl' = Take(c), ConnsFollow, TasksTyped', SamePlaces PROVE IInv'
  BY <1>6, <1>7, <1>8, <1>9, <1>12 DEF SamePlaces
<1>13. CASE handleSend(c, h)
  <2>1. /\ cl' = Take(c) /\ UNCHANGED task
        /\ UNCHANGED conn \/ conn' = [conn EXCEPT ![h.id].out = Append(@, h.k)]
    BY <1>13 DEF handleSend
  <2> DEFINE u == [conn[h.id] EXCEPT !.out = Append(conn[h.id].out, h.k)]
  <2>2. ConnsFollow
    <3>1. CASE UNCHANGED conn
      BY <1>11, <3>1
    <3>2. CASE conn' = [conn EXCEPT ![h.id] = u] /\ h.id \notin DOMAIN conn
      <4> HIDE DEF u
      <4>1. [conn EXCEPT ![h.id] = u] = conn
        BY <1>3, <3>2, SMTT(30)
      <4> QED BY <1>11, <3>2, <4>1
    <3>3. CASE conn' = [conn EXCEPT ![h.id] = u] /\ h.id \in DOMAIN conn
      <4>1. conn[h.id] \in ConnType
        BY <3>3, ConnAt
      <4>2. conn[h.id].out \in Numbers
        BY <4>1, ConnFields
      <4>3. Append(conn[h.id].out, h.k) \in Numbers
        BY <1>5, <4>2, SMTT(30) DEF Numbers
      <4>4. Follows(u, conn[h.id])
        BY <4>1, <4>3, ConnUpdates
      <4> QED BY <1>3, <3>3, <4>4, PutConn
    <3>4. UNCHANGED conn \/ conn' = [conn EXCEPT ![h.id] = u]
      BY <2>1
    <3> QED BY <3>1, <3>2, <3>3, <3>4
  <2> QED BY <1>10, <1>12, <2>1, <2>2
<1>14. CASE handleSendTo(c, h)
  BY <1>10, <1>11, <1>12, <1>14 DEF handleSendTo
<1>15. CASE AnswerInline(c, h)
  <2>1. UNCHANGED <<task, conn>>
    BY <1>15 DEF AnswerInline
  <2>2. CASE cl' = Take(c)
    BY <1>10, <1>11, <1>12, <2>1, <2>2
  <2>3. CASE cl' = [Take(c) EXCEPT ![c].q = Append(@, Answer(h.k))]
    <3> DEFINE half == [cl EXCEPT ![c] = r]
               y == Append(r.q, Answer(h.k))
               s == [r EXCEPT !.q = y]
    <3>1. cl' = [half EXCEPT ![c] = [half[c] EXCEPT !.q = Append(half[c].q, Answer(h.k))]]
      BY <1>6, <2>3
    <3>2. half[c] = r
      BY <1>3, SMTT(30) DEF ClientsTyped
    <3>3. cl' = [cl EXCEPT ![c] = s]
      <4>1. cl' = [half EXCEPT ![c] = s]
        BY <3>1, <3>2
      <4> QED BY <4>1, PutTwice
    <3>4. TrueQueue(y, DOMAIN conn)
      <4>1. Answer(h.k) \in Msg /\ Answer(h.k).op = "reply"
        BY <1>5, MsgTyped
      <4>2. Fits(Answer(h.k), DOMAIN conn)
        BY <4>1, SMTT(30) DEF Fits
      <4> QED BY <1>8, <4>1, <4>2, QueueGrows
    <3> HIDE DEF y
    <3>5. y \in Queue
      BY <3>4 DEF TrueQueue
    <3>6. s \in ClientType /\ Alike(s, r) /\ s.known = r.known /\ s.q = y
      BY <1>7, <3>5, ClientUpdates DEF Hears
    <3> HIDE DEF s, half
    <3>7. Waits(s, cl[c], x, cl[c].issued)
      BY <1>7, <3>6 DEF Alike, Waits
    <3>8. TrueQueue(s.q, DOMAIN conn)
      BY <3>4, <3>6
    <3> QED BY <1>9, <1>10, <1>11, <2>1, <3>3, <3>7, <3>8 DEF SamePlaces
  <2> QED BY <1>15, <2>2, <2>3 DEF AnswerInline
<1>16. CASE handleCancel(c, h)
  <2>1. cl' = Take(c) /\ UNCHANGED conn /\ task' = [task EXCEPT ![c] = cancelAllDials(@)]
    BY <1>16 DEF handleCancel
  <2>2. /\ DOMAIN task' = Client
        /\ \A d \in Client : task'[d] = task[d] \/ task'[d] = cancelAllDials(task[d])
    BY <1>3, <2>1, SMTT(30) DEF TasksTyped
  <2>3. TasksTyped' /\ SamePlaces
    BY <1>1, <1>3, <2>2, Cancels
  <2> QED BY <1>11, <1>12, <2>1, <2>3
<1>17. CASE Dispatch(c, h)
  <2> DEFINE t == [NoTask EXCEPT !.pc = "start", !.id = h.id]
  <2>1. cl' = Take(c) /\ UNCHANGED conn /\ Becomes(c, h.k, t)
    BY <1>17 DEF Dispatch, Becomes
  <2>2. t \in TaskType /\ t.pc = "start" /\ t.id = h.id
    <3>1. "start" \in TaskPc
      BY DEF TaskPc
    <3>2. NoTask \in TaskType
      BY NoTaskTyped
    <3>3. h.id \in Nat
      BY <1>5
    <3>4. Names(t, "start", h.id)
      BY <3>1, <3>2, <3>3, TaskNamed
    <3> HIDE DEF t
    <3> QED BY <3>4 DEF Names
  <2> HIDE DEF t
  <2>3. /\ TasksTyped' /\ task'[c][h.k] = t
        /\ \A d \in Client : \A j \in Cmd(d) : d # c \/ j # h.k => task'[d][j] = task[d][j]
    BY <1>1, <1>3, <1>5, <2>1, <2>2, PutTask
  <2>4. ASSUME NEW d \in Client, NEW n \in Cmd(d)
        PROVE  (At(d, n)' = At(d, n) /\ Id(d, n)' = Id(d, n)) \/ (d = c /\ n = h.k /\ Begins(c, n))
    <3>1. CASE d # c \/ n # h.k
      BY <2>3, <3>1 DEF At, Id
    <3>2. CASE d = c /\ n = h.k
      <4>1. At(c, n) = "none" /\ (Op(c, n) = "close" => h.id \in DOMAIN conn)
        BY <1>5, <3>2
      <4>2. At(c, n)' = "start" /\ Id(c, n)' = h.id
        BY <2>2, <2>3, <3>2 DEF At, Id
      <4> QED BY <3>2, <4>1, <4>2 DEF Begins
    <3> QED BY <3>1, <3>2
  <2> QED BY <1>6, <1>7, <1>8, <1>9, <1>11, <2>1, <2>3, <2>4
<1> QED BY <1>h, <1>13, <1>14, <1>15, <1>16, <1>17
       DEF ReadLoop, handleSendToConfirm, handleHealth

-----------------------------------------------------------------------------
(* A client comes, is served, and is cleaned up.                           *)

SameMail(u, r) == u.inbox = r.inbox /\ u.issued = r.issued /\ u.known = r.known /\ u.q = r.q
SameGoods(u, r) == u.conns = r.conns /\ u.ports = r.ports

Lives(u, r, s, C, P) ==
  /\ u \in ClientType /\ SameMail(u, r) /\ SameGoods(u, r)
  /\ u.pc = s /\ u.todoConns = C /\ u.todoPorts = P

LEMMA LifeUpdates ==
  ASSUME NEW r \in ClientType
  PROVE  /\ \A x \in ClientPc : Lives([r EXCEPT !.pc = x], r, x, r.todoConns, r.todoPorts)
         /\ \A x \in SUBSET Nat : Lives([r EXCEPT !.todoConns = x], r, r.pc, x, r.todoPorts)
         /\ \A x \in SUBSET {1} : Lives([r EXCEPT !.todoPorts = x], r, r.pc, r.todoConns, x)
         /\ \A x \in BOOLEAN : Lives([r EXCEPT !.done = x], r, r.pc, r.todoConns, r.todoPorts)
<1>1. \A x \in ClientPc : Lives([r EXCEPT !.pc = x], r, x, r.todoConns, r.todoPorts)
  BY SMTT(30) DEF ClientType, SameMail, SameGoods, Lives
<1>2. \A x \in SUBSET Nat : Lives([r EXCEPT !.todoConns = x], r, r.pc, x, r.todoPorts)
  BY SMTT(30) DEF ClientType, SameMail, SameGoods, Lives
<1>3. \A x \in SUBSET {1} : Lives([r EXCEPT !.todoPorts = x], r, r.pc, r.todoConns, x)
  BY SMTT(30) DEF ClientType, SameMail, SameGoods, Lives
<1>4. \A x \in BOOLEAN : Lives([r EXCEPT !.done = x], r, r.pc, r.todoConns, r.todoPorts)
  BY SMTT(30) DEF ClientType, SameMail, SameGoods, Lives
<1> QED BY <1>1, <1>2, <1>3, <1>4

(* Listeners keep what the invariant says of them; some may close.         *)
Closer(s, r) ==
  /\ s.queue = r.queue /\ s.acc = r.acc /\ s.id = r.id /\ s.for = r.for /\ (s.open => r.open)
ListsFollow ==
  /\ lst' \in Seq(ListenerType) /\ DOMAIN lst' = DOMAIN lst
  /\ \A l \in DOMAIN lst : Closer(lst'[l], lst[l])

(* A client's life goes a step on, while the requests stay where they are. *)
LEMMA LifeStep ==
  ASSUME IInv, NEW c \in Client, NEW r \in ClientType, cl' = [cl EXCEPT ![c] = r],
         TasksTyped', SamePlaces, ConnsFollow, ListsFollow, UNCHANGED <<sc, push>>,
         r.inbox = <<>> \/ (r.inbox = cl[c].inbox /\ r.issued = cl[c].issued),
         r.known \subseteq DOMAIN conn, TrueQueue(r.q, DOMAIN conn),
         \A k \in Cmd(c) : At(c, k) # "none" => r.pc \in {"read", "drain"} /\ r.issued = cl[c].issued,
         \A l \in DOMAIN lst : lst'[l].open /\ lst[l].for = c => Held(c)',
         \A i \in DOMAIN conn : conn'[i].open /\ Leaky(i) /\ conn[i].for = c => Owned(c, i)'
  PROVE  IInv'
<1>0. \A d : Cmd(d)' = Cmd(d) /\ \A k : Op(d, k)' = Op(d, k)
  BY ScriptStays
<1>1. Types /\ ClientsTyped /\ Told
  BY DEF IInv, Types
<1>2. ClientsTyped' /\ cl'[c] = r /\ \A d \in Client : d # c => cl'[d] = cl[d]
  BY <1>1, PutClient
<1>3. Grows /\ DOMAIN conn' = DOMAIN conn
  BY DEF ConnsFollow, Grows
<1>4. \A i \in DOMAIN conn : /\ conn'[i].how = conn[i].how /\ conn'[i].for = conn[i].for
                             /\ conn'[i].open => conn[i].open
  BY DEF ConnsFollow, Follows
<1>5. Types'
  BY <1>1, <1>2 DEF Types, ConnsFollow, ListsFollow
<1>6. Told'
  <2>1. cl'[c].known \subseteq DOMAIN conn' /\ TrueQueue(cl'[c].q, DOMAIN conn')
    BY <1>2, <1>3
  <2> QED BY <1>1, <1>2, <1>3, <2>1, ToldPut
<1>7. Tasks'
  <2>1. ASSUME NEW d \in Client, NEW k \in Cmd(d), At(d, k)' # "none"
        PROVE  Live(d)' /\ k \in 1 .. cl'[d].issued
    <3>1. At(d, k) # "none"
      BY <2>1 DEF SamePlaces
    <3>2. Live(d) /\ k \in 1 .. cl[d].issued
      BY <3>1 DEF IInv, Tasks
    <3>3. CASE d # c
      BY <1>2, <3>2, <3>3 DEF Live
    <3>4. CASE d = c
      BY <1>2, <3>1, <3>2, <3>4 DEF Live
    <3> QED BY <3>3, <3>4
  <2> QED BY <1>0, <2>1 DEF Tasks
<1>8. Inbox'
  <2>1. SUFFICES ASSUME NEW d \in Client, NEW j \in DOMAIN cl'[d].inbox
        PROVE  \E k \in Cmd(d) :
           /\ k = cl'[d].inbox[j].k /\ k \in 1 .. cl'[d].issued /\ At(d, k)' = "none"
           /\ Op(d, k) = "close" => cl'[d].inbox[j].id \in DOMAIN conn'
           /\ \A i \in DOMAIN cl'[d].inbox : i < j => cl'[d].inbox[i].k < k
    BY <2>1, InboxNext
  <2>2. cl'[d].inbox = cl[d].inbox /\ cl'[d].issued = cl[d].issued
    <3>1. cl'[d].inbox # <<>>
      BY <2>1, SMTT(30)
    <3> QED BY <1>2, <3>1
  <2>3. PICK k \in Cmd(d) :
           /\ k = cl[d].inbox[j].k /\ k \in 1 .. cl[d].issued /\ At(d, k) = "none"
           /\ Op(d, k) = "close" => cl[d].inbox[j].id \in DOMAIN conn
           /\ \A i \in DOMAIN cl[d].inbox : i < j => cl[d].inbox[i].k < k
    <3>1. j \in DOMAIN cl[d].inbox
      BY <2>1, <2>2
    <3> QED BY <3>1, InboxNow DEF IInv
  <2>4. At(d, k)' = "none"
    BY <2>3 DEF SamePlaces
  <2> QED BY <1>3, <2>2, <2>3, <2>4
<1>9. Closes'
  BY <1>3, <1>4, ClosesKept DEF IInv, SamePlaces
<1>10. Dials'
  <2>1. \A d \in Client : \A k \in Cmd(d) : Pending(d, k)' =>
           Pending(d, k) /\ Id(d, k)' = Id(d, k) /\ push'[Id(d, k)] = push[Id(d, k)]
    BY <1>0 DEF Pending, SamePlaces
  <2> QED BY <1>3, <1>4, <2>1, DialsKept DEF IInv
<1>11. Accepts'
  <2>1. \A l \in DOMAIN lst' : l \in DOMAIN lst /\ lst'[l].queue = lst[l].queue
              /\ (lst'[l].acc = "push" => lst[l].acc = "push" /\ lst'[l].id = lst[l].id)
    BY DEF ListsFollow, Closer
  <2> QED BY <1>3, <1>4, <2>1, AcceptsKept DEF IInv
<1>12. ASSUME NEW d \in Client, d # c PROVE (Held(d) => Held(d)') /\ \A i : Owned(d, i) => Owned(d, i)'
  <2>1. cl'[d] = cl[d]
    BY <1>2, <1>12
  <2> QED BY <1>0, <2>1 DEF Held, Owned, Live, SamePlaces
<1>13. Listening'
  <2>1. ASSUME NEW l \in DOMAIN lst', NEW d \in Client, lst'[l].open, lst'[l].for = d PROVE Held(d)'
    <3>1. l \in DOMAIN lst /\ lst[l].open /\ lst[l].for = d
      BY <2>1 DEF ListsFollow, Closer
    <3>2. CASE d = c
      BY <2>1, <3>1, <3>2
    <3>3. CASE d # c
      BY <1>12, <3>1, <3>3 DEF IInv, Listening
    <3> QED BY <3>2, <3>3
  <2> QED BY <2>1 DEF Listening
<1>14. Dialled'
  <2>1. ASSUME NEW i \in DOMAIN conn', NEW d \in Client, Leaky(i)', conn'[i].for = d PROVE Owned(d, i)'
    <3>1. i \in DOMAIN conn /\ Leaky(i) /\ conn[i].for = d /\ conn'[i].open
      BY <1>3, <1>4, <2>1 DEF Leaky
    <3>2. CASE d = c
      BY <3>1, <3>2
    <3>3. CASE d # c
      BY <1>12, <3>1, <3>3 DEF IInv, Dialled
    <3> QED BY <3>2, <3>3
  <2> QED BY <2>1 DEF Dialled
<1> QED BY <1>5, <1>6, <1>7, <1>8, <1>9, <1>10, <1>11, <1>13, <1>14 DEF IInv

LEMMA ListsStay == ASSUME lst \in Seq(ListenerType), UNCHANGED lst PROVE ListsFollow
  BY DEF ListsFollow, Closer

(* What the invariant says of one client.                                  *)
LEMMA ClientFacts ==
  ASSUME IInv, NEW c \in Client
  PROVE  /\ cl[c] \in ClientType /\ cl[c].known \subseteq DOMAIN conn /\ TrueQueue(cl[c].q, DOMAIN conn)
         /\ \A k \in Cmd(c) : At(c, k) # "none" => Live(c)
         /\ \A l \in DOMAIN lst : lst[l].open /\ lst[l].for = c => Held(c)
         /\ \A i \in DOMAIN conn : Leaky(i) /\ conn[i].for = c => Owned(c, i)
<1>1. cl[c] \in ClientType /\ cl[c].known \subseteq DOMAIN conn /\ TrueQueue(cl[c].q, DOMAIN conn)
  BY InboxFacts
<1> QED BY <1>1 DEF IInv, Tasks, Listening, Dialled

LEMMA NewClient ==
  newIPCConn \in ClientType /\ newIPCConn.inbox = <<>> /\ newIPCConn.known = {} /\ newIPCConn.q = <<>>
<1>1. newIPCConn.inbox = <<>> /\ newIPCConn.known = {} /\ newIPCConn.q = <<>>
  BY SMTT(30) DEF newIPCConn
<1>2. <<>> \in Requests /\ <<>> \in Queue /\ "read" \in ClientPc /\ 0 \in Nat
  BY SMTT(30) DEF Requests, Queue, ClientPc
<1>3. newIPCConn \in ClientType
  BY <1>2, SMTT(30) DEF newIPCConn, ClientType
<1> QED BY <1>1, <1>3

LEMMA AcceptLoopStep ==
  ASSUME IInv, NEW c \in Client, acceptLoop(c) PROVE IInv'
<1>1. cl[c].pc = "none" /\ cl' = [cl EXCEPT ![c] = newIPCConn] /\ UNCHANGED <<sc, task, lst, conn, push>>
  BY DEF acceptLoop, overlay, server
<1>2. Types /\ lst \in Seq(ListenerType)
  BY DEF IInv, Types
<1>3. TasksTyped' /\ SamePlaces /\ ConnsFollow /\ ListsFollow
  BY <1>1, <1>2, TasksStay, Still, ListsStay
<1>4. newIPCConn \in ClientType /\ newIPCConn.inbox = <<>> /\ newIPCConn.known = {} /\ newIPCConn.q = <<>>
  BY NewClient
<1>6. TrueQueue(newIPCConn.q, DOMAIN conn) /\ newIPCConn.known \subseteq DOMAIN conn
  <2>1. TrueQueue(<<>>, DOMAIN conn)
    BY SMTT(30) DEF TrueQueue, Queue
  <2> QED BY <1>4, <2>1
<1>7. ~Held(c) /\ (\A i : ~Owned(c, i)) /\ ~Live(c)
  BY <1>1, SMTT(30) DEF Held, Owned, Live
<1>8. /\ \A k \in Cmd(c) : At(c, k) = "none"
      /\ \A l \in DOMAIN lst : ~(lst[l].open /\ lst[l].for = c)
      /\ \A i \in DOMAIN conn : ~(Leaky(i) /\ conn[i].for = c)
  BY <1>7, ClientFacts
<1>9. \A l \in DOMAIN lst : ~(lst'[l].open /\ lst[l].for = c)
  BY <1>1, <1>8
<1> QED BY <1>1, <1>3, <1>4, <1>6, <1>8, <1>9, LifeStep

LEMMA ReadFailsStep ==
  ASSUME IInv, NEW c \in Client, ReadFails(c) PROVE IInv'
<1> DEFINE r == [cl[c] EXCEPT !.pc = "drain"]
<1>1. cl[c].pc = "read" /\ cl' = [cl EXCEPT ![c] = r] /\ UNCHANGED <<sc, task, lst, conn, push>>
  BY DEF ReadFails, overlay, server
<1>2. Types /\ ClientsTyped /\ lst \in Seq(ListenerType)
  BY DEF IInv, Types
<1>3. TasksTyped' /\ SamePlaces /\ ConnsFollow /\ ListsFollow
  BY <1>1, <1>2, TasksStay, Still, ListsStay
<1>4. cl[c] \in ClientType /\ cl[c].known \subseteq DOMAIN conn /\ TrueQueue(cl[c].q, DOMAIN conn)
  BY ClientFacts
<1>5. r \in ClientType /\ SameMail(r, cl[c]) /\ SameGoods(r, cl[c]) /\ r.pc = "drain"
  <2>1. "drain" \in ClientPc
    BY DEF ClientPc
  <2> QED BY <1>4, <2>1, LifeUpdates DEF Lives
<1> HIDE DEF r
<1>6. r.known \subseteq DOMAIN conn /\ TrueQueue(r.q, DOMAIN conn) /\ r.inbox = cl[c].inbox /\ r.issued = cl[c].issued
  BY <1>4, <1>5 DEF SameMail
<1>7. cl'[c] = r
  BY <1>1, <1>2, <1>5, PutClient
<1>8. (Held(c) => Held(c)') /\ \A i : Owned(c, i) => Owned(c, i)'
  <2>1. cl'[c].pc = "drain" /\ cl'[c].conns = cl[c].conns /\ cl'[c].ports = cl[c].ports
    BY <1>5, <1>7 DEF SameGoods
  <2>2. Cmd(c)' = Cmd(c)
    BY <1>1, ScriptStays
  <2> QED BY <1>1, <1>3, <2>1, <2>2, SMTT(30) DEF Held, Owned, Live, SamePlaces
<1>9. /\ \A l \in DOMAIN lst : lst'[l].open /\ lst[l].for = c => Held(c)'
      /\ \A i \in DOMAIN conn : Leaky(i) /\ conn[i].for = c => Owned(c, i)'
  BY <1>1, <1>8, ClientFacts
<1>10. r.pc \in {"read", "drain"}
  BY <1>5
<1> QED BY <1>1, <1>3, <1>5, <1>6, <1>9, <1>10, LifeStep

(* With no request running, all a client owns is on its own lists.         *)
LEMMA CleanupCopiesStep ==
  ASSUME IInv, NEW c \in Client, CleanupCopies(c) PROVE IInv'
<1> DEFINE a == [cl[c] EXCEPT !.pc = "sweep"]
           b == [a EXCEPT !.todoConns = cl[c].conns]
           r == [b EXCEPT !.todoPorts = cl[c].ports]
<1>1. cl[c].pc = "drain" /\ Running(c) = {} /\ UNCHANGED <<sc, task, lst, conn, push>>
  BY DEF CleanupCopies, overlay, server
<1>2. Types /\ ClientsTyped /\ lst \in Seq(ListenerType)
  BY DEF IInv, Types
<1>3. TasksTyped' /\ SamePlaces /\ ConnsFollow /\ ListsFollow
  BY <1>1, <1>2, TasksStay, Still, ListsStay
<1>4. cl[c] \in ClientType /\ cl[c].known \subseteq DOMAIN conn /\ TrueQueue(cl[c].q, DOMAIN conn)
  BY ClientFacts
<1>5. cl' = [cl EXCEPT ![c] = r]
  <2> DEFINE f == [cl EXCEPT ![c] = a]
             g == [f EXCEPT ![c] = b]
  <2>1. f[c] = a
    BY <1>2, SMTT(30) DEF ClientsTyped
  <2>2. cl' = [[f EXCEPT ![c] = [f[c] EXCEPT !.todoConns = cl[c].conns]] EXCEPT ![c].todoPorts = cl[c].ports]
    BY DEF CleanupCopies
  <2>3. cl' = [g EXCEPT ![c] = [g[c] EXCEPT !.todoPorts = cl[c].ports]]
    BY <2>1, <2>2
  <2> HIDE DEF a, b
  <2>4. g = [cl EXCEPT ![c] = b]
    BY PutTwice
  <2>5. [cl EXCEPT ![c] = b][c] = b
    BY <1>2, SMTT(30) DEF ClientsTyped
  <2>6. g[c] = b
    BY <2>4, <2>5
  <2>7. cl' = [[cl EXCEPT ![c] = b] EXCEPT ![c] = r]
    BY <2>3, <2>4, <2>6
  <2> HIDE DEF r
  <2> QED BY <2>7, PutTwice
<1>6. cl[c].conns \in SUBSET Nat /\ cl[c].ports \in SUBSET {1} /\ "sweep" \in ClientPc
  BY <1>4, ClientFields DEF ClientPc
<1>7. a \in ClientType /\ SameMail(a, cl[c]) /\ a.pc = "sweep"
  BY <1>4, <1>6, LifeUpdates, ZenonT(40) DEF Lives
<1> HIDE DEF a
<1>8. b \in ClientType /\ SameMail(b, a) /\ b.pc = a.pc /\ b.todoConns = cl[c].conns
  BY <1>6, <1>7, LifeUpdates DEF Lives
<1> HIDE DEF b
<1>9. r \in ClientType /\ SameMail(r, b) /\ r.pc = b.pc /\ r.todoConns = b.todoConns /\ r.todoPorts = cl[c].ports
  BY <1>6, <1>8, LifeUpdates DEF Lives
<1> HIDE DEF r
<1>10. r.known \subseteq DOMAIN conn /\ TrueQueue(r.q, DOMAIN conn) /\ r.inbox = cl[c].inbox /\ r.issued = cl[c].issued
  BY <1>4, <1>7, <1>8, <1>9 DEF SameMail
<1>11. cl'[c] = r
  BY <1>2, <1>5, <1>9, PutClient
<1>12. \A k \in Cmd(c) : At(c, k) = "none"
  BY <1>1, SMTT(30) DEF Running, At
<1>13. (Held(c) => Held(c)') /\ \A i : Owned(c, i) => Owned(c, i)'
  <2>1. cl'[c].pc = "sweep" /\ cl'[c].todoConns = cl[c].conns /\ cl'[c].todoPorts = cl[c].ports
    BY <1>7, <1>8, <1>9, <1>11
  <2> QED BY <1>1, <1>12, <2>1, SMTT(30) DEF Held, Owned, Live
<1>14. /\ \A l \in DOMAIN lst : lst'[l].open /\ lst[l].for = c => Held(c)'
       /\ \A i \in DOMAIN conn : Leaky(i) /\ conn[i].for = c => Owned(c, i)'
  BY <1>1, <1>13, ClientFacts
<1> QED BY <1>1, <1>3, <1>5, <1>9, <1>10, <1>12, <1>14, LifeStep

(* CloseConnection of what was never made does nothing.                    *)
LEMMA CloseNowhere ==
  ASSUME conn \in Seq(ConnType), NEW i, i \notin DOMAIN conn, NEW b
  PROVE  CloseConnection(conn, i, b) = conn
  BY SMTT(30) DEF CloseConnection

LEMMA CleanupEndsStep ==
  ASSUME IInv, NEW c \in Client, CleanupEnds(c) PROVE IInv'
<1> DEFINE a == [cl[c] EXCEPT !.pc = "gone"]
           r == [a EXCEPT !.done = TRUE]
<1>1. /\ cl[c].pc = "sweep" /\ cl[c].todoConns = {} /\ cl[c].todoPorts = {}
      /\ task' = [task EXCEPT ![c] = cancelAllDials(@)] /\ UNCHANGED <<sc, lst, conn, push>>
  BY DEF CleanupEnds, overlay, server
<1>2. Types /\ ClientsTyped /\ TasksTyped /\ lst \in Seq(ListenerType)
  BY DEF IInv, Types
<1>3. ConnsFollow /\ ListsFollow
  BY <1>1, <1>2, Still, ListsStay
<1>4. TasksTyped' /\ SamePlaces
  <2>1. /\ DOMAIN task' = Client
        /\ \A d \in Client : task'[d] = task[d] \/ task'[d] = cancelAllDials(task[d])
    BY <1>1, <1>2, SMTT(30) DEF TasksTyped
  <2> QED BY <1>1, <1>2, <2>1, Cancels
<1>5. cl[c] \in ClientType /\ cl[c].known \subseteq DOMAIN conn /\ TrueQueue(cl[c].q, DOMAIN conn)
  BY ClientFacts
<1>6. cl' = [cl EXCEPT ![c] = r]
  <2> DEFINE f == [cl EXCEPT ![c] = a]
  <2>1. f[c] = a
    BY <1>2, SMTT(30) DEF ClientsTyped
  <2>2. cl' = [f EXCEPT ![c] = [f[c] EXCEPT !.done = TRUE]]
    BY DEF CleanupEnds
  <2>3. cl' = [f EXCEPT ![c] = r]
    BY <2>1, <2>2
  <2> HIDE DEF a, r
  <2> QED BY <2>3, PutTwice
<1>7. a \in ClientType /\ SameMail(a, cl[c])
  <2>1. "gone" \in ClientPc
    BY DEF ClientPc
  <2> QED BY <1>5, <2>1, LifeUpdates DEF Lives
<1> HIDE DEF a
<1>8. r \in ClientType /\ SameMail(r, a)
  BY <1>7, LifeUpdates DEF Lives
<1> HIDE DEF r
<1>9. r.known \subseteq DOMAIN conn /\ TrueQueue(r.q, DOMAIN conn) /\ r.inbox = cl[c].inbox /\ r.issued = cl[c].issued
  BY <1>5, <1>7, <1>8 DEF SameMail
<1>10. ~Held(c) /\ (\A i : ~Owned(c, i)) /\ ~Live(c)
  BY <1>1, SMTT(30) DEF Held, Owned, Live
<1>11. /\ \A k \in Cmd(c) : At(c, k) = "none"
       /\ \A l \in DOMAIN lst : ~(lst[l].open /\ lst[l].for = c)
       /\ \A i \in DOMAIN conn : ~(Leaky(i) /\ conn[i].for = c)
  BY <1>10, ClientFacts
<1>12. \A l \in DOMAIN lst : ~(lst'[l].open /\ lst[l].for = c)
  BY <1>1, <1>11
<1> QED BY <1>1, <1>3, <1>4, <1>6, <1>8, <1>9, <1>11, <1>12, LifeStep

LEMMA Unbinds ==
  ASSUME lst \in Seq(ListenerType), lst' = Unbind(lst, 1)
  PROVE  ListsFollow /\ \A l \in DOMAIN lst : ~lst'[l].open
<1> DEFINE u(l) == [lst[l] EXCEPT !.open = FALSE]
<1>1. ASSUME NEW r \in ListenerType
      PROVE  /\ r.port = 1 /\ \A x \in BOOLEAN :
                  LET s == [r EXCEPT !.open = x]
                  IN  /\ s \in ListenerType /\ s.open = x /\ s.queue = r.queue
                      /\ s.acc = r.acc /\ s.id = r.id /\ s.for = r.for
  BY SMTT(30) DEF ListenerType
<1>2. \A l \in DOMAIN lst : lst[l] \in ListenerType
  BY SMTT(30)
<1>3. \A l \in DOMAIN lst : lst[l].port = 1 /\ u(l) \in ListenerType /\ ~u(l).open /\ Closer(u(l), lst[l])
  <2> TAKE l \in DOMAIN lst
  <2>1. lst[l] \in ListenerType
    BY <1>2
  <2>2. /\ lst[l].port = 1 /\ u(l) \in ListenerType /\ u(l).open = FALSE /\ u(l).queue = lst[l].queue
        /\ u(l).acc = lst[l].acc /\ u(l).id = lst[l].id /\ u(l).for = lst[l].for
    BY <1>1, <2>1
  <2> HIDE DEF u
  <2> QED BY <2>2, SMTT(30) DEF Closer
<1>4. lst' = [l \in DOMAIN lst |-> IF lst[l].port = 1 THEN u(l) ELSE lst[l]]
  BY DEF Unbind
<1> HIDE DEF u
<1>5. lst' = [l \in DOMAIN lst |-> u(l)]
  BY <1>3, <1>4, SMTT(30)
<1>6. lst' \in Seq(ListenerType) /\ DOMAIN lst' = DOMAIN lst /\ \A l \in DOMAIN lst : lst'[l] = u(l)
  BY <1>3, <1>5, SMTT(30)
<1> QED BY <1>3, <1>6 DEF ListsFollow

LEMMA CleanupReleasesStep ==
  ASSUME IInv, NEW c \in Client, CleanupReleases(c) PROVE IInv'
<1>1. cl[c].pc = "sweep" /\ UNCHANGED <<sc, task, push>>
  BY DEF CleanupReleases, server
<1>2. Types /\ ClientsTyped /\ lst \in Seq(ListenerType) /\ conn \in Seq(ConnType)
  BY DEF IInv, Types
<1>3. TasksTyped' /\ SamePlaces
  BY <1>1, <1>2, TasksStay
<1>4. cl[c] \in ClientType /\ cl[c].known \subseteq DOMAIN conn /\ TrueQueue(cl[c].q, DOMAIN conn)
  BY ClientFacts
<1>5. \A k \in Cmd(c) : At(c, k) = "none"
  <2>1. ~Live(c)
    BY <1>1, SMTT(30) DEF Live
  <2> QED BY <2>1, ClientFacts
<1>6. cl[c].todoConns \in SUBSET Nat /\ cl[c].todoPorts \in SUBSET {1}
  BY <1>4, ClientFields
<1>7. ASSUME NEW r \in ClientType, SameMail(r, cl[c]), cl' = [cl EXCEPT ![c] = r], ConnsFollow, ListsFollow,
             \A l \in DOMAIN lst : lst'[l].open /\ lst[l].for = c => Held(c)',
             \A i \in DOMAIN conn : conn'[i].open /\ Leaky(i) /\ conn[i].for = c => Owned(c, i)'
      PROVE  IInv'
  <2>1. r.known \subseteq DOMAIN conn /\ TrueQueue(r.q, DOMAIN conn) /\ r.inbox = cl[c].inbox /\ r.issued = cl[c].issued
    BY <1>4, <1>7 DEF SameMail
  <2> QED BY <1>1, <1>3, <1>5, <1>7, <2>1, LifeStep
<1>8. ASSUME NEW i \in cl[c].todoConns, conn' = CloseConnection(conn, i, "cleanup"),
             cl' = [cl EXCEPT ![c].todoConns = @ \ {i}], UNCHANGED lst
      PROVE  IInv'
  <2> DEFINE x == cl[c].todoConns \ {i}
             r == [cl[c] EXCEPT !.todoConns = x]
  <2>1. x \in SUBSET Nat /\ \A j : j \in x <=> j \in cl[c].todoConns /\ j # i
    BY <1>6
  <2>2. cl' = [cl EXCEPT ![c] = r]
    BY <1>8
  <2> HIDE DEF x
  <2>3. r \in ClientType /\ SameMail(r, cl[c]) /\ r.pc = cl[c].pc /\ r.todoConns = x /\ r.todoPorts = cl[c].todoPorts
    BY <1>4, <2>1, LifeUpdates, ZenonT(40) DEF Lives
  <2> HIDE DEF r
  <2>4. cl'[c] = r
    BY <1>2, <2>2, <2>3, PutClient
  <2>5. ConnsFollow /\ (i \in DOMAIN conn => ~conn'[i].open)
    <3>1. CASE i \in DOMAIN conn
      <4>1. "cleanup" \in By
        BY DEF By
      <4> QED BY <1>2, <1>8, <3>1, <4>1, ConnCloses
    <3>2. CASE i \notin DOMAIN conn
      <4>1. UNCHANGED conn
        BY <1>2, <1>8, <3>2, CloseNowhere
      <4> QED BY <1>2, <3>2, <4>1, ConnsStay
    <3> QED BY <3>1, <3>2
  <2>6. ListsFollow
    BY <1>2, <1>8, ListsStay
  <2>7. (Held(c) => Held(c)') /\ \A j : j # i /\ Owned(c, j) => Owned(c, j)'
    <3>1. cl'[c].pc = "sweep" /\ cl'[c].todoConns = x /\ cl'[c].todoPorts = cl[c].todoPorts
      BY <1>1, <2>3, <2>4
    <3> QED BY <1>1, <2>1, <3>1, SMTT(30) DEF Held, Owned, Live
  <2>8. \A l \in DOMAIN lst : lst'[l].open /\ lst[l].for = c => Held(c)'
    BY <1>8, <2>7, ClientFacts
  <2>9. \A j \in DOMAIN conn : conn'[j].open /\ Leaky(j) /\ conn[j].for = c => Owned(c, j)'
    <3>1. ASSUME NEW j \in DOMAIN conn, conn'[j].open, Leaky(j), conn[j].for = c PROVE Owned(c, j)'
      <4>1. j # i
        BY <2>5, <3>1
      <4>2. Owned(c, j)
        BY <3>1, ClientFacts
      <4> QED BY <2>7, <4>1, <4>2
    <3> QED BY <3>1
  <2> QED BY <1>7, <2>2, <2>3, <2>5, <2>6, <2>8, <2>9
<1>9. ASSUME NEW p \in cl[c].todoPorts, lst' = Unbind(lst, p),
             cl' = [cl EXCEPT ![c].todoPorts = @ \ {p}], UNCHANGED conn
      PROVE  IInv'
  <2> DEFINE x == cl[c].todoPorts \ {p}
             r == [cl[c] EXCEPT !.todoPorts = x]
  <2>1. p = 1 /\ x \in SUBSET {1}
    BY <1>6, SMTT(30)
  <2>2. cl' = [cl EXCEPT ![c] = r]
    BY <1>9
  <2> HIDE DEF x
  <2>3. r \in ClientType /\ SameMail(r, cl[c]) /\ r.pc = cl[c].pc /\ r.todoConns = cl[c].todoConns
    BY <1>4, <2>1, LifeUpdates DEF Lives
  <2> HIDE DEF r
  <2>4. cl'[c] = r
    BY <1>2, <2>2, <2>3, PutClient
  <2>5. ListsFollow /\ \A l \in DOMAIN lst : ~lst'[l].open
    <3>1. lst' = Unbind(lst, 1)
      BY <1>9, <2>1
    <3> QED BY <1>2, <3>1, Unbinds
  <2>6. ConnsFollow
    BY <1>2, <1>9, ConnsStay
  <2>7. \A i : Owned(c, i) => Owned(c, i)'
    <3>1. cl'[c].pc = "sweep" /\ cl'[c].todoConns = cl[c].todoConns
      BY <1>1, <2>3, <2>4
    <3> QED BY <1>1, <3>1, SMTT(30) DEF Owned, Live
  <2>8. \A i \in DOMAIN conn : Leaky(i) /\ conn[i].for = c => Owned(c, i)'
    BY <2>7, ClientFacts
  <2> QED BY <1>7, <2>2, <2>3, <2>5, <2>6, <2>8
<1> QED BY <1>8, <1>9 DEF CleanupReleases

-----------------------------------------------------------------------------
(* A request goes a step on: it and its client's lists change, the other   *)
(* requests and the other clients do not.                                  *)

Apart(c, k) ==
  \A d \in Client : \A j \in Cmd(d) : d # c \/ j # k => At(d, j)' = At(d, j) /\ Id(d, j)' = Id(d, j)
Deals(c) ==
  \A d \in Client :
    /\ Serving(d) /\ cl'[d].todoConns = cl[d].todoConns /\ cl'[d].todoPorts = cl[d].todoPorts
    /\ d # c => cl'[d].conns = cl[d].conns /\ cl'[d].ports = cl[d].ports
ConnsGrow ==
  /\ conn' \in Seq(ConnType) /\ push' \in Seq(PushType) /\ Len(push') = Len(conn') /\ Grows
  /\ \A i \in DOMAIN conn : Follows(conn'[i], conn[i])

LEMMA TaskMoves ==
  ASSUME IInv, NEW c \in Client, NEW k \in Cmd(c), At(c, k) # "none", Apart(c, k), Deals(c),
         ClientsTyped', TasksTyped', Told', Dials', Accepts', ConnsGrow, sc' = sc, lst' \in Seq(ListenerType),
         Op(c, k) = "close" =>
           \/ At(c, k)' \notin {"start", "untrack"}
           \/ Id(c, k)' \in DOMAIN conn' /\ (At(c, k)' = "untrack" => ~conn'[Id(c, k)'].open),
         \A l \in DOMAIN lst' : lst'[l].open =>
           \/ l \in DOMAIN lst /\ lst[l].open /\ lst'[l].for = lst[l].for /\ (Held(c) => Held(c)')
           \/ lst'[l].for = c /\ Held(c)',
         \A i \in DOMAIN conn' : Leaky(i)' =>
           \/ i \in DOMAIN conn /\ Leaky(i) /\ (Owned(c, i) => Owned(c, i)')
           \/ conn'[i].for = c /\ Owned(c, i)'
  PROVE  IInv'
<1>0. \A d : Cmd(d)' = Cmd(d) /\ \A j : Op(d, j)' = Op(d, j)
  BY ScriptStays
<1>1. Types'
  BY DEF IInv, Types, ConnsGrow
<1>2. Grows
  BY DEF ConnsGrow
<1>3. \A i \in DOMAIN conn : conn'[i].for = conn[i].for /\ (conn'[i].open => conn[i].open)
  BY DEF ConnsGrow, Follows
<1>4. Tasks' /\ Inbox'
  <2>1. \A d \in Client : Serving(d)
    BY DEF Deals
  <2>2. ASSUME NEW d \in Client, NEW j \in Cmd(d), At(d, j) = "none" PROVE At(d, j)' = "none"
    <3>1. d # c \/ j # k
      BY <2>2
    <3> QED BY <2>2, <3>1 DEF Apart
  <2> QED BY <1>2, <2>1, <2>2, ServeKept DEF IInv
<1>5. Closes'
  <2>1. ASSUME NEW d \in Client, NEW j \in Cmd(d), Op(d, j) = "close"
        PROVE  \/ At(d, j)' = At(d, j) /\ Id(d, j)' = Id(d, j)
               \/ At(d, j)' \notin {"start", "untrack"}
               \/ Id(d, j)' \in DOMAIN conn' /\ (At(d, j)' = "untrack" => ~conn'[Id(d, j)'].open)
    <3>1. CASE d # c \/ j # k
      BY <3>1 DEF Apart
    <3>2. CASE d = c /\ j = k
      BY <2>1, <3>2
    <3> QED BY <3>1, <3>2
  <2> QED BY <1>2, <1>3, <2>1, ClosesKept DEF IInv
<1>6. ASSUME NEW d \in Client, d # c PROVE (Held(d) => Held(d)') /\ \A i : Owned(d, i) => Owned(d, i)'
  <2>1. \A j \in Cmd(d) : At(d, j)' = At(d, j) /\ Id(d, j)' = Id(d, j)
    BY <1>6 DEF Apart
  <2>2. /\ cl'[d].pc = cl[d].pc /\ cl'[d].conns = cl[d].conns /\ cl'[d].ports = cl[d].ports
        /\ cl'[d].todoConns = cl[d].todoConns /\ cl'[d].todoPorts = cl[d].todoPorts
    BY <1>6 DEF Deals, Serving
  <2>3. Cmd(d)' = Cmd(d)
    BY <1>0
  <2>4. Held(d) => Held(d)'
    BY <2>1, <2>2, <2>3 DEF Held, Live
  <2>5. \A i : Owned(d, i) => Owned(d, i)'
    BY <2>1, <2>2, <2>3 DEF Owned, Live
  <2> QED BY <2>4, <2>5
<1>7. Listening'
  <2>1. ASSUME NEW l \in DOMAIN lst', NEW d \in Client, lst'[l].open, lst'[l].for = d PROVE Held(d)'
    <3>1. CASE lst'[l].for = c /\ Held(c)'
      BY <2>1, <3>1
    <3>2. CASE l \in DOMAIN lst /\ lst[l].open /\ lst'[l].for = lst[l].for /\ (Held(c) => Held(c)')
      <4>1. Held(d)
        BY <2>1, <3>2 DEF IInv, Listening
      <4> QED BY <1>6, <3>2, <4>1
    <3> QED BY <2>1, <3>1, <3>2
  <2> QED BY <2>1 DEF Listening
<1>8. Dialled'
  <2>1. ASSUME NEW i \in DOMAIN conn', NEW d \in Client, Leaky(i)', conn'[i].for = d PROVE Owned(d, i)'
    <3>1. CASE conn'[i].for = c /\ Owned(c, i)'
      BY <2>1, <3>1
    <3>2. CASE i \in DOMAIN conn /\ Leaky(i) /\ (Owned(c, i) => Owned(c, i)')
      <4>1. Owned(d, i)
        BY <1>3, <2>1, <3>2 DEF IInv, Dialled
      <4> QED BY <1>6, <3>2, <4>1
    <3> QED BY <2>1, <3>1, <3>2
  <2> QED BY <2>1 DEF Dialled
<1> QED BY <1>1, <1>4, <1>5, <1>7, <1>8 DEF IInv

LEMMA TaskPut ==
  ASSUME IInv, sc' = sc, NEW c \in Client, NEW k \in Cmd(c), NEW t \in TaskType, Becomes(c, k, t)
  PROVE  TasksTyped' /\ Apart(c, k) /\ At(c, k)' = t.pc /\ Id(c, k)' = t.id
<1>1. /\ TasksTyped' /\ task'[c][k] = t
      /\ \A d \in Client : \A j \in Cmd(d) : d # c \/ j # k => task'[d][j] = task[d][j]
  <2>1. TasksTyped
    BY DEF IInv, Types
  <2> QED BY <2>1, PutTask
<1> QED BY <1>1 DEF Apart, At, Id

LEMMA TaskFacts ==
  ASSUME IInv, NEW c \in Client, NEW k \in Cmd(c)
  PROVE  task[c][k] \in TaskType /\ Id(c, k) \in Nat /\ (At(c, k) # "none" => Live(c) /\ k \in Nat)
<1>1. task[c][k] \in TaskType
  BY SMTT(30) DEF IInv, Types, TasksTyped
<1>2. Id(c, k) \in Nat
  BY <1>1, TaskUpdates DEF Id
<1>3. ASSUME At(c, k) # "none" PROVE Live(c) /\ k \in Nat
  <2>1. Live(c) /\ k \in 1 .. cl[c].issued
    BY <1>3 DEF IInv, Tasks
  <2>2. cl[c].issued \in Nat
    BY InboxFacts
  <2> QED BY <2>1, <2>2, SMTT(30)
<1> QED BY <1>1, <1>2, <1>3

LEMMA GotoIs ==
  ASSUME IInv, sc' = sc, NEW c \in Client, NEW k \in Cmd(c), NEW p \in TaskPc, Goto(c, k, p)
  PROVE  TasksTyped' /\ Apart(c, k) /\ At(c, k)' = p /\ Id(c, k)' = Id(c, k)
<1> DEFINE t == [task[c][k] EXCEPT !.pc = p]
<1>1. Becomes(c, k, t)
  BY DEF Goto, Becomes
<1>2. task[c][k] \in TaskType
  BY TaskFacts
<1>3. t \in TaskType /\ t.pc = p /\ t.id = Id(c, k)
  BY <1>2, TaskUpdates DEF Id
<1> HIDE DEF t
<1> QED BY <1>1, <1>3, TaskPut

LEMMA EndIs ==
  ASSUME IInv, sc' = sc, NEW c \in Client, NEW k \in Cmd(c), End(c, k)
  PROVE  TasksTyped' /\ Apart(c, k) /\ At(c, k)' = "none"
<1>1. Becomes(c, k, NoTask)
  BY DEF End, Becomes
<1> QED BY <1>1, NoTaskTyped, TaskPut

LEMMA HeldStays ==
  ASSUME sc' = sc, NEW c \in Client, NEW k \in Cmd(c), Apart(c, k), cl'[c].pc = cl[c].pc,
         cl'[c].todoPorts = cl[c].todoPorts, 1 \in cl[c].ports => 1 \in cl'[c].ports,
         At(c, k) \notin {"track", "unbind"}
  PROVE  Held(c) => Held(c)'
<1>1. Cmd(c)' = Cmd(c)
  BY ScriptStays
<1>2. \A j \in Cmd(c) : At(c, j) \in {"track", "unbind"} => At(c, j)' = At(c, j)
  BY DEF Apart
<1> QED BY <1>1, <1>2, SMTT(30) DEF Held, Live

LEMMA OwnedStays ==
  ASSUME sc' = sc, NEW c \in Client, NEW k \in Cmd(c), Apart(c, k), cl'[c].pc = cl[c].pc,
         cl'[c].todoConns = cl[c].todoConns, NEW i, i \in cl[c].conns => i \in cl'[c].conns,
         At(c, k) # "made" \/ Id(c, k) # i
  PROVE  Owned(c, i) => Owned(c, i)'
<1>1. Cmd(c)' = Cmd(c)
  BY ScriptStays
<1>2. \A j \in Cmd(c) : At(c, j) = "made" /\ Id(c, j) = i => At(c, j)' = At(c, j) /\ Id(c, j)' = Id(c, j)
  BY DEF Apart
<1> QED BY <1>1, <1>2, SMTT(30) DEF Owned, Live

(* No dial has made a connection in this step or started its pusher.       *)
LEMMA DialsStay ==
  ASSUME IInv, sc' = sc, NEW c \in Client, NEW k \in Cmd(c), Apart(c, k), ConnsGrow, UNCHANGED push,
         Op(c, k) = "dial" /\ At(c, k)' \in {"made", "reply", "recheck"} =>
           At(c, k) \in {"made", "reply", "recheck"} /\ Id(c, k)' = Id(c, k)
  PROVE  Dials'
<1>1. \A d : Cmd(d)' = Cmd(d) /\ \A j : Op(d, j)' = Op(d, j)
  BY ScriptStays
<1>2. ASSUME NEW d \in Client, NEW j \in Cmd(d), Pending(d, j)'
      PROVE  Pending(d, j) /\ Id(d, j)' = Id(d, j)
  <2>1. CASE d # c \/ j # k
    BY <1>1, <1>2, <2>1 DEF Pending, Apart
  <2>2. CASE d = c /\ j = k
    BY <1>1, <1>2, <2>2 DEF Pending
  <2> QED BY <2>1, <2>2
<1>3. Grows /\ \A i \in DOMAIN conn : conn'[i].how = conn[i].how
  BY DEF ConnsGrow, Follows
<1> QED BY <1>2, <1>3, DialsKept DEF IInv

(* The steps that leave the listeners and the pushers alone.               *)
LEMMA TaskGoes ==
  ASSUME IInv, NEW c \in Client, NEW k \in Cmd(c), At(c, k) # "none", Apart(c, k), Deals(c),
         ClientsTyped', TasksTyped', Told', ConnsFollow, UNCHANGED <<sc, lst, push>>,
         Op(c, k) = "close" =>
           \/ At(c, k)' \notin {"start", "untrack"}
           \/ Id(c, k)' \in DOMAIN conn' /\ (At(c, k)' = "untrack" => ~conn'[Id(c, k)'].open),
         Op(c, k) = "dial" /\ At(c, k)' \in {"made", "reply", "recheck"} =>
           At(c, k) \in {"made", "reply", "recheck"} /\ Id(c, k)' = Id(c, k),
         Held(c) => Held(c)',
         \A i \in DOMAIN conn : conn'[i].open /\ Owned(c, i) => Owned(c, i)'
  PROVE  IInv'
<1>1. ConnsGrow /\ DOMAIN conn' = DOMAIN conn /\ Grows
  BY DEF IInv, Types, ConnsGrow, ConnsFollow, Grows
<1>2. \A i \in DOMAIN conn : /\ conn'[i].how = conn[i].how /\ conn'[i].for = conn[i].for
                             /\ conn'[i].open => conn[i].open
  BY DEF ConnsFollow, Follows
<1>3. Dials'
  BY <1>1, DialsStay
<1>4. Accepts'
  BY <1>1, <1>2, AcceptsKept DEF IInv
<1>5. \A i \in DOMAIN conn' : Leaky(i)' => i \in DOMAIN conn /\ Leaky(i) /\ (Owned(c, i) => Owned(c, i)')
  BY <1>1, <1>2 DEF Leaky
<1>6. lst' \in Seq(ListenerType)
  BY DEF IInv, Types
<1> QED BY <1>1, <1>3, <1>4, <1>5, <1>6, TaskMoves

LEMMA AlikeDeals ==
  ASSUME NEW c \in Client, \A d \in Client : Alike(cl'[d], cl[d])
  PROVE  /\ Deals(c) /\ cl'[c].pc = cl[c].pc /\ cl'[c].ports = cl[c].ports /\ cl'[c].conns = cl[c].conns
         /\ cl'[c].todoPorts = cl[c].todoPorts /\ cl'[c].todoConns = cl[c].todoConns
  BY DEF Deals, Serving, Alike

(* A step from a place that holds nothing: only a message may be queued.   *)
LEMMA TaskSpeaks ==
  ASSUME IInv, NEW c \in Client, NEW k \in Cmd(c), At(c, k) \notin {"none", "track", "unbind", "made"},
         TasksTyped', Apart(c, k), At(c, k)' \notin {"start", "untrack", "made"},
         Op(c, k) = "dial" /\ At(c, k)' \in {"reply", "recheck"} =>
           At(c, k) \in {"reply", "recheck"} /\ Id(c, k)' = Id(c, k),
         ClientsTyped', Told', \A d \in Client : Alike(cl'[d], cl[d]), UNCHANGED <<sc, lst, conn, push>>
  PROVE  IInv'
<1>1. /\ Deals(c) /\ cl'[c].pc = cl[c].pc /\ cl'[c].ports = cl[c].ports /\ cl'[c].conns = cl[c].conns
      /\ cl'[c].todoPorts = cl[c].todoPorts /\ cl'[c].todoConns = cl[c].todoConns
  BY AlikeDeals
<1>2. ConnsFollow
  BY Still DEF IInv
<1>3. Held(c) => Held(c)'
  BY <1>1, HeldStays
<1>4. \A i : Owned(c, i) => Owned(c, i)'
  <2> TAKE i
  <2>1. (i \in cl[c].conns => i \in cl'[c].conns) /\ At(c, k) # "made"
    BY <1>1
  <2> QED BY <1>1, <2>1, OwnedStays
<1>5. At(c, k) # "none" /\ At(c, k)' \notin {"start", "untrack"}
  OBVIOUS
<1>6. Op(c, k) = "dial" /\ At(c, k)' \in {"made", "reply", "recheck"} =>
           At(c, k) \in {"made", "reply", "recheck"} /\ Id(c, k)' = Id(c, k)
  OBVIOUS
<1> QED BY <1>1, <1>2, <1>3, <1>4, <1>5, <1>6, TaskGoes

LEMMA AnswerFits ==
  ASSUME IInv, NEW c \in Client, NEW k \in Nat, Queued(c, Answer(k)) \/ Refused(c), UNCHANGED conn
  PROVE  ClientsTyped' /\ Told' /\ \A d \in Client : Alike(cl'[d], cl[d])
<1>1. Answer(k) \in Msg /\ Answer(k).op = "reply"
  BY MsgTyped
<1>m. PICK m : m = Answer(k)
  OBVIOUS
<1>2. m \in Msg /\ Fits(m, DOMAIN conn') /\ (Queued(c, m) \/ Refused(c))
  <2>1. m \in Msg /\ m.op = "reply" /\ (Queued(c, m) \/ Refused(c))
    BY <1>m, <1>1
  <2> QED BY <2>1, SMTT(30) DEF Fits
<1>3. ClientsTyped /\ Told /\ Grows
  BY Still DEF IInv, Types
<1> QED BY <1>2, <1>3, Writes

LEMMA SendErrorStep ==
  ASSUME IInv, NEW c \in Client, NEW k \in Cmd(c), At(c, k) \in {"start", "error"}, sendError(c, k), sc' = sc
  PROVE  IInv'
<1>1. At(c, k) \notin {"none", "track", "unbind", "made"}
  BY SMTT(30)
<1>2. (Queued(c, Answer(k)) \/ Refused(c)) /\ End(c, k) /\ UNCHANGED <<lst, conn, push>>
  BY DEF sendError, overlay
<1>3. TasksTyped' /\ Apart(c, k) /\ At(c, k)' = "none"
  BY <1>2, EndIs
<1>4. k \in Nat
  BY <1>1, TaskFacts
<1>5. ClientsTyped' /\ Told' /\ \A d \in Client : Alike(cl'[d], cl[d])
  BY <1>2, <1>4, AnswerFits
<1>6. At(c, k)' \notin {"start", "untrack", "made"} /\ At(c, k)' \notin {"reply", "recheck"}
  BY <1>3
<1> QED BY <1>1, <1>2, <1>3, <1>5, <1>6, TaskSpeaks

(* A step that only changes its place.                                     *)
LEMMA TaskTurns ==
  ASSUME IInv, NEW c \in Client, NEW k \in Cmd(c), At(c, k) \in {"start", "dialing"},
         NEW p \in {"error", "dialing"}, Goto(c, k, p), UNCHANGED <<sc, cl, lst, conn, push>>
  PROVE  IInv'
<1>1. At(c, k) \notin {"none", "track", "unbind", "made"}
  BY SMTT(30)
<1>2. p \in TaskPc
  BY DEF TaskPc
<1>3. TasksTyped' /\ Apart(c, k) /\ At(c, k)' = p
  BY <1>2, GotoIs
<1>4. ClientsTyped' /\ Told' /\ \A d \in Client : Alike(cl'[d], cl[d])
  <2>1. ClientsTyped /\ Told /\ Grows
    BY Still DEF IInv, Types
  <2> QED BY <2>1, KeepAlike
<1>5. At(c, k)' \notin {"start", "untrack", "made"} /\ At(c, k)' \notin {"reply", "recheck"}
  BY <1>3, SMTT(30)
<1> QED BY <1>1, <1>3, <1>4, <1>5, TaskSpeaks

(* A change of a client's ports.                                           *)
LEMMA PutPorts ==
  ASSUME IInv, Grows, NEW c \in Client, NEW P \in SUBSET {1},
         cl' = [cl EXCEPT ![c] = [cl[c] EXCEPT !.ports = P]]
  PROVE  /\ ClientsTyped' /\ Told' /\ Deals(c) /\ cl'[c].ports = P /\ cl'[c].conns = cl[c].conns
         /\ cl'[c].pc = cl[c].pc /\ cl'[c].todoConns = cl[c].todoConns /\ cl'[c].todoPorts = cl[c].todoPorts
<1> DEFINE r == [cl[c] EXCEPT !.ports = P]
<1>1. /\ cl[c] \in ClientType /\ cl[c].known \subseteq DOMAIN conn /\ TrueQueue(cl[c].q, DOMAIN conn)
      /\ ClientsTyped /\ Told
  BY ClientFacts DEF IInv, Types
<1>2. ASSUME NEW s \in ClientType
      PROVE  LET u == [s EXCEPT !.ports = P] IN
             /\ u \in ClientType /\ SameMail(u, s) /\ u.pc = s.pc /\ u.conns = s.conns
             /\ u.todoConns = s.todoConns /\ u.todoPorts = s.todoPorts /\ u.ports = P
  BY SMTT(30) DEF ClientType, SameMail
<1>3. /\ r \in ClientType /\ SameMail(r, cl[c]) /\ r.pc = cl[c].pc /\ r.conns = cl[c].conns
      /\ r.todoConns = cl[c].todoConns /\ r.todoPorts = cl[c].todoPorts /\ r.ports = P
  BY <1>1, <1>2
<1> HIDE DEF r
<1>4. cl' = [cl EXCEPT ![c] = r]
  BY DEF r
<1>5. ClientsTyped' /\ cl'[c] = r /\ \A d \in Client : d # c => cl'[d] = cl[d]
  BY <1>1, <1>3, <1>4, PutClient
<1>6. Told'
  <2>1. cl'[c].known \subseteq DOMAIN conn' /\ TrueQueue(cl'[c].q, DOMAIN conn')
    <3>1. cl'[c].known = cl[c].known /\ cl'[c].q = cl[c].q
      BY <1>3, <1>5 DEF SameMail
    <3>2. TrueQueue(cl[c].q, DOMAIN conn') /\ cl[c].known \subseteq DOMAIN conn'
      BY <1>1, QueueStays DEF Grows
    <3> QED BY <3>1, <3>2
  <2> QED BY <1>1, <1>5, <2>1, ToldPut
<1>7. Deals(c)
  <2>1. ASSUME NEW d \in Client
        PROVE  /\ Serving(d) /\ cl'[d].todoConns = cl[d].todoConns /\ cl'[d].todoPorts = cl[d].todoPorts
               /\ d # c => cl'[d].conns = cl[d].conns /\ cl'[d].ports = cl[d].ports
    <3>1. CASE d # c
      BY <1>5, <3>1 DEF Serving
    <3>2. CASE d = c
      BY <1>3, <1>5, <3>2 DEF Serving, SameMail
    <3> QED BY <3>1, <3>2
  <2> QED BY <2>1 DEF Deals
<1> QED BY <1>3, <1>5, <1>6, <1>7

(* handleBind: the request answers for the listener until it is tracked.   *)
LEMMA BindListens ==
  ASSUME IInv, NEW c \in Client, NEW k \in Cmd(c), Op(c, k) = "bind", At(c, k) = "start",
         lst' = Append(lst, [port |-> 1, open |-> TRUE, for |-> c, queue |-> <<>>, acc |-> "none", id |-> 0]),
         Becomes(c, k, [task[c][k] EXCEPT !.pc = "track", !.id = Len(lst) + 1]),
         UNCHANGED <<sc, cl, conn, push>>
  PROVE  IInv'
<1> DEFINE L == [port |-> 1, open |-> TRUE, for |-> c, queue |-> <<>>, acc |-> "none", id |-> 0]
           t == [task[c][k] EXCEPT !.pc = "track", !.id = Len(lst) + 1]
<1>1. Types /\ ClientsTyped /\ Told /\ lst \in Seq(ListenerType)
  BY DEF IInv, Types
<1>2. L \in ListenerType /\ L.queue = <<>> /\ L.acc # "push" /\ L.for = c
  <2>1. <<>> \in Numbers /\ 0 \in Nat
    BY SMTT(30) DEF Numbers
  <2> QED BY <2>1, SMTT(30) DEF ListenerType
<1> HIDE DEF L
<1>3. /\ lst' \in Seq(ListenerType) /\ Len(lst) + 1 \in Nat
      /\ \A l \in DOMAIN lst' : (l \in DOMAIN lst /\ lst'[l] = lst[l]) \/ lst'[l] = L
  <2>1. lst' = Append(lst, L)
    BY DEF L
  <2> QED BY <1>1, <1>2, <2>1, SMTT(30)
<1>4. task[c][k] \in TaskType /\ Live(c)
  <2>1. At(c, k) # "none"
    OBVIOUS
  <2> QED BY <2>1, TaskFacts
<1>5. t \in TaskType /\ t.pc = "track"
  <2>1. "track" \in TaskPc
    BY DEF TaskPc
  <2>2. Len(lst) + 1 \in Nat
    BY <1>3
  <2>3. Names(t, "track", Len(lst) + 1)
    BY <1>4, <2>1, <2>2, TaskNamed
  <2> HIDE DEF t
  <2> QED BY <2>3 DEF Names
<1> HIDE DEF t
<1>6. TasksTyped' /\ Apart(c, k) /\ At(c, k)' = "track"
  <2>1. Becomes(c, k, t)
    BY DEF t
  <2> QED BY <1>5, <2>1, TaskPut
<1>7. ConnsFollow /\ Grows
  BY <1>1, Still
<1>8. ConnsGrow
  BY <1>7 DEF ConnsGrow, ConnsFollow, IInv, Types
<1>9. ClientsTyped' /\ Told' /\ Deals(c)
  BY <1>1, <1>7, KeepAlike, AlikeDeals
<1>10. Dials'
  BY <1>6, <1>8, DialsStay
<1>11. Accepts'
  <2>1. \A l \in DOMAIN lst' :
           \/ l \in DOMAIN lst /\ lst'[l].queue = lst[l].queue
              /\ (lst'[l].acc = "push" => lst[l].acc = "push" /\ lst'[l].id = lst[l].id)
           \/ lst'[l].queue = <<>> /\ lst'[l].acc # "push"
    BY <1>2, <1>3
  <2> QED BY <1>7, <2>1, AcceptsKept DEF IInv
<1>12. Held(c)'
  <2>1. Live(c)' /\ Cmd(c)' = Cmd(c)
    BY <1>4, ScriptStays DEF Live
  <2> QED BY <1>6, <2>1 DEF Held
<1>13. \A l \in DOMAIN lst' : lst'[l].open =>
           \/ l \in DOMAIN lst /\ lst[l].open /\ lst'[l].for = lst[l].for /\ (Held(c) => Held(c)')
           \/ lst'[l].for = c /\ Held(c)'
  BY <1>2, <1>3, <1>12
<1>14. \A i \in DOMAIN conn' : Leaky(i)' => i \in DOMAIN conn /\ Leaky(i) /\ (Owned(c, i) => Owned(c, i)')
  <2>1. ASSUME NEW i PROVE Owned(c, i) => Owned(c, i)'
    <3>1. At(c, k) # "made"
      OBVIOUS
    <3> QED BY <1>6, <3>1, OwnedStays
  <2> QED BY <2>1 DEF Leaky
<1>15. At(c, k) # "none" /\ Op(c, k) # "close"
  OBVIOUS
<1> QED BY <1>3, <1>6, <1>8, <1>9, <1>10, <1>11, <1>13, <1>14, <1>15, TaskMoves

LEMMA BindTracks ==
  ASSUME IInv, NEW c \in Client, NEW k \in Cmd(c), Op(c, k) = "bind", At(c, k) = "track",
         cl' = [cl EXCEPT ![c].ports = @ \cup {1}], Goto(c, k, "reply"), UNCHANGED <<sc, lst, conn, push>>
  PROVE  IInv'
<1> DEFINE P == cl[c].ports \cup {1}
<1>1. At(c, k) # "none" /\ At(c, k) # "made" /\ "reply" \in TaskPc /\ Op(c, k) # "close" /\ Op(c, k) # "dial"
  BY DEF TaskPc
<1>2. Live(c) /\ cl[c] \in ClientType
  BY <1>1, TaskFacts, ClientFacts
<1>3. P \in SUBSET {1} /\ 1 \in P
  <2>1. cl[c].ports \in SUBSET {1}
    BY <1>2, ClientFields
  <2> QED BY <2>1
<1>4. cl' = [cl EXCEPT ![c] = [cl[c] EXCEPT !.ports = P]]
  OBVIOUS
<1> HIDE DEF P
<1>5. ConnsFollow /\ Grows
  BY Still DEF IInv
<1>6. /\ ClientsTyped' /\ Told' /\ Deals(c) /\ cl'[c].ports = P /\ cl'[c].conns = cl[c].conns
      /\ cl'[c].pc = cl[c].pc /\ cl'[c].todoConns = cl[c].todoConns
  BY <1>3, <1>4, <1>5, PutPorts
<1>7. TasksTyped' /\ Apart(c, k)
  BY <1>1, GotoIs
<1>8. Held(c)'
  BY <1>2, <1>3, <1>6 DEF Held, Live
<1>9. \A i : Owned(c, i) => Owned(c, i)'
  <2> TAKE i
  <2>1. i \in cl[c].conns => i \in cl'[c].conns
    BY <1>6
  <2> QED BY <1>1, <1>6, <1>7, <2>1, OwnedStays
<1> QED BY <1>1, <1>5, <1>6, <1>7, <1>8, <1>9, TaskGoes

(* The answer is queued: the acceptor starts.                              *)
LEMMA BindReplies ==
  ASSUME IInv, NEW c \in Client, NEW k \in Cmd(c), Op(c, k) = "bind", At(c, k) = "reply",
         Queued(c, Answer(k)), lst' = [lst EXCEPT ![task[c][k].id].acc = "idle"], End(c, k),
         UNCHANGED <<sc, conn, push>>
  PROVE  IInv'
<1>1. /\ At(c, k) # "none" /\ At(c, k) # "made" /\ Op(c, k) # "close" /\ Op(c, k) # "dial"
      /\ At(c, k) \notin {"track", "unbind"}
  OBVIOUS
<1>2. k \in Nat /\ lst \in Seq(ListenerType)
  BY <1>1, TaskFacts DEF IInv, Types
<1>3. ConnsFollow /\ Grows
  BY Still DEF IInv
<1>4. ConnsGrow
  BY <1>3 DEF ConnsGrow, ConnsFollow, IInv, Types
<1>5. ClientsTyped' /\ Told' /\ \A d \in Client : Alike(cl'[d], cl[d])
  BY <1>2, AnswerFits
<1>6. /\ Deals(c) /\ cl'[c].pc = cl[c].pc /\ cl'[c].ports = cl[c].ports /\ cl'[c].conns = cl[c].conns
      /\ cl'[c].todoPorts = cl[c].todoPorts /\ cl'[c].todoConns = cl[c].todoConns
  BY <1>5, AlikeDeals
<1>7. TasksTyped' /\ Apart(c, k)
  BY EndIs
<1>8. Dials'
  BY <1>1, <1>4, <1>7, DialsStay
<1>l. PICK l : l = task[c][k].id
  OBVIOUS
<1>9. /\ lst' \in Seq(ListenerType) /\ DOMAIN lst' = DOMAIN lst
      /\ \A j \in DOMAIN lst : lst'[j] = lst[j] \/ (Kept(lst'[j], lst[j]) /\ lst'[j].acc = "idle" /\ lst'[j].queue = lst[j].queue)
  <2> DEFINE r == [lst[l] EXCEPT !.acc = "idle"]
  <2>1. lst' = [lst EXCEPT ![l] = r]
    BY <1>l
  <2>2. CASE l \notin DOMAIN lst
    <3> HIDE DEF r
    <3>1. [lst EXCEPT ![l] = r] = lst
      BY <1>2, <2>2, SMTT(30)
    <3> QED BY <1>2, <2>1, <3>1
  <2>3. CASE l \in DOMAIN lst
    <3>1. lst[l] \in ListenerType /\ "idle" \in AccState
      BY <1>2, <2>3, SMTT(30) DEF AccState
    <3>2. Kept(r, lst[l]) /\ r.acc = "idle" /\ r.queue = lst[l].queue
      BY <3>1, ListenerUpdates DEF Turns
    <3> HIDE DEF r
    <3>3. /\ lst' \in Seq(ListenerType) /\ DOMAIN lst' = DOMAIN lst /\ lst'[l] = r
          /\ \A j \in DOMAIN lst : j # l => lst'[j] = lst[j]
      BY <1>2, <2>1, <2>3, <3>2, PutListener DEF Kept
    <3> QED BY <3>2, <3>3
  <2> QED BY <2>2, <2>3
<1>10. Accepts'
  <2>1. \A j \in DOMAIN lst' :
          /\ j \in DOMAIN lst /\ lst'[j].queue = lst[j].queue
          /\ (lst'[j].acc = "push" => lst[j].acc = "push" /\ lst'[j].id = lst[j].id)
    BY <1>9
  <2> QED BY <1>3, <2>1, AcceptsKept DEF IInv
<1>11. Held(c) => Held(c)'
  BY <1>1, <1>6, <1>7, HeldStays
<1>12. \A j \in DOMAIN lst' : lst'[j].open =>
         j \in DOMAIN lst /\ lst[j].open /\ lst'[j].for = lst[j].for /\ (Held(c) => Held(c)')
  BY <1>9, <1>11 DEF Kept
<1>13. \A i \in DOMAIN conn' : Leaky(i)' => i \in DOMAIN conn /\ Leaky(i) /\ (Owned(c, i) => Owned(c, i)')
  <2>1. ASSUME NEW i PROVE Owned(c, i) => Owned(c, i)'
    <3>1. i \in cl[c].conns => i \in cl'[c].conns
      BY <1>6
    <3> QED BY <1>1, <1>6, <1>7, <3>1, OwnedStays
  <2> QED BY <2>1 DEF Leaky
<1> QED BY <1>1, <1>4, <1>5, <1>6, <1>7, <1>8, <1>9, <1>10, <1>12, <1>13, TaskMoves

LEMMA HandleBindStep ==
  ASSUME IInv, NEW c \in Client, NEW k \in Cmd(c), handleBind(c, k), sc' = sc PROVE IInv'
<1>1. Op(c, k) = "bind" /\ UNCHANGED <<conn, push>>
  BY DEF handleBind
<1>2. CASE At(c, k) = "start" /\ Goto(c, k, "error") /\ UNCHANGED <<cl, lst>>
  BY <1>1, <1>2, TaskTurns
<1>3. CASE /\ At(c, k) = "start" /\ UNCHANGED cl
           /\ lst' = Append(lst, [port |-> 1, open |-> TRUE, for |-> c, queue |-> <<>>, acc |-> "none", id |-> 0])
           /\ task' = [task EXCEPT ![c][k] = [@ EXCEPT !.pc = "track", !.id = Len(lst) + 1]]
  <2>1. Becomes(c, k, [task[c][k] EXCEPT !.pc = "track", !.id = Len(lst) + 1])
    BY <1>3 DEF Becomes
  <2> QED BY <1>1, <1>3, <2>1, BindListens
<1>4. CASE At(c, k) = "track" /\ cl' = [cl EXCEPT ![c].ports = @ \cup {1}] /\ Goto(c, k, "reply") /\ UNCHANGED lst
  BY <1>1, <1>4, BindTracks
<1>5. CASE /\ At(c, k) = "reply" /\ Queued(c, Answer(k)) /\ End(c, k)
           /\ lst' = [lst EXCEPT ![task[c][k].id].acc = "idle"]
  BY <1>1, <1>5, BindReplies
<1>6. CASE At(c, k) = "reply" /\ Refused(c) /\ End(c, k) /\ UNCHANGED lst
  <2>1. At(c, k) \notin {"none", "track", "unbind", "made"}
    BY <1>6
  <2>2. TasksTyped' /\ Apart(c, k) /\ At(c, k)' = "none"
    BY <1>6, EndIs
  <2>3. k \in Nat
    BY <2>1, TaskFacts
  <2>4. ClientsTyped' /\ Told' /\ \A d \in Client : Alike(cl'[d], cl[d])
    BY <1>1, <1>6, <2>3, AnswerFits
  <2>5. At(c, k)' \notin {"start", "untrack", "made"} /\ At(c, k)' \notin {"reply", "recheck"}
    BY <2>2
  <2> QED BY <1>1, <1>6, <2>1, <2>2, <2>4, <2>5, TaskSpeaks
<1> QED BY <1>2, <1>3, <1>4, <1>5, <1>6 DEF handleBind, At

(* handleUnbind: what it takes from the list it unbinds itself.            *)
LEMMA UnbindTakes ==
  ASSUME IInv, NEW c \in Client, NEW k \in Cmd(c), Op(c, k) = "unbind", At(c, k) = "start",
         cl' = [cl EXCEPT ![c].ports = @ \ {1}], Goto(c, k, "unbind"), UNCHANGED <<sc, lst, conn, push>>
  PROVE  IInv'
<1> DEFINE P == cl[c].ports \ {1}
<1>1. At(c, k) # "none" /\ At(c, k) # "made" /\ "unbind" \in TaskPc /\ Op(c, k) # "close" /\ Op(c, k) # "dial"
  BY DEF TaskPc
<1>2. Live(c) /\ cl[c] \in ClientType
  BY <1>1, TaskFacts, ClientFacts
<1>3. P \in SUBSET {1}
  <2>1. cl[c].ports \in SUBSET {1}
    BY <1>2, ClientFields
  <2> QED BY <2>1
<1>4. cl' = [cl EXCEPT ![c] = [cl[c] EXCEPT !.ports = P]]
  OBVIOUS
<1> HIDE DEF P
<1>5. ConnsFollow /\ Grows
  BY Still DEF IInv
<1>6. /\ ClientsTyped' /\ Told' /\ Deals(c) /\ cl'[c].conns = cl[c].conns
      /\ cl'[c].pc = cl[c].pc /\ cl'[c].todoConns = cl[c].todoConns
  BY <1>3, <1>4, <1>5, PutPorts
<1>7. TasksTyped' /\ Apart(c, k) /\ At(c, k)' = "unbind"
  BY <1>1, GotoIs
<1>8. Held(c)'
  <2>1. Live(c)' /\ Cmd(c)' = Cmd(c)
    BY <1>2, <1>6, ScriptStays DEF Live
  <2> QED BY <1>7, <2>1 DEF Held
<1>9. \A i : Owned(c, i) => Owned(c, i)'
  <2> TAKE i
  <2>1. i \in cl[c].conns => i \in cl'[c].conns
    BY <1>6
  <2> QED BY <1>1, <1>6, <1>7, <2>1, OwnedStays
<1> QED BY <1>1, <1>5, <1>6, <1>7, <1>8, <1>9, TaskGoes

LEMMA UnbindCloses ==
  ASSUME IInv, NEW c \in Client, NEW k \in Cmd(c), Op(c, k) = "unbind", At(c, k) = "unbind",
         lst' = Unbind(lst, 1), Goto(c, k, "error"), UNCHANGED <<sc, cl, conn, push>>
  PROVE  IInv'
<1>1. At(c, k) # "none" /\ At(c, k) # "made" /\ "error" \in TaskPc /\ Op(c, k) # "close" /\ Op(c, k) # "dial"
  BY DEF TaskPc
<1>2. ClientsTyped /\ Told /\ lst \in Seq(ListenerType)
  BY DEF IInv, Types
<1>3. ConnsFollow /\ Grows
  BY Still DEF IInv
<1>4. ConnsGrow
  BY <1>3 DEF ConnsGrow, ConnsFollow, IInv, Types
<1>5. ClientsTyped' /\ Told' /\ Deals(c)
  BY <1>2, <1>3, KeepAlike, AlikeDeals
<1>6. TasksTyped' /\ Apart(c, k)
  BY <1>1, GotoIs
<1>7. Dials'
  BY <1>1, <1>4, <1>6, DialsStay
<1>8. ListsFollow /\ \A l \in DOMAIN lst : ~lst'[l].open
  BY <1>2, Unbinds
<1>9. /\ lst' \in Seq(ListenerType) /\ \A l \in DOMAIN lst' : ~lst'[l].open
      /\ \A l \in DOMAIN lst' :
           /\ l \in DOMAIN lst /\ lst'[l].queue = lst[l].queue
           /\ (lst'[l].acc = "push" => lst[l].acc = "push" /\ lst'[l].id = lst[l].id)
  BY <1>8 DEF ListsFollow, Closer
<1>10. Accepts'
  BY <1>3, <1>9, AcceptsKept DEF IInv
<1>11. \A i \in DOMAIN conn' : Leaky(i)' => i \in DOMAIN conn /\ Leaky(i) /\ (Owned(c, i) => Owned(c, i)')
  <2>1. ASSUME NEW i PROVE Owned(c, i) => Owned(c, i)'
    BY <1>1, <1>6, OwnedStays
  <2> QED BY <2>1 DEF Leaky
<1> QED BY <1>1, <1>4, <1>5, <1>6, <1>7, <1>9, <1>10, <1>11, TaskMoves

LEMMA HandleUnbindStep ==
  ASSUME IInv, NEW c \in Client, NEW k \in Cmd(c), handleUnbind(c, k), sc' = sc PROVE IInv'
<1>1. Op(c, k) = "unbind" /\ UNCHANGED <<conn, push>>
  BY DEF handleUnbind
<1>2. CASE At(c, k) = "start" /\ Goto(c, k, "error") /\ UNCHANGED <<cl, lst>>
  BY <1>1, <1>2, TaskTurns
<1>3. CASE At(c, k) = "start" /\ cl' = [cl EXCEPT ![c].ports = @ \ {1}] /\ Goto(c, k, "unbind") /\ UNCHANGED lst
  BY <1>1, <1>3, UnbindTakes
<1>4. CASE At(c, k) = "unbind" /\ lst' = Unbind(lst, 1) /\ Goto(c, k, "error") /\ UNCHANGED cl
  BY <1>1, <1>4, UnbindCloses
<1> QED BY <1>2, <1>3, <1>4 DEF handleUnbind, At

-----------------------------------------------------------------------------
(* The steps that close or open connections.                               *)

(* A change of a client's list of connections.                             *)
Relists(c, N) ==
  /\ ClientsTyped' /\ Told' /\ Deals(c) /\ cl'[c].conns = N /\ cl'[c].ports = cl[c].ports
  /\ cl'[c].pc = cl[c].pc /\ cl'[c].todoConns = cl[c].todoConns /\ cl'[c].todoPorts = cl[c].todoPorts

LEMMA PutConns ==
  ASSUME IInv, Grows, NEW c \in Client, NEW N \in SUBSET Nat,
         cl' = [cl EXCEPT ![c] = [cl[c] EXCEPT !.conns = N]]
  PROVE  Relists(c, N)
<1>1. /\ cl[c] \in ClientType /\ TrueQueue(cl[c].q, DOMAIN conn) /\ ClientsTyped /\ Told
  BY ClientFacts DEF IInv, Types
<1>2. TrueQueue(cl[c].q, DOMAIN conn')
  BY <1>1, QueueStays DEF Grows
<1>3. Alike(cl[c], cl[c])
  BY DEF Alike
<1>4. /\ ClientsTyped' /\ Told' /\ \A d \in Client : Aside(d)
      /\ cl'[c].conns = N /\ \A d \in Client : d # c => cl'[d].conns = cl[d].conns
  BY <1>1, <1>2, <1>3, PutAside
<1> QED BY <1>4 DEF Relists, Deals, Serving, Aside, Lists

LEMMA SameConns ==
  ASSUME IInv, Grows, NEW c \in Client, UNCHANGED cl
  PROVE  Relists(c, cl[c].conns)
<1>1. ClientsTyped' /\ Told' /\ \A d \in Client : Alike(cl'[d], cl[d])
  BY KeepAlike DEF IInv, Types
<1> QED BY <1>1, AlikeDeals DEF Relists

(* A request ends or fails; the connection it drops from the list, if any, *)
(* is closed.                                                              *)
LEMMA TaskDrops ==
  ASSUME IInv, NEW c \in Client, NEW k \in Cmd(c), At(c, k) \notin {"none", "track", "unbind"},
         NEW i, At(c, k) = "made" => Id(c, k) = i, i \in DOMAIN conn, ~conn'[i].open,
         ConnsFollow, NEW N, Relists(c, N), \A j \in cl[c].conns : j # i => j \in N,
         TasksTyped', Apart(c, k), At(c, k)' \in {"none", "error"}, UNCHANGED <<sc, lst, push>>
  PROVE  IInv'
<1>1. /\ ClientsTyped' /\ Told' /\ Deals(c) /\ cl'[c].conns = N /\ cl'[c].ports = cl[c].ports
      /\ cl'[c].pc = cl[c].pc /\ cl'[c].todoConns = cl[c].todoConns /\ cl'[c].todoPorts = cl[c].todoPorts
  BY DEF Relists
<1>2. /\ At(c, k) # "none" /\ At(c, k) \notin {"track", "unbind"}
      /\ At(c, k)' \notin {"start", "untrack"} /\ At(c, k)' \notin {"made", "reply", "recheck"}
  OBVIOUS
<1>3. Held(c) => Held(c)'
  BY <1>1, <1>2, HeldStays
<1>4. ASSUME NEW j \in DOMAIN conn, conn'[j].open PROVE Owned(c, j) => Owned(c, j)'
  <2>1. j # i
    BY <1>4
  <2>2. (j \in cl[c].conns => j \in cl'[c].conns) /\ (At(c, k) # "made" \/ Id(c, k) # j)
    BY <1>1, <2>1
  <2> QED BY <1>1, <2>2, OwnedStays
<1> QED BY <1>1, <1>2, <1>3, <1>4, TaskGoes

LEMMA HandleCloseStep ==
  ASSUME IInv, NEW c \in Client, NEW k \in Cmd(c), handleClose(c, k), sc' = sc PROVE IInv'
<1>i. PICK i : i = Id(c, k)
  OBVIOUS
<1>1. Op(c, k) = "close" /\ UNCHANGED <<lst, push>>
  BY DEF handleClose
<1>2. conn \in Seq(ConnType) /\ cl[c] \in ClientType
  BY ClientFacts DEF IInv, Types
<1>3. CASE At(c, k) = "start" /\ conn' = CloseConnection(conn, i, "client") /\ Goto(c, k, "untrack") /\ UNCHANGED cl
  <2>1. i \in DOMAIN conn
    BY <1>i, <1>1, <1>3 DEF IInv, Closes
  <2>2. ConnsFollow /\ ~conn'[i].open
    <3>1. "client" \in By
      BY DEF By
    <3> QED BY <1>2, <1>3, <2>1, <3>1, ConnCloses
  <2>3. Grows /\ DOMAIN conn' = DOMAIN conn
    BY <2>2 DEF ConnsFollow, Grows
  <2>4. TasksTyped' /\ Apart(c, k) /\ At(c, k)' = "untrack" /\ Id(c, k)' = i
    <3>1. "untrack" \in TaskPc
      BY DEF TaskPc
    <3> QED BY <1>i, <1>3, <3>1, GotoIs
  <2>5. Relists(c, cl[c].conns)
    BY <1>3, <2>3, SameConns
  <2>6. /\ At(c, k) # "none" /\ At(c, k) # "made" /\ At(c, k) \notin {"track", "unbind"}
        /\ Op(c, k) # "dial"
    BY <1>1, <1>3
  <2>7. /\ ClientsTyped' /\ Told' /\ Deals(c) /\ cl'[c].conns = cl[c].conns /\ cl'[c].ports = cl[c].ports
        /\ cl'[c].pc = cl[c].pc /\ cl'[c].todoConns = cl[c].todoConns /\ cl'[c].todoPorts = cl[c].todoPorts
    BY <2>5 DEF Relists
  <2>8. Held(c) => Held(c)'
    BY <2>4, <2>6, <2>7, HeldStays
  <2>9. ASSUME NEW j \in DOMAIN conn PROVE Owned(c, j) => Owned(c, j)'
    <3>1. j \in cl[c].conns => j \in cl'[c].conns
      BY <2>7
    <3> QED BY <2>4, <2>6, <2>7, <3>1, OwnedStays
  <2>10. Id(c, k)' \in DOMAIN conn' /\ (At(c, k)' = "untrack" => ~conn'[Id(c, k)'].open)
    BY <2>1, <2>2, <2>3, <2>4
  <2> QED BY <1>1, <2>2, <2>4, <2>6, <2>7, <2>8, <2>9, <2>10, TaskGoes
<1>4. CASE At(c, k) = "untrack" /\ cl' = [cl EXCEPT ![c].conns = @ \ {i}] /\ Goto(c, k, "error") /\ UNCHANGED conn
  <2> DEFINE N == cl[c].conns \ {i}
  <2>1. i \in DOMAIN conn /\ ~conn'[i].open
    BY <1>i, <1>1, <1>4 DEF IInv, Closes
  <2>2. ConnsFollow /\ Grows
    BY <1>4, Still DEF IInv
  <2>3. N \in SUBSET Nat /\ \A j \in cl[c].conns : j # i => j \in N
    <3>1. cl[c].conns \in SUBSET Nat
      BY <1>2, ClientFields
    <3> QED BY <3>1
  <2>4. cl' = [cl EXCEPT ![c] = [cl[c] EXCEPT !.conns = N]]
    BY <1>4
  <2> HIDE DEF N
  <2>5. Relists(c, N)
    BY <2>2, <2>3, <2>4, PutConns
  <2>6. TasksTyped' /\ Apart(c, k) /\ At(c, k)' \in {"none", "error"}
    <3>1. "error" \in TaskPc
      BY DEF TaskPc
    <3>2. TasksTyped' /\ Apart(c, k) /\ At(c, k)' = "error"
      BY <1>4, <3>1, GotoIs
    <3> QED BY <3>2
  <2>7. At(c, k) \notin {"none", "track", "unbind"} /\ At(c, k) # "made"
    BY <1>4
  <2> QED BY <1>1, <2>1, <2>2, <2>3, <2>5, <2>6, <2>7, TaskDrops
<1> QED BY <1>i, <1>3, <1>4 DEF handleClose, At, Id

(* A dial that gives up closes the connection it made.                     *)
LEMMA DialCloses ==
  ASSUME IInv, NEW c \in Client, NEW k \in Cmd(c), Pending(c, k), NEW i, i = Id(c, k),
         conn' = CloseConnection(conn, i, "dial"), UNCHANGED cl \/ cl' = [cl EXCEPT ![c].conns = @ \ {i}],
         End(c, k), UNCHANGED <<sc, lst, push>>
  PROVE  IInv'
<1> DEFINE N == cl[c].conns \ {i}
<1>1. conn \in Seq(ConnType) /\ cl[c] \in ClientType
  BY ClientFacts DEF IInv, Types
<1>2. i \in DOMAIN conn
  BY DEF IInv, Dials
<1>3. ConnsFollow /\ ~conn'[i].open
  <2>1. "dial" \in By
    BY DEF By
  <2> QED BY <1>1, <1>2, <2>1, ConnCloses
<1>4. Grows
  BY <1>3 DEF ConnsFollow, Grows
<1>5. \E M : Relists(c, M) /\ \A j \in cl[c].conns : j # i => j \in M
  <2>1. CASE UNCHANGED cl
    <3>1. Relists(c, cl[c].conns)
      BY <1>4, <2>1, SameConns
    <3> QED BY <3>1
  <2>2. CASE cl' = [cl EXCEPT ![c].conns = @ \ {i}]
    <3>1. N \in SUBSET Nat /\ \A j \in cl[c].conns : j # i => j \in N
      <4>1. cl[c].conns \in SUBSET Nat
        BY <1>1, ClientFields
      <4> QED BY <4>1
    <3>2. cl' = [cl EXCEPT ![c] = [cl[c] EXCEPT !.conns = N]]
      BY <2>2
    <3> HIDE DEF N
    <3>3. Relists(c, N)
      BY <1>4, <3>1, <3>2, PutConns
    <3> QED BY <3>1, <3>3
  <2> QED BY <2>1, <2>2
<1>6. PICK M : Relists(c, M) /\ \A j \in cl[c].conns : j # i => j \in M
  BY <1>5
<1>7. TasksTyped' /\ Apart(c, k) /\ At(c, k)' \in {"none", "error"}
  <2>1. TasksTyped' /\ Apart(c, k) /\ At(c, k)' = "none"
    BY EndIs
  <2> QED BY <2>1
<1>8. At(c, k) \notin {"none", "track", "unbind"}
  BY DEF Pending
<1> QED BY <1>2, <1>3, <1>6, <1>7, <1>8, TaskDrops

LEMMA DialMadeStep ==
  ASSUME IInv, NEW c \in Client, NEW k \in Cmd(c), Op(c, k) = "dial", DialMade(c, k), sc' = sc PROVE IInv'
<1>i. PICK i : i = Id(c, k)
  OBVIOUS
<1>1. At(c, k) = "made" /\ UNCHANGED <<lst, push>> /\ Pending(c, k)
  BY DEF DialMade, At, Pending
<1>2. CASE conn' = CloseConnection(conn, i, "dial") /\ End(c, k) /\ UNCHANGED cl
  BY <1>i, <1>1, <1>2, DialCloses
<1>3. CASE cl' = [cl EXCEPT ![c].conns = @ \cup {i}] /\ Goto(c, k, "reply") /\ UNCHANGED conn
  <2> DEFINE N == cl[c].conns \cup {i}
  <2>1. ConnsFollow /\ Grows
    BY <1>3, Still DEF IInv
  <2>2. At(c, k) # "none" /\ At(c, k) \notin {"track", "unbind"}
    BY <1>1
  <2>3. Live(c) /\ i \in Nat
    BY <1>i, <2>2, TaskFacts
  <2>4. N \in SUBSET Nat /\ i \in N /\ \A j \in cl[c].conns : j \in N
    <3>1. cl[c].conns \in SUBSET Nat
      BY ClientFacts, ClientFields
    <3> QED BY <2>3, <3>1
  <2>5. cl' = [cl EXCEPT ![c] = [cl[c] EXCEPT !.conns = N]]
    BY <1>3
  <2> HIDE DEF N
  <2>6. Relists(c, N)
    BY <2>1, <2>4, <2>5, PutConns
  <2>7. /\ ClientsTyped' /\ Told' /\ Deals(c) /\ cl'[c].conns = N /\ cl'[c].ports = cl[c].ports
        /\ cl'[c].pc = cl[c].pc /\ cl'[c].todoConns = cl[c].todoConns /\ cl'[c].todoPorts = cl[c].todoPorts
    BY <2>6 DEF Relists
  <2>8. TasksTyped' /\ Apart(c, k) /\ At(c, k)' = "reply" /\ Id(c, k)' = Id(c, k)
    <3>1. "reply" \in TaskPc
      BY DEF TaskPc
    <3> QED BY <1>3, <3>1, GotoIs
  <2>9. Held(c) => Held(c)'
    BY <2>2, <2>7, <2>8, HeldStays
  <2>10. ASSUME NEW j PROVE Owned(c, j) => Owned(c, j)'
    <3>1. CASE j = i
      BY <2>3, <2>4, <2>7, <3>1 DEF Owned, Live
    <3>2. CASE j # i
      <4>1. (j \in cl[c].conns => j \in cl'[c].conns) /\ Id(c, k) # j
        BY <1>i, <2>4, <2>7, <3>2
      <4> QED BY <2>7, <2>8, <4>1, OwnedStays
    <3> QED BY <3>1, <3>2
  <2>11. At(c, k)' \notin {"start", "untrack"} /\ At(c, k) \in {"made", "reply", "recheck"}
    BY <1>1, <2>8
  <2> QED BY <1>1, <2>1, <2>2, <2>7, <2>8, <2>9, <2>10, <2>11, TaskGoes
<1> QED BY <1>i, <1>2, <1>3 DEF DialMade, Id

LEMMA DialRepliesStep ==
  ASSUME IInv, NEW c \in Client, NEW k \in Cmd(c), Op(c, k) = "dial", DialReplies(c, k), sc' = sc PROVE IInv'
<1>i. PICK i : i = Id(c, k)
  OBVIOUS
<1>1. At(c, k) = "reply" /\ UNCHANGED <<lst, push>> /\ Pending(c, k)
  BY DEF DialReplies, At, Pending
<1>2. CASE conn' = CloseConnection(conn, i, "dial") /\ End(c, k) /\ cl' = [cl EXCEPT ![c].conns = @ \ {i}]
  BY <1>i, <1>1, <1>2, DialCloses
<1>3. CASE Queued(c, [op |-> "dialOK", id |-> i, k |-> k]) /\ Goto(c, k, "recheck") /\ UNCHANGED conn
  <2> DEFINE m == [op |-> "dialOK", id |-> i, k |-> k]
  <2>1. Grows /\ ClientsTyped /\ Told
    BY <1>3, Still DEF IInv, Types
  <2>2. At(c, k) \notin {"none", "track", "unbind", "made"} /\ At(c, k) # "none"
    BY <1>1
  <2>3. i \in Nat /\ k \in Nat /\ i \in DOMAIN conn
    BY <1>i, <1>1, <2>2, TaskFacts DEF IInv, Dials
  <2>4. m \in Msg /\ m.id = i
    BY <2>3, MsgTyped
  <2> HIDE DEF m
  <2>5. Fits(m, DOMAIN conn') /\ Queued(c, m)
    BY <1>3, <2>3, <2>4 DEF Fits, m
  <2>6. ClientsTyped' /\ Told' /\ \A d \in Client : Alike(cl'[d], cl[d])
    BY <2>1, <2>4, <2>5, Writes
  <2>7. TasksTyped' /\ Apart(c, k) /\ At(c, k)' = "recheck" /\ Id(c, k)' = Id(c, k)
    <3>1. "recheck" \in TaskPc
      BY DEF TaskPc
    <3> QED BY <1>3, <3>1, GotoIs
  <2>8. At(c, k)' \notin {"start", "untrack", "made"} /\ At(c, k) \in {"reply", "recheck"}
    BY <1>1, <2>7
  <2> QED BY <1>1, <1>3, <2>2, <2>6, <2>7, <2>8, TaskSpeaks
<1> QED BY <1>i, <1>2, <1>3 DEF DialReplies, Id

(* The pusher takes the connection over: it is on the client's list.       *)
LEMMA DialRechecksStep ==
  ASSUME IInv, NEW c \in Client, NEW k \in Cmd(c), Op(c, k) = "dial", DialRechecks(c, k), sc' = sc PROVE IInv'
<1>i. PICK i : i = Id(c, k)
  OBVIOUS
<1>1. At(c, k) = "recheck" /\ UNCHANGED lst /\ Pending(c, k) /\ End(c, k)
  BY DEF DialRechecks, At, Pending
<1>2. CASE conn' = CloseConnection(conn, i, "dial") /\ cl' = [cl EXCEPT ![c].conns = @ \ {i}] /\ UNCHANGED push
  BY <1>i, <1>1, <1>2, DialCloses
<1>3. CASE push' = [push EXCEPT ![i] = "run"] /\ UNCHANGED <<cl, conn>>
  <2>0. \A d : Cmd(d)' = Cmd(d) /\ \A j : Op(d, j)' = Op(d, j)
    BY ScriptStays
  <2>1. ConnsFollow /\ Grows
    BY <1>3, Still DEF IInv
  <2>2. push \in Seq(PushType) /\ Len(push) = Len(conn) /\ lst' \in Seq(ListenerType)
    BY <1>1 DEF IInv, Types
  <2>3. i \in DOMAIN conn /\ push[i] = "none"
    BY <1>i, <1>1 DEF IInv, Dials
  <2>4. /\ push' \in Seq(PushType) /\ Len(push') = Len(push)
        /\ push'[i] = "run" /\ \A j \in DOMAIN conn : j # i => push'[j] = push[j]
    <3>1. "run" \in PushType
      BY DEF PushType
    <3> QED BY <1>3, <2>2, <2>3, <3>1, SMTT(30)
  <2>5. ConnsGrow
    BY <1>3, <2>1, <2>2, <2>4 DEF ConnsGrow, ConnsFollow
  <2>6. Relists(c, cl[c].conns)
    BY <1>3, <2>1, SameConns
  <2>7. /\ ClientsTyped' /\ Told' /\ Deals(c) /\ cl'[c].conns = cl[c].conns /\ cl'[c].ports = cl[c].ports
        /\ cl'[c].pc = cl[c].pc /\ cl'[c].todoConns = cl[c].todoConns /\ cl'[c].todoPorts = cl[c].todoPorts
    BY <2>6 DEF Relists
  <2>8. TasksTyped' /\ Apart(c, k) /\ At(c, k)' = "none"
    BY <1>1, EndIs
  <2>9. /\ At(c, k) # "none" /\ At(c, k) # "made" /\ At(c, k) \notin {"track", "unbind"}
        /\ Op(c, k) # "close" /\ ~Pending(c, k)'
    BY <1>1, <2>8 DEF Pending
  <2>10. Dials'
    <3>1. ASSUME NEW d \in Client, NEW j \in Cmd(d), Pending(d, j)'
          PROVE  Pending(d, j) /\ Id(d, j)' = Id(d, j) /\ push'[Id(d, j)] = push[Id(d, j)]
      <4>1. d # c \/ j # k
        BY <2>9, <3>1
      <4>2. Pending(d, j) /\ Id(d, j)' = Id(d, j)
        BY <2>0, <2>8, <3>1, <4>1 DEF Pending, Apart
      <4>3. Id(d, j) \in DOMAIN conn /\ Id(d, j) # i
        BY <1>i, <1>1, <4>1, <4>2, ZenonT(40) DEF IInv, Dials
      <4> QED BY <2>4, <4>2, <4>3
    <3> QED BY <1>3, <2>1, <3>1, DialsKept DEF IInv
  <2>11. Accepts'
    BY <1>1, <1>3, <2>1, AcceptsKept DEF IInv
  <2>12. Held(c) => Held(c)'
    BY <2>7, <2>8, <2>9, HeldStays
  <2>13. \A j \in DOMAIN conn' : Leaky(j)' => j \in DOMAIN conn /\ Leaky(j) /\ (Owned(c, j) => Owned(c, j)')
    <3>1. ASSUME NEW j PROVE Owned(c, j) => Owned(c, j)'
      <4>1. j \in cl[c].conns => j \in cl'[c].conns
        BY <2>7
      <4> QED BY <2>7, <2>8, <2>9, <4>1, OwnedStays
    <3>2. \A j \in DOMAIN conn : Leaky(j)' => Leaky(j)
      BY <1>3, <2>3, <2>4, SMTT(30) DEF Leaky
    <3> QED BY <1>3, <3>1, <3>2
  <2> QED BY <1>1, <2>2, <2>5, <2>7, <2>8, <2>9, <2>10, <2>11, <2>12, <2>13, TaskMoves
<1> QED BY <1>i, <1>2, <1>3 DEF DialRechecks, Id

DialsWell(c, k) ==
  Pending(c, k)' =>
    /\ Id(c, k)' \in DOMAIN conn' /\ conn'[Id(c, k)'].how = "dial" /\ push'[Id(c, k)'] = "none"
    /\ \A d \in Client : \A j \in Cmd(d) : Pending(d, j)' /\ Id(d, j)' = Id(c, k)' => d = c /\ j = k

LEMMA DialsNext ==
  ASSUME sc' = sc, \A c \in Client : \A k \in Cmd(c) : DialsWell(c, k) PROVE Dials'
<1>1. \A c : Cmd(c)' = Cmd(c)
  BY ScriptStays
<1> QED BY <1>1 DEF Dials, DialsWell

(* The dial succeeds: the request answers for the connection it has made.  *)
LEMMA DialMakes ==
  ASSUME IInv, \A s \in Scenarios : s.data \in Nat, NEW c \in Client, NEW k \in Cmd(c), Op(c, k) = "dial",
         At(c, k) = "dialing", conn' = Append(conn, NewConn(c, "dial")), push' = Append(push, "none"),
         Becomes(c, k, [task[c][k] EXCEPT !.pc = "made", !.id = Len(conn) + 1]), UNCHANGED <<sc, cl, lst>>
  PROVE  IInv'
<1>n. PICK n : n = Len(conn) + 1
  OBVIOUS
<1> DEFINE a == NewConn(c, "dial")
           t == [task[c][k] EXCEPT !.pc = "made", !.id = n]
<1>0. \A d : Cmd(d)' = Cmd(d) /\ \A j : Op(d, j)' = Op(d, j)
  BY ScriptStays
<1>1. conn \in Seq(ConnType) /\ push \in Seq(PushType) /\ Len(push) = Len(conn) /\ sc.data \in Nat
      /\ lst' \in Seq(ListenerType)
  BY DEF IInv, Types
<1>2. a \in ConnType /\ a.how = "dial" /\ a.for = c
  <2>1. <<>> \in Numbers /\ 0 \in Nat
    BY SMTT(30) DEF Numbers
  <2> QED BY <1>1, <2>1, SMTT(30) DEF NewConn, ConnType, By
<1> HIDE DEF a
<1>3. /\ conn' \in Seq(ConnType) /\ push' \in Seq(PushType) /\ Len(push') = Len(conn')
      /\ DOMAIN conn' = DOMAIN conn \cup {n} /\ n \notin DOMAIN conn /\ n \in Nat
      /\ conn'[n] = a /\ push'[n] = "none"
      /\ \A i \in DOMAIN conn : conn'[i] = conn[i] /\ push'[i] = push[i]
  <2>1. conn' = Append(conn, a)
    BY DEF a
  <2> QED BY <1>n, <1>1, <1>2, <2>1, MakeConn
<1>4. /\ At(c, k) # "none" /\ At(c, k) # "made" /\ At(c, k) \notin {"track", "unbind"} /\ ~Pending(c, k)
      /\ Op(c, k) # "close"
  BY DEF Pending
<1>5. task[c][k] \in TaskType /\ Live(c)
  BY <1>4, TaskFacts
<1>6. Names(t, "made", n)
  <2>1. "made" \in TaskPc
    BY DEF TaskPc
  <2> QED BY <1>3, <1>5, <2>1, TaskNamed
<1> HIDE DEF t
<1>7. TasksTyped' /\ Apart(c, k) /\ At(c, k)' = "made" /\ Id(c, k)' = n
  <2>1. Becomes(c, k, t)
    BY <1>n DEF t
  <2>2. t \in TaskType /\ t.pc = "made" /\ t.id = n
    BY <1>6 DEF Names
  <2> QED BY <2>1, <2>2, TaskPut
<1>8. Grows
  BY <1>3, SMTT(30) DEF Grows
<1>9. ConnsGrow
  <2>1. \A i \in DOMAIN conn : conn[i] \in ConnType
    BY <1>1, SMTT(30)
  <2>2. \A i \in DOMAIN conn : Follows(conn[i], conn[i])
    BY <2>1, ConnUpdates
  <2> QED BY <1>3, <1>8, <2>2 DEF ConnsGrow
<1>10. Relists(c, cl[c].conns)
  BY <1>8, SameConns
<1>11. /\ ClientsTyped' /\ Told' /\ Deals(c) /\ cl'[c].conns = cl[c].conns /\ cl'[c].ports = cl[c].ports
       /\ cl'[c].pc = cl[c].pc /\ cl'[c].todoConns = cl[c].todoConns /\ cl'[c].todoPorts = cl[c].todoPorts
  BY <1>10 DEF Relists
<1>12. ASSUME NEW d \in Client, NEW j \in Cmd(d), Pending(d, j)', d # c \/ j # k
       PROVE  /\ Pending(d, j) /\ Id(d, j)' = Id(d, j) /\ Id(d, j) \in DOMAIN conn
              /\ conn'[Id(d, j)].how = "dial" /\ push'[Id(d, j)] = "none"
  <2>1. Pending(d, j) /\ Id(d, j)' = Id(d, j)
    BY <1>0, <1>7, <1>12 DEF Pending, Apart
  <2>2. Id(d, j) \in DOMAIN conn /\ conn[Id(d, j)].how = "dial" /\ push[Id(d, j)] = "none"
    <3>1. Pending(d, j)
      BY <2>1
    <3> QED BY <3>1 DEF IInv, Dials
  <2> QED BY <1>3, <2>1, <2>2
<1>13. Dials'
  <2>1. ASSUME NEW d \in Client, NEW j \in Cmd(d), Pending(d, j)'
        PROVE  /\ Id(d, j)' \in DOMAIN conn' /\ conn'[Id(d, j)'].how = "dial" /\ push'[Id(d, j)'] = "none"
               /\ \A e \in Client : \A m \in Cmd(e) : Pending(e, m)' /\ Id(e, m)' = Id(d, j)' => e = d /\ m = j
    <3>1. CASE d = c /\ j = k
      <4>1. Id(d, j)' = n
        BY <1>7, <3>1
      <4>2. \A e \in Client : \A m \in Cmd(e) : Pending(e, m)' /\ Id(e, m)' = n => e = d /\ m = j
        <5>1. ASSUME NEW e \in Client, NEW m \in Cmd(e), Pending(e, m)', Id(e, m)' = n, e # c \/ m # k PROVE FALSE
          <6>1. Id(e, m)' = Id(e, m) /\ Id(e, m) \in DOMAIN conn
            BY <1>12, <5>1
          <6> QED BY <1>3, <5>1, <6>1
        <5> QED BY <3>1, <5>1
      <4>3. n \in DOMAIN conn'
        BY <1>3, SMTT(30)
      <4> QED BY <1>2, <1>3, <4>1, <4>2, <4>3
    <3>2. CASE d # c \/ j # k
      <4>1. /\ Pending(d, j) /\ Id(d, j)' = Id(d, j) /\ Id(d, j) \in DOMAIN conn
            /\ conn'[Id(d, j)].how = "dial" /\ push'[Id(d, j)] = "none"
        BY <1>12, <2>1, <3>2
      <4>2. Id(d, j) # n /\ Id(d, j) \in DOMAIN conn'
        BY <1>3, <4>1, SMTT(30)
      <4>3. ASSUME NEW e \in Client, NEW m \in Cmd(e), Pending(e, m)', Id(e, m)' = Id(d, j)' PROVE e = d /\ m = j
        <5>1. e # c \/ m # k
          BY <1>7, <4>1, <4>2, <4>3
        <5>2. Pending(e, m) /\ Id(e, m) = Id(d, j)
          BY <1>12, <4>1, <4>3, <5>1
        <5> QED BY <4>1, <5>2 DEF IInv, Dials
      <4> QED BY <4>1, <4>2, <4>3
    <3> QED BY <3>1, <3>2
  <2>2. \A d \in Client : \A j \in Cmd(d) : DialsWell(d, j)
    BY <2>1 DEF DialsWell
  <2> QED BY <2>2, DialsNext
<1>14. Accepts'
  BY <1>3, <1>8, AcceptsKept DEF IInv
<1>15. Held(c) => Held(c)'
  BY <1>4, <1>7, <1>11, HeldStays
<1>16. \A i \in DOMAIN conn' : Leaky(i)' =>
           \/ i \in DOMAIN conn /\ Leaky(i) /\ (Owned(c, i) => Owned(c, i)')
           \/ conn'[i].for = c /\ Owned(c, i)'
  <2>1. ASSUME NEW i PROVE Owned(c, i) => Owned(c, i)'
    <3>1. i \in cl[c].conns => i \in cl'[c].conns
      BY <1>11
    <3> QED BY <1>4, <1>7, <1>11, <3>1, OwnedStays
  <2>2. Owned(c, n)' /\ conn'[n].for = c
    <3>1. Live(c)'
      BY <1>5, <1>11 DEF Live
    <3> QED BY <1>0, <1>2, <1>3, <1>7, <3>1 DEF Owned
  <2>3. \A i \in DOMAIN conn : Leaky(i)' => Leaky(i)
    BY <1>3 DEF Leaky
  <2>4. \A i \in DOMAIN conn' : i \in DOMAIN conn \/ i = n
    BY <1>3, SMTT(30)
  <2> QED BY <2>1, <2>2, <2>3, <2>4
<1> QED BY <1>1, <1>4, <1>7, <1>9, <1>11, <1>13, <1>14, <1>15, <1>16, TaskMoves

LEMMA HandleDialStep ==
  ASSUME IInv, \A s \in Scenarios : s.data \in Nat, NEW c \in Client, NEW k \in Cmd(c), handleDial(c, k), sc' = sc
  PROVE  IInv'
<1>1. Op(c, k) = "dial"
  BY DEF handleDial
<1>2. CASE DialStarts(c, k)
  <2>1. At(c, k) = "start" /\ UNCHANGED <<cl, lst, conn, push>> /\ (Goto(c, k, "error") \/ Goto(c, k, "dialing"))
    BY <1>2 DEF DialStarts, At, overlay
  <2> QED BY <2>1, TaskTurns
<1>3. CASE DialConnectionContext(c, k)
  <2>1. At(c, k) = "dialing" /\ UNCHANGED <<cl, lst>>
    BY <1>3 DEF DialConnectionContext, At
  <2>2. CASE Goto(c, k, "error") /\ UNCHANGED <<conn, push>>
    BY <2>1, <2>2, TaskTurns
  <2>3. CASE /\ conn' = Append(conn, NewConn(c, "dial")) /\ push' = Append(push, "none")
             /\ task' = [task EXCEPT ![c][k] = [@ EXCEPT !.pc = "made", !.id = Len(conn) + 1]]
    <3>1. Becomes(c, k, [task[c][k] EXCEPT !.pc = "made", !.id = Len(conn) + 1])
      BY <2>3 DEF Becomes
    <3> QED BY <1>1, <2>1, <2>3, <3>1, DialMakes
  <2> QED BY <1>3, <2>2, <2>3 DEF DialConnectionContext
<1> QED BY <1>1, <1>2, <1>3, DialMadeStep, DialRepliesStep, DialRechecksStep DEF handleDial

LEMMA TaskStepStep ==
  ASSUME IInv, \A s \in Scenarios : s.data \in Nat, NEW c \in Client, NEW k \in Cmd(c), TaskStep(c, k)
  PROVE  IInv'
<1>1. sc' = sc
  BY DEF TaskStep, server
<1>2. CASE dispatch(c, k)
  <2>1. At(c, k) \in {"start", "error"} /\ sendError(c, k)
    BY <1>2 DEF dispatch, At
  <2> QED BY <1>1, <2>1, SendErrorStep
<1>3. CASE Errors(c, k)
  <2>1. At(c, k) \in {"start", "error"} /\ sendError(c, k)
    BY <1>3 DEF Errors, At
  <2> QED BY <1>1, <2>1, SendErrorStep
<1> QED BY <1>1, <1>2, <1>3, HandleBindStep, HandleUnbindStep, HandleCloseStep, HandleDialStep
        DEF TaskStep

-----------------------------------------------------------------------------
(* The invariant holds throughout.                                         *)

LEMMA InitInv == Init => IInv
<1> SUFFICES ASSUME Init PROVE IInv
  OBVIOUS
<1> DEFINE r == [newIPCConn EXCEPT !.pc = "none"]
<1>1. /\ sc \in Scenarios /\ cl = [c \in Client |-> r] /\ lst = <<>> /\ conn = <<>> /\ push = <<>>
      /\ task = [c \in Client |-> [k \in Cmd(c) |-> NoTask]]
  BY DEF Init
<1>2. r \in ClientType /\ r.pc = "none" /\ r.inbox = <<>> /\ r.known = {} /\ r.q = <<>>
  <2>1. "none" \in ClientPc
    BY DEF ClientPc
  <2>2. r \in ClientType /\ SameMail(r, newIPCConn) /\ r.pc = "none"
    BY <2>1, NewClient, LifeUpdates DEF Lives
  <2> HIDE DEF r
  <2> QED BY <2>2, NewClient DEF SameMail
<1> HIDE DEF r
<1>3. ClientsTyped /\ \A c \in Client : cl[c] = r
  BY <1>1, <1>2, SMTT(30) DEF ClientsTyped
<1>4. NoTask \in TaskType /\ NoTask.pc = "none"
  BY NoTaskTyped
<1>5. TasksTyped /\ \A c \in Client : \A k \in Cmd(c) : At(c, k) = "none"
  <2>1. DOMAIN task = Client /\ \A c \in Client : task[c] = [k \in Cmd(c) |-> NoTask]
    BY <1>1
  <2>2. \A c \in Client : task[c] \in [Cmd(c) -> TaskType] /\ \A k \in Cmd(c) : task[c][k] = NoTask
    BY <1>4, <2>1, SMTT(30)
  <2> QED BY <1>4, <2>1, <2>2 DEF TasksTyped, At
<1>6. /\ lst \in Seq(ListenerType) /\ conn \in Seq(ConnType) /\ push \in Seq(PushType)
      /\ Len(push) = Len(conn) /\ DOMAIN lst = {} /\ DOMAIN conn = {}
  BY <1>1, SMTT(30)
<1>7. Types
  BY <1>1, <1>3, <1>5, <1>6 DEF Types
<1>8. DOMAIN r.inbox = {} /\ DOMAIN r.q = {}
  BY <1>2, SMTT(30)
<1>9. Tasks /\ Closes /\ Dials
  BY <1>5 DEF Tasks, Closes, Dials, Pending
<1>10. Inbox /\ Told
  BY <1>2, <1>3, <1>8 DEF Inbox, Told
<1>11. Accepts /\ Listening /\ Dialled
  BY <1>6 DEF Accepts, Listening, Dialled
<1> QED BY <1>7, <1>9, <1>10, <1>11 DEF IInv

LEMMA InvNext ==
  ASSUME \A s \in Scenarios : s.data \in Nat, IInv, [Next]_vars PROVE IInv'
<1>1. CASE UNCHANGED vars
  BY <1>1, IdleStep DEF vars
<1>2. ASSUME NEW c \in Client,
             \/ acceptLoop(c) \/ Issue(c) \/ Leave(c) \/ ClientStep(c) \/ writeLoop(c)
             \/ PushDatagram(c) \/ \E k \in Cmd(c) : TaskStep(c, k)
      PROVE  IInv'
  <2>1. CASE ClientStep(c)
    BY <2>1, ReadLoopStep, ReadFailsStep, CleanupCopiesStep, CleanupReleasesStep, CleanupEndsStep
       DEF ClientStep
  <2> QED BY <1>2, <2>1, AcceptLoopStep, IssueStep, LeaveStep, WriteLoopStep, PushDatagramStep,
             TaskStepStep
<1>3. CASE CloseBegins \/ DeliverDatagram
  BY <1>3, IdleStep DEF CloseBegins, DeliverDatagram, overlay
<1>4. ASSUME NEW i \in DOMAIN conn, startRecvPusher(i) \/ PeerSends(i) \/ PeerCloses(i) PROVE IInv'
  BY <1>4, PusherStep, PeerSendsStep, PeerClosesStep
<1> QED BY <1>1, <1>2, <1>3, <1>4, CloseClientsStep, ArriveStep, AcceptorStep DEF Next

(* When the cleanup of a client has ended, no port is bound for it, and    *)
(* every connection it dialled is closed, but for those whose pusher had   *)
(* failed: whatever the clients ask, however their requests, the dials'    *)
(* cancellation, the pushers, the network and the server's Close mix.      *)
THEOREM GoneOwnsNothingAlways ==
  ASSUME \A s \in Scenarios : s.data \in Nat
  PROVE  Spec => []GoneOwnsNothing
<1>1. Init => IInv
  BY InitInv
<1>2. IInv /\ [Next]_vars => IInv'
  BY InvNext
<1>3. IInv => GoneOwnsNothing
  <2> SUFFICES ASSUME IInv, NEW c \in Client, cl[c].pc = "gone"
               PROVE  /\ \A l \in DOMAIN lst : lst[l].for = c => ~lst[l].open
                      /\ \A i \in DOMAIN conn :
                           conn[i].for = c /\ conn[i].how = "dial" /\ conn[i].open => push[i] = "lost"
    BY DEF GoneOwnsNothing
  <2>1. ~Held(c) /\ \A i : ~Owned(c, i)
    BY DEF Held, Owned, Live
  <2> QED BY <2>1, ClientFacts DEF Leaky
<1> QED BY <1>1, <1>2, <1>3, PTL DEF Spec
=============================================================================
