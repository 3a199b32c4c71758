------------------------------- MODULE Ports -------------------------------
(***************************************************************************)
(* The port manager of one daemon: the connection table, the bitmap of     *)
(* ephemeral ports, the listeners and their accept queues, and everything  *)
(* that works on them at the same time: dials, datagrams in flight, the    *)
(* packet loop that accepts connections, the idle sweep and the            *)
(* applications.  Each critical section of PortManager.mu is one action.   *)
(*                                                                         *)
(* A Connection outlives its entry in the table: a dial, the sweep and an  *)
(* application hold pointers to it.  conn keeps every Connection ever      *)
(* made, table the ones the port manager still lists.                      *)
(***************************************************************************)
EXTENDS Integers, Sequences, FiniteSets

CONSTANTS
  EphMin, EphMax,  \* the ephemeral range, inclusive
  ListenPort,      \* ports an application may bind
  Remote,          \* remote address and port pairs
  Dialer,          \* goroutines in DialConnection
  Datagram,        \* goroutines in SendDatagram
  MaxPerPort,      \* Config.MaxConnectionsPerPort
  MaxTotal,        \* Config.MaxTotalConnections
  AcceptQueueLen,
  AckIn,           \* the states in which a peer may still send us ACKs
  MaxId,           \* bound: connections ever made
  MaxBind          \* bound: binds of one port

ASSUME RangeAssumption == EphMin \in Nat /\ EphMax \in Nat /\ EphMin <= EphMax
ASSUME ListenAssumption == ListenPort \subseteq Nat
ASSUME RemoteAssumption == Remote # {}
ASSUME CountAssumption == MaxId \in Nat /\ MaxBind \in Nat /\ AcceptQueueLen \in Nat

VARIABLES
  bitmap,  \* ephBitmap: ephemeral ports marked used
  cursor,  \* nextEphPort
  conn,    \* every Connection made, in order: its index is its ID
  table,   \* connections: the IDs still listed
  old,     \* IDs whose LastActivity is past the sweep's threshold
  owned,   \* IDs an application holds and has not closed
  lis,     \* listeners
  left,    \* IDs queued on a listener when it was unbound
  dial,    \* the dials
  dg,      \* the port each datagram holds, -1 for none
  rl,      \* the packet loop inside handleStreamPacket's SYN branch
  sw       \* the idle sweep: what it has yet to act on

vars == <<bitmap, cursor, conn, table, old, owned, lis, left, dial, dg, rl, sw>>

Eph   == EphMin .. EphMax
Id    == 1 .. MaxId
State == {"closed", "synSent", "established", "finWait", "timeWait"}
Conn  == [lport : Nat, rem : Remote, st : State, in : BOOLEAN, held : BOOLEAN]
NoRl  == [pc |-> "idle", port |-> 0, rem |-> CHOOSE r \in Remote : TRUE, gen |-> 0, id |-> 0]
NoDial == [pc |-> "idle", port |-> 0, rem |-> CHOOSE r \in Remote : TRUE, id |-> 0]

Init ==
  /\ bitmap = {}
  /\ cursor = EphMin
  /\ conn = <<>>
  /\ table = {}
  /\ old = {}
  /\ owned = {}
  /\ lis = [p \in ListenPort |-> [bound |-> FALSE, gen |-> 0, q |-> <<>>]]
  /\ left = {}
  /\ dial = [d \in Dialer |-> NoDial]
  /\ dg = [g \in Datagram |-> -1]
  /\ rl = NoRl
  /\ sw = [pc |-> "idle", todo |-> {}]

(***************************************************************************)
(* What the port manager computes under its lock.                          *)
(***************************************************************************)
Live(st) == st \notin {"closed", "timeWait"}

(* ConnectionCountForPort and TotalActiveConnections.                      *)
LiveIds == {c \in table : Live(conn[c].st)}
LiveOn(p) == {c \in LiveIds : conn[c].lport = p}

(* FindConnection: some live connection of the 4-tuple, else some stale    *)
(* one.  A Go map is walked in no fixed order, so any of them.             *)
Matching(p, r) == {c \in table : conn[c].lport = p /\ conn[c].rem = r}
FindConnection(p, r) ==
  IF Matching(p, r) \cap LiveIds # {} THEN Matching(p, r) \cap LiveIds
                                      ELSE Matching(p, r)

(* AllocEphemeralPort: the first clear bit at or after the cursor, cyclic. *)
Distance(p) == (p - cursor) % (EphMax - EphMin + 1)
NextFree == {p \in Eph \ bitmap : \A q \in Eph \ bitmap : Distance(p) <= Distance(q)}

AllocEphemeralPort(p) ==
  /\ p \in NextFree
  /\ bitmap' = bitmap \cup {p}
  /\ cursor' = IF p >= EphMax THEN EphMin ELSE p + 1

(* clearEphPortLocked, with the table already without the leaving          *)
(* connections.                                                            *)
Cleared(ports, tab) ==
  bitmap \ {p \in ports : \A c \in tab : conn[c].lport = p => ~Live(conn[c].st)}

(* Mutant: the port is freed whoever holds it now.                         *)
RemoveConnection_Frees(c) ==
  /\ table' = table \ {c}
  /\ bitmap' = bitmap \ {conn[c].lport}

RemoveConnection(c) ==
  /\ table' = table \ {c}
  /\ bitmap' = IF c \in table THEN Cleared({conn[c].lport}, table \ {c}) ELSE bitmap

(* NewConnection: in the table at once, in state CLOSED.                   *)
NewConnection(p, r, inbound) ==
  /\ Len(conn) < MaxId
  /\ conn' = Append(conn, [lport |-> p, rem |-> r, st |-> "closed", in |-> inbound, held |-> FALSE])
  /\ table' = table \cup {Len(conn) + 1}
  /\ bitmap' = IF p \in Eph THEN bitmap \cup {p} ELSE bitmap

SetState(c, st) == conn' = [conn EXCEPT ![c].st = st]

(***************************************************************************)
(* dialConnectionLocked: allocate, create, send the SYN, wait.             *)
(***************************************************************************)
DialAlloc(d) ==
  /\ dial[d].pc = "idle"
  /\ Len(conn) < MaxId
  /\ \E r \in Remote, p \in NextFree :
       /\ AllocEphemeralPort(p)
       /\ dial' = [dial EXCEPT ![d] = [pc |-> "create", port |-> p, rem |-> r, id |-> 0]]
  /\ UNCHANGED <<conn, table, old, owned, lis, left, dg, rl, sw>>

DialCreate(d) ==
  /\ dial[d].pc = "create"
  /\ NewConnection(dial[d].port, dial[d].rem, FALSE)
  /\ dial' = [dial EXCEPT ![d].pc = "syn", ![d].id = Len(conn) + 1]
  /\ UNCHANGED <<cursor, old, owned, lis, left, dg, rl, sw>>

DialSyn(d) ==
  /\ dial[d].pc = "syn"
  /\ SetState(dial[d].id, "synSent")
  /\ dial' = [dial EXCEPT ![d].pc = "wait"]
  /\ UNCHANGED <<bitmap, cursor, table, old, owned, lis, left, dg, rl, sw>>

(* dialOutcome: the handshake completed; the caller gets the connection.   *)
DialSucceeds(d) ==
  /\ dial[d].pc = "wait"
  /\ conn[dial[d].id].st \in {"established", "finWait", "timeWait"}
  /\ owned' = owned \cup {dial[d].id}
  /\ dial' = [dial EXCEPT ![d] = NoDial]
  /\ UNCHANGED <<bitmap, cursor, conn, table, old, lis, left, dg, rl, sw>>

(* The SYN cannot be sent, the peer refuses (CLOSED), the caller cancels   *)
(* or the retries run out: whichever it is, the connection is removed.     *)
DialFails(d) ==
  /\ dial[d].pc = "wait"
  /\ RemoveConnection(dial[d].id)
  /\ dial' = [dial EXCEPT ![d] = NoDial]
  /\ UNCHANGED <<cursor, conn, old, owned, lis, left, dg, rl, sw>>

(***************************************************************************)
(* SendDatagram and BroadcastDatagram: a source port for as long as the    *)
(* send takes.                                                             *)
(***************************************************************************)
DatagramAlloc(g) ==
  /\ dg[g] = -1
  /\ \E p \in NextFree : AllocEphemeralPort(p) /\ dg' = [dg EXCEPT ![g] = p]
  /\ UNCHANGED <<conn, table, old, owned, lis, left, dial, rl, sw>>

(* ReleaseEphemeralPort.                                                   *)
DatagramRelease(g) ==
  /\ dg[g] # -1
  /\ bitmap' = Cleared({dg[g]}, table)
  /\ dg' = [dg EXCEPT ![g] = -1]
  /\ UNCHANGED <<cursor, conn, table, old, owned, lis, left, dial, rl, sw>>

(***************************************************************************)
(* Listeners.  gen tells a listener from one bound later on its port.      *)
(***************************************************************************)
Bind(p) ==
  /\ ~lis[p].bound
  /\ lis[p].gen < MaxBind
  /\ lis' = [lis EXCEPT ![p] = [bound |-> TRUE, gen |-> lis[p].gen + 1, q |-> <<>>]]
  /\ UNCHANGED <<bitmap, cursor, conn, table, old, owned, left, dial, dg, rl, sw>>

(* A closed AcceptCh still yields what was queued on it.                   *)
Unbind(p) ==
  /\ lis[p].bound
  /\ left' = left \cup {lis[p].q[i] : i \in DOMAIN lis[p].q}
  /\ lis' = [lis EXCEPT ![p].bound = FALSE, ![p].q = <<>>]
  /\ UNCHANGED <<bitmap, cursor, conn, table, old, owned, dial, dg, rl, sw>>

Accept(p) ==
  /\ lis[p].q # <<>>
  /\ owned' = owned \cup {Head(lis[p].q)}
  /\ lis' = [lis EXCEPT ![p].q = Tail(@)]
  /\ UNCHANGED <<bitmap, cursor, conn, table, old, left, dial, dg, rl, sw>>

AcceptLeft(c) ==
  /\ c \in left
  /\ left' = left \ {c}
  /\ owned' = owned \cup {c}
  /\ UNCHANGED <<bitmap, cursor, conn, table, old, lis, dial, dg, rl, sw>>

(***************************************************************************)
(* handleStreamPacket, the SYN branch: one goroutine, but the table and    *)
(* the listener change under it between its steps.                         *)
(***************************************************************************)

(* Listener there, no live connection to answer for, admitted by the trust *)
(* gate, the policy and the rate limits, and both limits kept.  A peer     *)
(* whose FIN is held has restarted: its old connection ends here.          *)
SynArrives(p, r) ==
  /\ rl.pc = "idle"
  /\ lis[p].bound
  /\ Len(conn) < MaxId
  /\ \/ /\ Matching(p, r) = {}
        /\ UNCHANGED <<bitmap, conn, table>>
     \/ \E c \in FindConnection(p, r) :
          IF conn[c].held
          THEN SetState(c, "closed") /\ RemoveConnection(c)
          ELSE /\ conn[c].st # "established"
               /\ UNCHANGED <<bitmap, conn, table>>
  /\ Cardinality({c \in table' : conn'[c].lport = p /\ Live(conn'[c].st)}) < MaxPerPort
  /\ Cardinality({c \in table' : Live(conn'[c].st)}) < MaxTotal
  /\ rl' = [pc |-> "create", port |-> p, rem |-> r, gen |-> lis[p].gen, id |-> 0]
  /\ UNCHANGED <<cursor, old, owned, lis, left, dial, dg, sw>>

SynCreate ==
  /\ rl.pc = "create"
  /\ NewConnection(rl.port, rl.rem, TRUE)
  /\ rl' = [rl EXCEPT !.pc = "answer", !.id = Len(conn) + 1]
  /\ UNCHANGED <<cursor, old, owned, lis, left, dial, dg, sw>>

(* SYN_RECEIVED, the SYN-ACK, ESTABLISHED.                                 *)
SynAnswer ==
  /\ rl.pc = "answer"
  /\ SetState(rl.id, "established")
  /\ rl' = [rl EXCEPT !.pc = "queue"]
  /\ UNCHANGED <<bitmap, cursor, table, old, owned, lis, left, dial, dg, sw>>

(* Mutant: a listener closed meanwhile is not noticed.                     *)
CanQueue_Closed == Len(lis[rl.port].q) < AcceptQueueLen

(* Listener.TrySend; a full queue or a closed listener closes the          *)
(* connection again.                                                       *)
CanQueue == /\ lis[rl.port].bound
            /\ lis[rl.port].gen = rl.gen
            /\ Len(lis[rl.port].q) < AcceptQueueLen
SynQueue ==
  /\ rl.pc = "queue"
  /\ IF CanQueue
     THEN /\ lis' = [lis EXCEPT ![rl.port].q = Append(@, rl.id)]
          /\ UNCHANGED <<bitmap, conn, table>>
     ELSE /\ SetState(rl.id, "closed")
          /\ RemoveConnection(rl.id)
          /\ UNCHANGED lis
  /\ rl' = NoRl
  /\ UNCHANGED <<cursor, old, owned, left, dial, dg, sw>>

(* The other packets, for a 4-tuple of the table.                          *)
RecvSynAck(c) ==
  /\ rl.pc = "idle"
  /\ c \in FindConnection(conn[c].lport, conn[c].rem)
  /\ conn[c].st = "synSent"
  /\ SetState(c, "established")
  /\ UNCHANGED <<bitmap, cursor, table, old, owned, lis, left, dial, dg, rl, sw>>

(* A FIN ahead of missing data is held.                                    *)
RecvEarlyFin(c) ==
  /\ rl.pc = "idle"
  /\ c \in FindConnection(conn[c].lport, conn[c].rem)
  /\ conn[c].st = "established"
  /\ ~conn[c].held
  /\ conn' = [conn EXCEPT ![c].held = TRUE]
  /\ UNCHANGED <<bitmap, cursor, table, old, owned, lis, left, dial, dg, rl, sw>>

(* Mutant: every FIN counts as activity.                                   *)
AcceptFIN_Refreshes(c) ==
  /\ conn' = [conn EXCEPT ![c].st = "timeWait", ![c].held = FALSE]
  /\ old' = old \ {c}

(* acceptFIN: only the first FIN counts as activity.                       *)
AcceptFIN(c) ==
  /\ conn' = [conn EXCEPT ![c].st = "timeWait", ![c].held = FALSE]
  /\ old' = IF conn[c].st = "timeWait" THEN old ELSE old \ {c}
RecvFin(c) ==
  /\ rl.pc = "idle"
  /\ c \in FindConnection(conn[c].lport, conn[c].rem)
  /\ AcceptFIN(c)
  /\ UNCHANGED <<bitmap, cursor, table, owned, lis, left, dial, dg, rl, sw>>

(* expireHeldFIN, on the hold timer.                                       *)
HeldFinExpires(c) ==
  /\ conn[c].held
  /\ conn[c].st = "established"
  /\ AcceptFIN(c)
  /\ UNCHANGED <<bitmap, cursor, table, owned, lis, left, dial, dg, rl, sw>>

(* Any packet with the ACK flag is activity, whatever the state.           *)
RecvAck(c) ==
  /\ rl.pc = "idle"
  /\ conn[c].st \in AckIn
  /\ c \in FindConnection(conn[c].lport, conn[c].rem) \cap old
  /\ old' = old \ {c}
  /\ UNCHANGED <<bitmap, cursor, conn, table, owned, lis, left, dial, dg, rl, sw>>

RecvRst(c) ==
  /\ rl.pc = "idle"
  /\ c \in FindConnection(conn[c].lport, conn[c].rem)
  /\ conn' = [conn EXCEPT ![c].st = "closed", ![c].held = FALSE]
  /\ RemoveConnection(c)
  /\ UNCHANGED <<cursor, old, owned, lis, left, dial, dg, rl, sw>>

(***************************************************************************)
(* The life of an established connection, as far as the table sees it.     *)
(***************************************************************************)

(* CloseConnection ends in FIN_WAIT whatever the state was.                *)
CloseConnection(c) ==
  /\ conn' = [conn EXCEPT ![c].st = "finWait", ![c].held = FALSE]
  /\ old' = old \ {c}
AppCloses(c) ==
  /\ c \in owned
  /\ CloseConnection(c)
  /\ owned' = owned \ {c}
  /\ UNCHANGED <<bitmap, cursor, table, lis, left, dial, dg, rl, sw>>

(* The retransmission loop gives a connection up and removes it.           *)
RetxGivesUp(c) ==
  /\ c \in table
  /\ conn[c].st \in {"established", "finWait"}
  /\ SetState(c, "closed")
  /\ RemoveConnection(c)
  /\ UNCHANGED <<cursor, old, owned, lis, left, dial, dg, rl, sw>>

(* Time passes for a connection without activity.                          *)
Age(c) ==
  /\ c \in table \ old
  /\ conn[c].st # "closed"
  /\ old' = old \cup {c}
  /\ UNCHANGED <<bitmap, cursor, conn, table, owned, lis, left, dial, dg, rl, sw>>

(***************************************************************************)
(* idleSweepLoop: a list taken under the lock, acted on after it.          *)
(***************************************************************************)
Stale(c) == \/ conn[c].st = "closed"
            \/ conn[c].st \in {"finWait", "timeWait", "synSent"} /\ c \in old
Idle(c)  == conn[c].st = "established" /\ c \in old

SweepStale ==
  /\ sw.pc = "idle"
  /\ sw' = [pc |-> "stale", todo |-> {c \in table : Stale(c)}]
  /\ UNCHANGED <<bitmap, cursor, conn, table, old, owned, lis, left, dial, dg, rl>>

SweepReaps(c) ==
  /\ sw.pc = "stale"
  /\ c \in sw.todo
  /\ sw' = [sw EXCEPT !.todo = @ \ {c}]
  /\ RemoveConnection(c)
  /\ UNCHANGED <<cursor, conn, old, owned, lis, left, dial, dg, rl>>

SweepIdle ==
  /\ sw.pc = "stale"
  /\ sw.todo = {}
  /\ sw' = [pc |-> "idleConns", todo |-> {c \in table : Idle(c)}]
  /\ UNCHANGED <<bitmap, cursor, conn, table, old, owned, lis, left, dial, dg, rl>>

SweepCloses(c) ==
  /\ sw.pc = "idleConns"
  /\ c \in sw.todo
  /\ sw' = [sw EXCEPT !.todo = @ \ {c}]
  /\ CloseConnection(c)
  /\ UNCHANGED <<bitmap, cursor, table, owned, lis, left, dial, dg, rl>>

SweepEnds ==
  /\ sw.pc = "idleConns"
  /\ sw.todo = {}
  /\ sw' = [pc |-> "idle", todo |-> {}]
  /\ UNCHANGED <<bitmap, cursor, conn, table, old, owned, lis, left, dial, dg, rl>>

(***************************************************************************)
(* The specification.                                                      *)
(***************************************************************************)
DialStep(d) == DialCreate(d) \/ DialSyn(d) \/ DialSucceeds(d) \/ DialFails(d)
SynStep     == SynCreate \/ SynAnswer \/ SynQueue
SweepStep   == \/ SweepStale \/ SweepIdle \/ SweepEnds
               \/ \E c \in sw.todo : SweepReaps(c) \/ SweepCloses(c)
PacketStep(c) == RecvSynAck(c) \/ RecvEarlyFin(c) \/ RecvFin(c) \/ RecvAck(c) \/ RecvRst(c)
ConnStep(c) == PacketStep(c) \/ HeldFinExpires(c) \/ AppCloses(c) \/ RetxGivesUp(c) \/ Age(c)

Next ==
  \/ \E d \in Dialer : DialAlloc(d) \/ DialStep(d)
  \/ \E g \in Datagram : DatagramAlloc(g) \/ DatagramRelease(g)
  \/ \E p \in ListenPort : Bind(p) \/ Unbind(p) \/ Accept(p)
  \/ \E c \in left : AcceptLeft(c)
  \/ \E p \in ListenPort, r \in Remote : SynArrives(p, r)
  \/ SynStep
  \/ \E c \in DOMAIN conn : ConnStep(c)
  \/ SweepStep

Spec == Init /\ [][Next]_vars

(* A dial gives up by itself, the sweep runs on a ticker and time passes.  *)
FairSpec ==
  /\ Spec
  /\ \A d \in Dialer : WF_vars(DialStep(d))
  /\ WF_vars(SynStep)
  /\ WF_vars(SweepStep)
  /\ \A c \in Id : WF_vars(c \in DOMAIN conn /\ Age(c))

(***************************************************************************)
(* Properties.                                                             *)
(***************************************************************************)
TypeOK ==
  /\ bitmap \subseteq Eph
  /\ cursor \in Eph
  /\ conn \in Seq(Conn) /\ Len(conn) <= MaxId
  /\ table \subseteq DOMAIN conn
  /\ old \subseteq DOMAIN conn
  /\ owned \subseteq DOMAIN conn
  /\ left \subseteq DOMAIN conn
  /\ lis \in [ListenPort -> [bound : BOOLEAN, gen : Nat, q : Seq(DOMAIN conn)]]
  /\ dial \in [Dialer -> [pc : {"idle", "create", "syn", "wait"}, port : Nat,
                          rem : Remote, id : {0} \cup DOMAIN conn]]
  /\ dg \in [Datagram -> Eph \cup {-1}]
  /\ rl \in [pc : {"idle", "create", "answer", "queue"}, port : Nat, rem : Remote,
             gen : Nat, id : {0} \cup DOMAIN conn]
  /\ sw \in [pc : {"idle", "stale", "idleConns"}, todo : SUBSET DOMAIN conn]

(* The ephemeral ports no application has bound.  Bind refuses none of     *)
(* them and marks no bit, so of one that was bound the bitmap says nothing.*)
Private == {p \in Eph : p \in ListenPort => lis[p].gen = 0}

(* Those that a dial being set up, a listed connection or a datagram holds.*)
DialPorts == {dial[d].port : d \in {d \in Dialer : dial[d].pc = "create"}} \cap Private
ConnPorts == {conn[c].lport : c \in table} \cap Private
DgPorts   == {dg[g] : g \in Datagram} \cap Private

(* A bit is set for the ports in use and for no other: no port leaks, and  *)
(* none is free while in use.                                              *)
BitmapExact == bitmap \cap Private = DialPorts \cup ConnPorts \cup DgPorts

(* No two holders have the same ephemeral port.                            *)
PortsExclusive ==
  /\ DialPorts \cap ConnPorts = {} /\ DgPorts \cap ConnPorts = {}
  /\ DialPorts \cap DgPorts = {}
  /\ \A d, f \in Dialer :
       d # f /\ dial[d].pc = "create" /\ dial[f].pc = "create" /\ dial[d].port \in Private
         => dial[d].port # dial[f].port
  /\ \A g, h \in Datagram : g # h /\ dg[g] \in Private => dg[g] # dg[h]
  /\ \A b, c \in table : b # c /\ conn[b].lport \in Private => conn[b].lport # conn[c].lport

(* Of the ephemeral ports no application has bound, the bitmap marks       *)
(* exactly those in use and each has one holder, though a dial removes a   *)
(* connection the sweep has removed before it and whose port has a new     *)
(* holder (AllocEphemeralPort, clearEphPortLocked, RemoveConnection), and  *)
(* though an application may bind a port of the range (handleBind, Bind),  *)
(* which a dial or a datagram may hold or be given.                        *)
PortsSound == BitmapExact /\ PortsExclusive

(* A connection the packet loop accepted and the table lists as            *)
(* established is somewhere an application gets it from or already has it, *)
(* though listeners are unbound and bound again meanwhile (TrySend, Unbind *)
(* and the range over AcceptCh).                                           *)
Queued == UNION {{lis[p].q[i] : i \in DOMAIN lis[p].q} : p \in ListenPort}
NoOrphan ==
  \A c \in table : conn[c].in /\ conn[c].st = "established" =>
    c \in Queued \cup left \cup owned \/ (rl.pc = "queue" /\ rl.id = c)
AcceptSound == TypeOK /\ NoOrphan

(* A connection the peer has ended is eventually taken out of the table,   *)
(* and its port with it, though the peer repeats its FIN and applications  *)
(* close what is already closed (acceptFIN's rule on LastActivity,         *)
(* StaleConnections).                                                      *)
Ended(c) == /\ c \in table
            /\ conn[c].st = "timeWait"
            /\ \A d \in Dialer : dial[d].pc = "syn" => dial[d].id # c
Reaped == \A c \in Id : Ended(c) ~> (c \notin table)
=============================================================================
