------------------------------- MODULE Stream -------------------------------
(***************************************************************************)
(* One established reliable stream between two daemons (layer L7):         *)
(* pkg/daemon/ports.go (Connection) and the stream half of                 *)
(* pkg/daemon/daemon.go.  Each endpoint runs the goroutines of the code:   *)
(* the packet loop (handleStreamPacket), a writer (SendData), the          *)
(* retransmission loop (retxLoop), the reaper (idleSweepLoop), the timers  *)
(* of a held FIN and any number of callers of CloseConnection.  Between    *)
(* them is a network that loses, duplicates and reorders packets.          *)
(*                                                                         *)
(* Data is counted in segments.  A segment has length 1 and carries its    *)
(* own index in the writer's output, so the n-th segment written is the    *)
(* value n.  The SYN took sequence number 0.  Sequence numbers do not wrap *)
(* here: the code compares them by signed distance and limits what is in   *)
(* flight to far less than half of their range.                            *)
(***************************************************************************)
EXTENDS Integers, Sequences, FiniteSets

CONSTANTS
  A, B,             \* the two endpoints
  MaxData,          \* MaxData[e]: bound on the segments e writes
  RecvBufSize,      \* capacity of RecvBuf, in segments
  MaxOOOBuf,        \* capacity of the reorder buffer
  MaxSegmentsOutstanding, \* bound on len(Unacked) for a new segment
  Tails,            \* Tails[e]: the segments of e, by index, that are short
                    \* remainders Nagle held: they do not wait for the window
  MaxRetxAttempts,  \* transmissions of one segment before the RST
  MaxSACKBlocks,    \* SACK blocks carried by one ACK
  Closer,           \* goroutines that may call CloseConnection, once each
  Closing,          \* endpoints at which they may
  Stopping,         \* endpoints whose daemon may be stopped
  Probing,          \* TRUE: bare ACKs are sent and a probing writer may give up
  Keep              \* TRUE: a packet on the wire may arrive any number of
                    \* times; FALSE: once, or never if Lose takes it

Endpoint == {A, B}
Peer(e) == IF e = A THEN B ELSE A

ASSUME EndpointAssumption == A # B
ASSUME BoundAssumption ==
  /\ MaxData \in [Endpoint -> Nat]
  /\ RecvBufSize \in Nat \ {0}
  /\ MaxOOOBuf \in Nat
  /\ MaxSegmentsOutstanding \in Nat
  /\ Tails \in [Endpoint -> SUBSET Nat]
  /\ MaxRetxAttempts \in Nat \ {0}
  /\ MaxSACKBlocks \in Nat
  /\ Closing \subseteq Endpoint
  /\ Stopping \subseteq Endpoint
  /\ IsFiniteSet(Closer)
  /\ Probing \in BOOLEAN
  /\ Keep \in BOOLEAN

VARIABLES
  st,         \* Connection.State
  up,         \* the connection is in the PortManager's table
  retx,       \* its retxLoop runs
  wr,         \* a SendData call is past its state check, or a remainder
              \* it left in the Nagle buffer is still there
  sendSeq,    \* SendSeq
  written,    \* segments given a sequence number so far
  unacked,    \* Unacked
  lastAck,    \* LastAck
  heldFin,    \* sequence number of heldFIN, 0 if none
  finSeq,     \* history: sequence number of the first FIN or FIN-ACK, 0 if none
  finAcks,    \* history: FIN-ACKs sent
  expected,   \* ExpectedSeq (and RecvAck, which follows it)
  ooo,        \* OOOBuf: held sequence numbers -> values
  recv,       \* everything ever put into RecvBuf, in order
  nread,      \* how much of recv the application has taken out
  eof,        \* why RecvBuf was closed; "open" while RecvClosed is false
  finPending, \* sequence number of the peer's held FIN, 0 if none
  ackDue,     \* a delayed ACK is scheduled
  rl,         \* the packet loop: where it is and what it is delivering
  ht,         \* the hold timer: TRUE while expireHeldFIN is in acceptFIN
  cl,         \* cl[e][c]: the step closer c has reached in CloseConnection
  net         \* packets on the wire

sendVars == <<wr, sendSeq, written, unacked, lastAck, heldFin, finSeq>>
recvVars == <<expected, ooo, recv, nread, eof, finPending, ackDue, rl, ht>>
vars == <<st, up, retx, sendVars, finAcks, recvVars, cl, net>>

State == {"Established", "FinWait", "TimeWait", "Closed"}

-----------------------------------------------------------------------------
(* Packets and retransmission entries.                                     *)

Packet == [kind : {"seg", "ack", "fin", "finack", "rst"}, to : Endpoint,
           seq : Nat, val : Nat, ack : Nat, sack : SUBSET Nat]

Seg(e, u) == [kind |-> "seg", to |-> Peer(e), seq |-> u.seq, val |-> u.val,
              ack |-> expected[e], sack |-> {}]
Fin(e, s) == [kind |-> "fin", to |-> Peer(e), seq |-> s, val |-> 0,
              ack |-> 0, sack |-> {}]
FinAck(e) == [kind |-> "finack", to |-> Peer(e), seq |-> sendSeq[e], val |-> 0,
              ack |-> 0, sack |-> {}]
Rst(e)    == [kind |-> "rst", to |-> Peer(e), seq |-> 0, val |-> 0,
              ack |-> 0, sack |-> {}]
Ack(e, n, S) == [kind |-> "ack", to |-> Peer(e), seq |-> 0, val |-> 0,
                 ack |-> n, sack |-> S]

(* retxEntry; a FIN entry (isFIN) has the value 0.                         *)
Entry == [seq : Nat, val : Nat, tries : Nat, sacked : BOOLEAN]
DataEntry(s, v) == [seq |-> s, val |-> v, tries |-> 1, sacked |-> FALSE]
FinEntry(s)     == [seq |-> s, val |-> 0, tries |-> 1, sacked |-> FALSE]
Again(e, u) == IF u.val = 0 THEN Fin(e, u.seq) ELSE Seg(e, u)

(* unackedHasData: a data entry counts whether or not it is SACKed.        *)
HasData(U) == \E u \in U : u.val # 0

(* SACKBlocks: the runs of consecutive held segments, the highest          *)
(* MaxSACKBlocks of them.                                                  *)
SACKBlocks(held) ==
  LET left == {n \in held : n - 1 \notin held}
  IN  {n \in held : Cardinality({b \in left : b > n}) < MaxSACKBlocks}

(* sendDelayedACK: the cumulative ACK n with the SACK blocks of the        *)
(* reorder buffer buf.                                                     *)
DelayedACK(e, n, buf) == Ack(e, n, SACKBlocks(DOMAIN buf))

Taken(p) == IF Keep THEN {} ELSE {p}

-----------------------------------------------------------------------------
Init ==
  /\ st = [e \in Endpoint |-> "Established"]
  /\ up = [e \in Endpoint |-> TRUE]
  /\ retx = [e \in Endpoint |-> TRUE]
  /\ wr = [e \in Endpoint |-> FALSE]
  /\ sendSeq = [e \in Endpoint |-> 1]
  /\ written = [e \in Endpoint |-> 0]
  /\ unacked = [e \in Endpoint |-> {}]
  /\ lastAck = [e \in Endpoint |-> 0]
  /\ heldFin = [e \in Endpoint |-> 0]
  /\ finSeq = [e \in Endpoint |-> 0]
  /\ finAcks = [e \in Endpoint |-> 0]
  /\ expected = [e \in Endpoint |-> 1]
  /\ ooo = [e \in Endpoint |-> <<>>]
  /\ recv = [e \in Endpoint |-> <<>>]
  /\ nread = [e \in Endpoint |-> 0]
  /\ eof = [e \in Endpoint |-> "open"]
  /\ finPending = [e \in Endpoint |-> 0]
  /\ ackDue = [e \in Endpoint |-> FALSE]
  /\ rl = [e \in Endpoint |-> [pc |-> "idle", todo |-> <<>>, done |-> 0]]
  /\ ht = [e \in Endpoint |-> FALSE]
  /\ cl = [e \in Endpoint |-> [c \in Closer |-> [pc |-> "idle", fin |-> 0]]]
  /\ net = {}

-----------------------------------------------------------------------------
(* Writing.                                                                *)

(* Mutant: SACKed segments are left out of the count.                      *)
WindowAvailable_IgnoresSacked(e) ==
  Cardinality({u \in unacked[e] : ~u.sacked}) < MaxSegmentsOutstanding

(* WindowAvailable, the limit on segments outstanding.  The congestion and *)
(* the peer's window only delay a segment further: Transmit may always be  *)
(* taken later.                                                            *)
WindowAvailable(e) == Cardinality(unacked[e]) < MaxSegmentsOutstanding

(* SendData: the state is checked, then the write goes to the segments.    *)
SendData(e) ==
  /\ ~wr[e]
  /\ st[e] = "Established"
  /\ written[e] < MaxData[e]
  /\ wr' = [wr EXCEPT ![e] = TRUE]
  /\ UNCHANGED <<st, up, retx, sendSeq, written, unacked, lastAck, heldFin,
                 finSeq, finAcks, recvVars, cl, net>>

(* transmitSegment and TrackSend: one segment takes the next sequence      *)
(* number, is tracked and sent; it carries the ACK that was due.  The      *)
(* state is not looked at again.  sendSegment waits for the window first;  *)
(* flushHeldTail and sendHeldTailBeforeClose, which send a held remainder, *)
(* do not.                                                                 *)
TransmitSegment(e) ==
  /\ wr[e]
  /\ written[e] < MaxData[e]
  /\ WindowAvailable(e) \/ written[e] + 1 \in Tails[e]
  /\ LET u == DataEntry(sendSeq[e], written[e] + 1)
     IN  /\ unacked' = [unacked EXCEPT ![e] = @ \cup {u}]
         /\ net' = net \cup {Seg(e, u)}
  /\ sendSeq' = [sendSeq EXCEPT ![e] = @ + 1]
  /\ written' = [written EXCEPT ![e] = @ + 1]
  /\ ackDue' = [ackDue EXCEPT ![e] = FALSE]
  /\ \E more \in BOOLEAN : wr' = [wr EXCEPT ![e] = more /\ written[e] + 1 < MaxData[e]]
  /\ UNCHANGED <<st, up, retx, lastAck, heldFin, finSeq, finAcks, expected, ooo,
                 recv, nread, eof, finPending, rl, ht, cl>>

(* sendSegment waiting on the window: RetxStop ends the write.             *)
WriteAborted(e) ==
  /\ wr[e]
  /\ ~up[e]
  /\ wr' = [wr EXCEPT ![e] = FALSE]
  /\ UNCHANGED <<st, up, retx, sendSeq, written, unacked, lastAck, heldFin,
                 finSeq, finAcks, recvVars, cl, net>>

(* sendSegment waiting on the window: the probe limit aborts the           *)
(* connection.                                                             *)
ProbeLimit(e) ==
  /\ Probing
  /\ wr[e]
  /\ wr' = [wr EXCEPT ![e] = FALSE]
  /\ st' = [st EXCEPT ![e] = "Closed"]
  /\ net' = net \cup {Rst(e)}
  /\ UNCHANGED <<up, retx, sendSeq, written, unacked, lastAck, heldFin,
                 finSeq, finAcks, recvVars, cl>>

(* A bare ACK without SACK blocks: a zero-window probe of sendSegment or a *)
(* probe of keepaliveSweep.                                                *)
Probe(e) ==
  /\ Probing
  /\ st[e] = "Established"
  /\ up[e]
  /\ net' = net \cup {Ack(e, expected[e], {})}
  /\ UNCHANGED <<st, up, retx, sendVars, finAcks, recvVars, cl>>

-----------------------------------------------------------------------------
(* The acknowledgement half of the packet loop.                            *)

(* releaseHeldFIN sends the held FIN unless the connection has ended.      *)
FinGoes(e) == heldFin[e] # 0 /\ st[e] \notin {"TimeWait", "Closed"}

FirstUnsacked(U) ==
  {u \in U : ~u.sacked /\ \A v \in U : v.seq < u.seq => v.sacked}

Mark(U, S) == {[u EXCEPT !.sacked = @ \/ u.seq \in S] : u \in U}
Retried(u) == [u EXCEPT !.tries = @ + 1]

(* ProcessAck, then releaseHeldFINIfAcked, then ProcessSACK.  Which        *)
(* duplicate or partial ACK makes ProcessAck call fastRetransmit is up to  *)
(* the congestion state, left out here: any of them may.                   *)
ProcessAck(e, p) ==
  LET new  == p.ack > lastAck[e]
      left == IF new THEN {u \in unacked[e] : u.seq >= p.ack} ELSE unacked[e]
      dup  == p.kind = "ack" /\ p.ack = lastAck[e]
      cand == {u \in FirstUnsacked(left) : (new \/ dup) /\ u.tries < MaxRetxAttempts}
      free == heldFin[e] # 0 /\ ~HasData(left)
      fin  == IF free /\ FinGoes(e) THEN {heldFin[e]} ELSE {}
  IN  \E fast \in {{}, cand} :
        /\ unacked' = [unacked EXCEPT ![e] =
             Mark((left \ fast) \cup {Retried(u) : u \in fast}
                                \cup {FinEntry(s) : s \in fin}, p.sack)]
        /\ lastAck' = [lastAck EXCEPT ![e] = IF new THEN p.ack ELSE @]
        /\ heldFin' = [heldFin EXCEPT ![e] = IF free THEN 0 ELSE @]
        /\ net' = (net \ Taken(p)) \cup {Again(e, u) : u \in fast}
                                   \cup {Fin(e, s) : s \in fin}

(* handleStreamPacket, a pure ACK.                                         *)
RecvAck(e, p) ==
  /\ p.kind = "ack"
  /\ ProcessAck(e, p)
  /\ UNCHANGED <<st, up, retx, wr, sendSeq, written, finSeq, finAcks, recvVars, cl>>

-----------------------------------------------------------------------------
(* The receiving half of the packet loop.                                  *)

(* Mutant: a later segment is delivered across the gap.                    *)
InSequence_AcrossGap(e, p) ==
  /\ eof[e] = "open"
  /\ p.seq >= expected[e]
  /\ rl' = [rl EXCEPT ![e] = [pc |-> "push", done |-> 0, todo |-> <<p.val>>]]
  /\ UNCHANGED ooo

(* DeliverInOrder, phase 1: the segment that was expected takes with it    *)
(* the buffered ones that follow without a gap; a later one is buffered if *)
(* there is room.  expected moves only in phase 3.                         *)
InSequence(e, p) ==
  /\ eof[e] = "open"
  /\ p.seq = expected[e]
  /\ \E k \in 0 .. MaxOOOBuf :
       /\ \A i \in 1 .. k : p.seq + i \in DOMAIN ooo[e]
       /\ p.seq + k + 1 \notin DOMAIN ooo[e]
       /\ rl' = [rl EXCEPT ![e] =
            [pc |-> "push", done |-> 0,
             todo |-> [i \in 1 .. k + 1 |-> IF i = 1 THEN p.val
                                                    ELSE ooo[e][p.seq + i - 1]]]]
       /\ ooo' = [ooo EXCEPT ![e] =
            [n \in DOMAIN ooo[e] \ (p.seq + 1 .. p.seq + k) |-> ooo[e][n]]]

HasRoom(e, p) == p.seq \notin DOMAIN ooo[e] /\ Cardinality(DOMAIN ooo[e]) < MaxOOOBuf

OutOfSequence(e, p) ==
  /\ eof[e] # "open" \/ p.seq # expected[e]
  /\ rl' = [rl EXCEPT ![e] = [pc |-> "push", done |-> 0, todo |-> <<>>]]
  /\ ooo' = IF eof[e] = "open" /\ p.seq > expected[e] /\ HasRoom(e, p)
            THEN [ooo EXCEPT ![e] = [n \in DOMAIN ooo[e] \cup {p.seq} |->
                                       IF n = p.seq THEN p.val ELSE ooo[e][n]]]
            ELSE ooo

(* handleStreamPacket, a data segment: its ACK first, then, on an          *)
(* established connection only, its data.                                  *)
RecvSeg(e, p) ==
  /\ p.kind = "seg"
  /\ ProcessAck(e, p)
  /\ IF st[e] = "Established"
     THEN InSequence(e, p) \/ OutOfSequence(e, p)
     ELSE UNCHANGED <<rl, ooo>>
  /\ UNCHANGED <<st, up, retx, wr, sendSeq, written, finSeq, finAcks, expected,
                 recv, nread, eof, finPending, ackDue, ht, cl>>

BufFull(e) == Len(recv[e]) - nread[e] >= RecvBufSize

(* DeliverInOrder, phase 2: one segment into RecvBuf, outside the lock.    *)
Push(e) ==
  /\ rl[e].pc = "push"
  /\ rl[e].done < Len(rl[e].todo)
  /\ ~BufFull(e)
  /\ recv' = [recv EXCEPT ![e] = Append(@, rl[e].todo[rl[e].done + 1])]
  /\ rl' = [rl EXCEPT ![e].done = @ + 1]
  /\ UNCHANGED <<st, up, retx, sendVars, finAcks, expected, ooo, nread, eof,
                 finPending, ackDue, ht, cl, net>>

(* Phase 3: expected moves past what was delivered and the rest goes back  *)
(* to the reorder buffer, all but the segment that came in; dropOOOBefore  *)
(* forgets what delivery has passed.                                       *)
Undelivered(e) ==
  {expected[e] + i - 1 : i \in {j \in 2 .. Len(rl[e].todo) : j > rl[e].done}}

(* Mutant: what could not be delivered is dropped.                         *)
Rebuffered_Dropped(e) ==
  [n \in {m \in DOMAIN ooo[e] : m >= expected[e] + rl[e].done} |-> ooo[e][n]]

Rebuffered(e) ==
  [n \in {m \in DOMAIN ooo[e] \cup Undelivered(e) : m >= expected[e] + rl[e].done} |->
     IF n \in Undelivered(e) THEN rl[e].todo[n - expected[e] + 1] ELSE ooo[e][n]]

(* A push that finds RecvBuf full for a second gives up.  After phase 3 a  *)
(* held FIN that delivery has reached is handled; otherwise the segment is *)
(* acknowledged, at once if the reorder buffer holds something.            *)
Commit(e) ==
  LET next  == expected[e] + rl[e].done
      ready == finPending[e] # 0 /\ finPending[e] <= next
      now   == ~ready /\ DOMAIN Rebuffered(e) # {}
  IN  /\ rl[e].pc = "push"
      /\ rl[e].done = Len(rl[e].todo) \/ BufFull(e)
      /\ expected' = [expected EXCEPT ![e] = next]
      /\ ooo' = [ooo EXCEPT ![e] = Rebuffered(e)]
      /\ rl' = [rl EXCEPT ![e] = [pc |-> IF ready THEN "accept" ELSE "idle",
                                  todo |-> <<>>, done |-> 0]]
      /\ finPending' = [finPending EXCEPT ![e] = IF ready THEN 0 ELSE @]
      /\ eof' = [eof EXCEPT ![e] = IF ready /\ @ = "open" THEN "fin" ELSE @]
      /\ net' = net \cup IF now THEN {DelayedACK(e, next, Rebuffered(e))} ELSE {}
      /\ ackDue' = [ackDue EXCEPT ![e] = IF ready THEN @ ELSE ~now]
      /\ UNCHANGED <<st, up, retx, sendVars, finAcks, recv, nread, ht, cl>>

(* Mutant: the ACK covers segments whose delivery is still under way.      *)
SendDelayedACK_Early(e) ==
  /\ ackDue[e]
  /\ ackDue' = [ackDue EXCEPT ![e] = FALSE]
  /\ net' = net \cup {DelayedACK(e, expected[e] + Len(rl[e].todo), ooo[e])}
  /\ UNCHANGED <<st, up, retx, sendVars, finAcks, expected, ooo, recv, nread, eof,
                 finPending, rl, ht, cl>>

(* The delayed ACK: every second segment, a quick ACK, or the ACK timer.   *)
SendDelayedACK(e) ==
  /\ ackDue[e]
  /\ ackDue' = [ackDue EXCEPT ![e] = FALSE]
  /\ net' = net \cup {DelayedACK(e, expected[e], ooo[e])}
  /\ UNCHANGED <<st, up, retx, sendVars, finAcks, expected, ooo, recv, nread, eof,
                 finPending, rl, ht, cl>>

(* Mutant: a read that does not wait for a segment.                        *)
Read_NoWait(e) ==
  /\ nread[e] <= Len(recv[e])
  /\ nread' = [nread EXCEPT ![e] = @ + 1]
  /\ UNCHANGED <<st, up, retx, sendVars, finAcks, expected, ooo, recv, eof,
                 finPending, ackDue, rl, ht, cl, net>>

(* The application takes one segment out of RecvBuf.                       *)
Read(e) ==
  /\ nread[e] < Len(recv[e])
  /\ nread' = [nread EXCEPT ![e] = @ + 1]
  /\ UNCHANGED <<st, up, retx, sendVars, finAcks, expected, ooo, recv, eof,
                 finPending, ackDue, rl, ht, cl, net>>

-----------------------------------------------------------------------------
(* The peer's FIN.                                                         *)

(* Mutant: a FIN is handled when it comes, as up to v1.17.0.               *)
EarlyFin_Never(e, p) == FALSE

(* A FIN or FIN-ACK that overtook data is early: it is held, and the       *)
(* missing data asked for.                                                 *)
EarlyFin(e, p) == st[e] = "Established" /\ eof[e] = "open" /\ p.seq > expected[e]

HoldFin(e, p) ==
  /\ EarlyFin(e, p)
  /\ finPending' = [finPending EXCEPT ![e] = IF @ = 0 THEN p.seq ELSE @]
  /\ ackDue' = [ackDue EXCEPT ![e] = FALSE]
  /\ net' = (net \ Taken(p)) \cup {DelayedACK(e, expected[e], ooo[e])}
  /\ UNCHANGED <<eof, rl>>

(* acceptFIN, first half: stopFINHold and CloseRecvBuf.  A reader of a     *)
(* connection that was already closed or aborted gets no clean end.        *)
TakeFin(e, p) ==
  /\ ~EarlyFin(e, p)
  /\ finPending' = [finPending EXCEPT ![e] = 0]
  /\ eof' = [eof EXCEPT ![e] = IF @ # "open" THEN @
                               ELSE IF st[e] = "Established" THEN "fin" ELSE "cut"]
  /\ rl' = [rl EXCEPT ![e].pc = "accept"]
  /\ net' = net \ Taken(p)
  /\ UNCHANGED ackDue

RecvFin(e, p) ==
  /\ p.kind \in {"fin", "finack"}
  /\ HoldFin(e, p) \/ TakeFin(e, p)
  /\ UNCHANGED <<st, up, retx, sendVars, finAcks, expected, ooo, recv, nread, ht, cl>>

(* Mutant: every FIN is answered.                                          *)
AcceptFIN_AnswersAll(e) ==
  /\ st' = [st EXCEPT ![e] = "TimeWait"]
  /\ unacked' = [unacked EXCEPT ![e] = IF st[e] = "FinWait" THEN {} ELSE @]
  /\ net' = net \cup {FinAck(e)}
  /\ finAcks' = [finAcks EXCEPT ![e] = @ + 1]
  /\ finSeq' = [finSeq EXCEPT ![e] = IF @ = 0 THEN sendSeq[e] ELSE @]

(* acceptFIN, second half: TIME_WAIT, nothing left to resend after         *)
(* FIN_WAIT, and one FIN-ACK.                                              *)
AcceptFIN(e) ==
  LET first == st[e] # "TimeWait"
  IN  /\ st' = [st EXCEPT ![e] = "TimeWait"]
      /\ unacked' = [unacked EXCEPT ![e] = IF st[e] = "FinWait" THEN {} ELSE @]
      /\ net' = net \cup IF first THEN {FinAck(e)} ELSE {}
      /\ finAcks' = [finAcks EXCEPT ![e] = IF first THEN @ + 1 ELSE @]
      /\ finSeq' = [finSeq EXCEPT ![e] = IF first /\ @ = 0 THEN sendSeq[e] ELSE @]

PacketLoopAccepts(e) ==
  /\ rl[e].pc = "accept"
  /\ AcceptFIN(e)
  /\ rl' = [rl EXCEPT ![e].pc = "idle"]
  /\ UNCHANGED <<up, retx, wr, sendSeq, written, lastAck, heldFin, expected, ooo,
                 recv, nread, eof, finPending, ackDue, ht, cl>>

(* Mutant: the expired hold is dropped without ending the stream.          *)
ExpireHeldFIN_Drops(e) ==
  /\ finPending[e] # 0
  /\ ~ht[e]
  /\ finPending' = [finPending EXCEPT ![e] = 0]
  /\ UNCHANGED <<st, up, retx, sendVars, finAcks, expected, ooo, recv, nread, eof,
                 ackDue, rl, ht, cl, net>>

(* expireHeldFIN: nothing came from the peer for finHoldIdle.              *)
ExpireHeldFIN(e) ==
  /\ finPending[e] # 0
  /\ ~ht[e]
  /\ finPending' = [finPending EXCEPT ![e] = 0]
  /\ IF st[e] = "Established"
     THEN /\ eof' = [eof EXCEPT ![e] = IF @ = "open" THEN "expired" ELSE @]
          /\ ht' = [ht EXCEPT ![e] = TRUE]
     ELSE UNCHANGED <<eof, ht>>
  /\ UNCHANGED <<st, up, retx, sendVars, finAcks, expected, ooo, recv, nread,
                 ackDue, rl, cl, net>>

(* CloseRecvBuf waits for a push in progress (recvSenders).                *)
HoldTimerAccepts(e) ==
  /\ ht[e]
  /\ rl[e].pc # "push"
  /\ AcceptFIN(e)
  /\ ht' = [ht EXCEPT ![e] = FALSE]
  /\ UNCHANGED <<up, retx, wr, sendSeq, written, lastAck, heldFin, expected, ooo,
                 recv, nread, eof, finPending, ackDue, rl, cl>>

-----------------------------------------------------------------------------
(* RST, retransmission, removal.                                           *)

(* RemoveConnection closes RetxStop, which ends the retxLoop.              *)
Remove(e) ==
  /\ up' = [up EXCEPT ![e] = FALSE]
  /\ retx' = [retx EXCEPT ![e] = FALSE]

Cut(e) == eof' = [eof EXCEPT ![e] = IF @ = "open" THEN "cut" ELSE @]

RecvRst(e, p) ==
  /\ p.kind = "rst"
  /\ st' = [st EXCEPT ![e] = "Closed"]
  /\ finPending' = [finPending EXCEPT ![e] = 0]
  /\ Cut(e)
  /\ Remove(e)
  /\ net' = net \ Taken(p)
  /\ UNCHANGED <<sendVars, finAcks, expected, ooo, recv, nread, ackDue, rl, ht, cl>>

(* handlePacket: the packet loop takes one packet at a time; a packet for  *)
(* a connection that is gone is dropped.                                   *)
HandlePacket(e) ==
  /\ rl[e].pc = "idle"
  /\ up[e]
  /\ \E p \in {q \in net : q.to = e} :
       RecvSeg(e, p) \/ RecvAck(e, p) \/ RecvFin(e, p) \/ RecvRst(e, p)

(* Mutant: SACK marks are never forgotten.                                 *)
HeadSacked_Never(U) == FALSE

(* The marks forgotten: the oldest entry is SACKed and has timed out.      *)
Forget(U) == {[u EXCEPT !.sacked = FALSE] : u \in U}
HeadSacked(U) == \E u \in U : u.sacked /\ \A v \in U : u.seq <= v.seq

(* retransmitUnacked: some entry that is not SACKed has timed out.  It is  *)
(* sent again, or the connection abandoned once it was tried too often.    *)
RetransmitUnacked(e) ==
  \E U \in {unacked[e]} \cup IF HeadSacked(unacked[e]) THEN {Forget(unacked[e])} ELSE {} :
  \E u \in {v \in U : ~v.sacked} :
    IF u.tries >= MaxRetxAttempts
    THEN /\ st' = [st EXCEPT ![e] = "Closed"]
         /\ unacked' = [unacked EXCEPT ![e] = U]
         /\ net' = net \cup {Rst(e)}
    ELSE /\ unacked' = [unacked EXCEPT ![e] = (U \ {u}) \cup {Retried(u)}]
         /\ net' = net \cup {Again(e, u)}
         /\ UNCHANGED st

(* retxLoop, one tick.                                                     *)
RetxResends(e) ==
  /\ retx[e]
  /\ st[e] = "Established" \/ (st[e] = "FinWait" /\ HasData(unacked[e]))
  /\ RetransmitUnacked(e)
  /\ UNCHANGED <<up, retx, wr, sendSeq, written, lastAck, heldFin, finSeq, finAcks,
                 recvVars, cl>>

RetxExits(e) ==
  /\ retx[e]
  /\ st[e] = "TimeWait" \/ (st[e] = "FinWait" /\ ~HasData(unacked[e]))
  /\ retx' = [retx EXCEPT ![e] = FALSE]
  /\ UNCHANGED <<st, up, sendVars, finAcks, recvVars, cl, net>>

RetxCleansUp(e) ==
  /\ retx[e]
  /\ st[e] = "Closed"
  /\ rl[e].pc # "push"
  /\ Cut(e)
  /\ Remove(e)
  /\ UNCHANGED <<st, sendVars, finAcks, expected, ooo, recv, nread, finPending,
                 ackDue, rl, ht, cl, net>>

-----------------------------------------------------------------------------
(* Closing.                                                                *)

(* sendFIN, for each sequence number of F: the FIN is sent and tracked.    *)
SendFIN(e, F) ==
  /\ unacked' = [unacked EXCEPT ![e] = @ \cup {FinEntry(s) : s \in F}]
  /\ net' = net \cup {Fin(e, s) : s \in F}

(* releaseHeldFIN.                                                         *)
ReleaseHeldFIN(e) ==
  /\ SendFIN(e, IF FinGoes(e) THEN {heldFin[e]} ELSE {})
  /\ heldFin' = [heldFin EXCEPT ![e] = 0]

(* finLinger runs out.                                                     *)
Linger(e) ==
  /\ heldFin[e] # 0
  /\ ReleaseHeldFIN(e)
  /\ UNCHANGED <<st, up, retx, wr, sendSeq, written, lastAck, finSeq, finAcks,
                 recvVars, cl>>

(* idleSweepLoop reaps a connection that is no longer established.         *)
Reap(e) ==
  /\ up[e]
  /\ st[e] # "Established"
  /\ rl[e].pc # "push"
  /\ ReleaseHeldFIN(e)
  /\ Cut(e)
  /\ Remove(e)
  /\ UNCHANGED <<st, wr, sendSeq, written, lastAck, finSeq, finAcks, expected, ooo,
                 recv, nread, finPending, ackDue, rl, ht, cl>>

At(e, c, pc) == cl[e][c].pc = pc
Goto(e, c, pc, s) == cl' = [cl EXCEPT ![e][c] = [pc |-> pc, fin |-> s]]

(* CloseConnection, by a caller c.  First it looks whether data is         *)
(* unacknowledged: then the FIN will be held.                              *)
CloseBegins(e, c) ==
  /\ e \in Closing
  /\ At(e, c, "idle")
  /\ Goto(e, c, IF HasData(unacked[e]) THEN "hold" ELSE "send", 0)
  /\ UNCHANGED <<st, up, retx, sendVars, finAcks, recvVars, net>>

(* Mutant: the FIN uses the next sequence number without reserving it.     *)
CloseReserves_ReadsOnly(e, c) ==
  /\ \/ /\ At(e, c, "hold")
        /\ heldFin' = [heldFin EXCEPT ![e] = IF st[e] = "Established" THEN sendSeq[e] ELSE @]
     \/ /\ At(e, c, "send")
        /\ UNCHANGED heldFin
  /\ IF st[e] = "Established"
     THEN /\ finSeq' = [finSeq EXCEPT ![e] = IF @ = 0 THEN sendSeq[e] ELSE @]
          /\ Goto(e, c, IF At(e, c, "hold") THEN "release" ELSE "fin", sendSeq[e])
     ELSE /\ Goto(e, c, "shut", 0)
          /\ UNCHANGED finSeq
  /\ UNCHANGED <<st, up, retx, wr, sendSeq, written, unacked, lastAck, finAcks,
                 recvVars, net>>

(* Under Mu: on an established connection the FIN takes its sequence       *)
(* number, and is held in the same critical section if it is to be.        *)
CloseReserves(e, c) ==
  /\ \/ /\ At(e, c, "hold")
        /\ heldFin' = [heldFin EXCEPT ![e] = IF st[e] = "Established" THEN sendSeq[e] ELSE @]
     \/ /\ At(e, c, "send")
        /\ UNCHANGED heldFin
  /\ IF st[e] = "Established"
     THEN /\ sendSeq' = [sendSeq EXCEPT ![e] = @ + 1]
          /\ finSeq' = [finSeq EXCEPT ![e] = IF @ = 0 THEN sendSeq[e] ELSE @]
          /\ Goto(e, c, IF At(e, c, "hold") THEN "release" ELSE "fin", sendSeq[e])
     ELSE /\ Goto(e, c, "shut", 0)
          /\ UNCHANGED <<sendSeq, finSeq>>
  /\ UNCHANGED <<st, up, retx, wr, written, unacked, lastAck, finAcks, recvVars, net>>

(* The FIN goes out now, or, if it is held, now that the last ACK may      *)
(* have been handled meanwhile.                                            *)
CloseSends(e, c) ==
  /\ \/ /\ At(e, c, "fin")
        /\ SendFIN(e, {cl[e][c].fin})
        /\ UNCHANGED heldFin
     \/ /\ At(e, c, "release")
        /\ IF heldFin[e] # 0 /\ ~HasData(unacked[e])
           THEN ReleaseHeldFIN(e)
           ELSE UNCHANGED <<unacked, net, heldFin>>
  /\ Goto(e, c, "shut", 0)
  /\ UNCHANGED <<st, up, retx, wr, sendSeq, written, lastAck, finSeq, finAcks, recvVars>>

(* stopFINHold, CloseRecvBuf, and the delayed ACK is cancelled.            *)
CloseShuts(e, c) ==
  /\ At(e, c, "shut")
  /\ Cut(e)
  /\ finPending' = [finPending EXCEPT ![e] = 0]
  /\ ackDue' = [ackDue EXCEPT ![e] = FALSE]
  /\ Goto(e, c, "wait", 0)
  /\ UNCHANGED <<st, up, retx, sendVars, finAcks, expected, ooo, recv, nread, rl, ht, net>>

(* FIN_WAIT, whatever the state has become.                                *)
CloseEnds(e, c) ==
  /\ At(e, c, "wait")
  /\ rl[e].pc # "push"
  /\ st' = [st EXCEPT ![e] = "FinWait"]
  /\ Goto(e, c, "done", 0)
  /\ UNCHANGED <<up, retx, sendVars, finAcks, recvVars, net>>

Close(e, c) ==
  CloseBegins(e, c) \/ CloseReserves(e, c) \/ CloseSends(e, c)
    \/ CloseShuts(e, c) \/ CloseEnds(e, c)

(* doStop: the FIN that is held, or a FIN of its own on an established     *)
(* connection, and the connection is removed at once.                      *)
StopFin(e) ==
  IF FinGoes(e) THEN {heldFin[e]}
  ELSE IF st[e] = "Established" THEN {sendSeq[e]} ELSE {}

Stop(e) ==
  /\ e \in Stopping
  /\ up[e]
  /\ rl[e].pc # "push"
  /\ net' = net \cup {Fin(e, s) : s \in StopFin(e)}
  /\ finSeq' = [finSeq EXCEPT ![e] = IF @ = 0 /\ st[e] = "Established" THEN sendSeq[e] ELSE @]
  /\ heldFin' = [heldFin EXCEPT ![e] = 0]
  /\ st' = [st EXCEPT ![e] = "Closed"]
  /\ Cut(e)
  /\ Remove(e)
  /\ UNCHANGED <<wr, sendSeq, written, unacked, lastAck, finAcks, expected, ooo,
                 recv, nread, finPending, ackDue, rl, ht, cl>>

-----------------------------------------------------------------------------
(* The network (external): without Keep it loses packets by Lose.          *)
Lose ==
  /\ ~Keep
  /\ \E p \in net : net' = net \ {p}
  /\ UNCHANGED <<st, up, retx, sendVars, finAcks, recvVars, cl>>

Writer(e) == SendData(e) \/ TransmitSegment(e) \/ WriteAborted(e) \/ ProbeLimit(e)
PacketLoop(e) == HandlePacket(e) \/ Push(e) \/ Commit(e) \/ PacketLoopAccepts(e)
Timers(e) == SendDelayedACK(e) \/ ExpireHeldFIN(e) \/ HoldTimerAccepts(e) \/ Linger(e)
RetxLoop(e) == RetxResends(e) \/ RetxExits(e) \/ RetxCleansUp(e)

Next ==
  \/ \E e \in Endpoint :
       \/ Writer(e) \/ PacketLoop(e) \/ Timers(e) \/ RetxLoop(e)
       \/ Probe(e) \/ Read(e) \/ Reap(e) \/ Stop(e)
       \/ \E c \in Closer : Close(e, c)
  \/ Lose

Spec == Init /\ [][Next]_vars

(* Goroutines and timers of an endpoint run on; the application, the       *)
(* network and whoever closes or stops owe nothing.                        *)
Fairness ==
  \A e \in Endpoint :
    /\ WF_vars(Push(e) \/ Commit(e) \/ PacketLoopAccepts(e))
    /\ WF_vars(RetxLoop(e))
    /\ WF_vars(SendDelayedACK(e))
    /\ WF_vars(ExpireHeldFIN(e))
    /\ WF_vars(HoldTimerAccepts(e))

FairSpec == Spec /\ Fairness

-----------------------------------------------------------------------------
(* Properties.                                                             *)

(* Type correctness of the connection state.                               *)
TypeOK ==
  /\ st \in [Endpoint -> State]
  /\ up \in [Endpoint -> BOOLEAN]
  /\ retx \in [Endpoint -> BOOLEAN]
  /\ wr \in [Endpoint -> BOOLEAN]
  /\ sendSeq \in [Endpoint -> Nat]
  /\ written \in [Endpoint -> Nat]
  /\ unacked \in [Endpoint -> SUBSET Entry]
  /\ lastAck \in [Endpoint -> Nat]
  /\ heldFin \in [Endpoint -> Nat]
  /\ finSeq \in [Endpoint -> Nat]
  /\ finAcks \in [Endpoint -> Nat]
  /\ expected \in [Endpoint -> Nat]
  /\ ooo = [e \in Endpoint |-> ooo[e]]
  /\ \A e \in Endpoint : /\ DOMAIN ooo[e] \subseteq Nat
                         /\ ooo[e] \in [DOMAIN ooo[e] -> Nat]
  /\ recv \in [Endpoint -> Seq(Nat)]
  /\ nread \in [Endpoint -> Nat]
  /\ \A e \in Endpoint : nread[e] <= Len(recv[e])
  /\ eof \in [Endpoint -> {"open", "fin", "expired", "cut"}]
  /\ finPending \in [Endpoint -> Nat]
  /\ ackDue \in [Endpoint -> BOOLEAN]
  /\ rl \in [Endpoint -> [pc : {"idle", "push", "accept"}, todo : Seq(Nat), done : Nat]]
  /\ ht \in [Endpoint -> BOOLEAN]
  /\ cl \in [Endpoint -> [Closer ->
       [pc : {"idle", "hold", "send", "release", "fin", "shut", "wait", "done"},
        fin : Nat]]]
  /\ net \subseteq Packet

(* What a reader has been given is exactly the beginning of what the peer  *)
(* wrote: nothing missing, repeated or out of order, whatever the network  *)
(* does and however often either side retransmits, times out or closes     *)
(* (DeliverInOrder, transmitSegment, CloseConnection).                     *)
InOrder ==
  \A e \in Endpoint :
    /\ Len(recv[e]) <= written[Peer(e)]
    /\ \A i \in 1 .. Len(recv[e]) : recv[e][i] = i

(* A sender forgets a segment as acknowledged only when the peer's         *)
(* application has been given it (ProcessAck against the three phases of   *)
(* DeliverInOrder: phase 1 must not acknowledge).                          *)
AckedWasDelivered ==
  \A e \in Endpoint : lastAck[e] <= Len(recv[Peer(e)]) + 1

(* A stream that ended with the peer's FIN, not by a local close, an RST   *)
(* or the expired hold, has given its reader everything the peer sent      *)
(* before that FIN (the FIN branch of handleStreamPacket and acceptFIN).   *)
CleanEnd ==
  \A e \in Endpoint :
    eof[e] = "fin" => /\ finSeq[Peer(e)] # 0
                      /\ Len(recv[e]) >= finSeq[Peer(e)] - 1

(* A segment the sender holds marked SACKed, and therefore skips when it   *)
(* retransmits, is in the peer's hands: delivered, being delivered or in   *)
(* its reorder buffer (ProcessSACK against the re-buffering of phase 3).   *)
SackedIsHeld ==
  \A e \in Endpoint : \A u \in unacked[e] :
    u.sacked => LET p == Peer(e)
                IN  \/ u.seq < expected[p] + Len(rl[p].todo)
                    \/ u.seq \in DOMAIN ooo[p]

(* The tails of e that are unacknowledged.                                 *)
PastWindow(e) == {u \in unacked[e] : u.val \in Tails[e]}

(* What waits in a reorder buffer, with one more segment that is on its    *)
(* way to it, is never more than MaxSegmentsOutstanding and the tails the  *)
(* sender has outstanding: those go past the window.  So while no tail is  *)
(* outstanding a segment that arrives out of order finds room, which is    *)
(* what MaxSegmentsOutstanding = MaxOOOBuf is for.  (A sender that has     *)
(* answered a FIN may have emptied its retransmission buffer, and no       *)
(* longer counts.)                                                         *)
ReorderRoom ==
  \A p \in net :
    LET e == p.to
    IN  (/\ p.kind = "seg"
         /\ finAcks[Peer(e)] = 0
         /\ p.seq > expected[e]
         /\ p.seq \notin DOMAIN ooo[e])
          => Cardinality(DOMAIN ooo[e])
               < MaxSegmentsOutstanding + Cardinality(PastWindow(Peer(e)))

(* A sequence number stands for one thing: two packets that occupy the     *)
(* same place in the stream are the same segment, or both the FIN (the     *)
(* reservations under Mu in transmitSegment and CloseConnection).          *)
SeqNotShared ==
  \A p, q \in {r \in net : r.kind \in {"seg", "fin"}} :
    p.to = q.to /\ p.seq = q.seq => p.kind = q.kind /\ p.val = q.val

(* FIN-ACKs do not answer each other for ever: one for the peer's FIN, and *)
(* at most one more for each thing that takes the connection out of        *)
(* TIME_WAIT again, a local close, the abort of a write, an RST or the     *)
(* daemon's stop (the wasTimeWait guard of acceptFIN).                     *)
NoFinAckStorm ==
  \A e \in Endpoint : finAcks[e] <= 3 + Cardinality(Closer)

(* Every segment written on an established connection before the FIN       *)
(* reaches the peer's RecvBuf, unless the stream ends at one of the two    *)
(* sides (retxLoop, and the forgotten SACK marks of retransmitUnacked).    *)
WrittenArrives ==
  \A e \in Endpoint : \A n \in 1 .. MaxData[e] :
    (written[e] >= n /\ st[e] = "Established") ~>
                         \/ Len(recv[Peer(e)]) >= n
                         \/ eof[Peer(e)] # "open"
                         \/ st[e] \in {"TimeWait", "Closed"}
                         \/ ~up[e]
                         \/ finSeq[e] # 0 /\ n >= finSeq[e]

(* The comment on CloseConnection: "The FIN is tracked in the              *)
(* retransmission buffer so it will be retried if lost - the existing      *)
(* retxLoop handles it": while the FIN is unanswered in FIN_WAIT the loop  *)
(* that would retry it runs.                                               *)
FinIsRetried ==
  \A e \in Endpoint :
    st[e] = "FinWait" /\ up[e] /\ (\E u \in unacked[e] : u.val = 0) => retx[e]

(* A reader whose peer's FIN is held for missing data is not left waiting: *)
(* its stream ends, by delivery reaching the FIN or by the hold running    *)
(* out (the hold timer of the FIN branch, expireHeldFIN).                  *)
HeldFinEnds ==
  \A e \in Endpoint : (finPending[e] # 0) ~> (eof[e] # "open")

(* The stream does what ReliablePipe promises.                             *)
Pipe == INSTANCE ReliablePipe WITH
  sent <- [e \in Endpoint |-> [i \in 1 .. written[e] |-> i]],
  got <- recv,
  closedAt <- [e \in Endpoint |-> finSeq[e] - 1],
  ended <- eof

(* The refinement: every step of the connection is a step of the pipe.     *)
ImplementsPipe == Pipe!PipeSpec
=============================================================================
