----------------------------- MODULE Congestion -----------------------------
(***************************************************************************)
(* Loss recovery of one direction of a connection: ProcessAck, ProcessSACK *)
(* and fastRetransmit (pkg/daemon/ports.go), retransmitUnacked (daemon.go) *)
(* and the window they set, against the receiver at the other end.         *)
(*                                                                         *)
(* Segments are numbered from 1 and all full: lengths are in segments of   *)
(* SendSegmentSize, and Mss is MaxSegmentSize in that unit.  Time is the   *)
(* order of steps: a timeout fires when nothing is on its way, or early    *)
(* within a budget.                                                        *)
(***************************************************************************)
EXTENDS Integers, Sequences, FiniteSets, FiniteSetsExt, SequencesExt

CONSTANTS
  Data,             \* how many segments the application writes
  Mss,              \* MaxSegmentSize
  InitialCongWin, MaxCongWin,
  Room,             \* MaxSegmentsOutstanding, and the peer's MaxOOOBuf
  MaxRetxAttempts,
  AckPath,          \* bound: the ACKs on their way at a time
  Scenarios         \* [budgets, eager]: the application writes ahead

VARIABLES
  sc, left,
  snd,       \* the connection's congestion state, and the ACK and what
             \* was in the network when it entered fast recovery
  sendSeq,   \* SendSeq: the last segment sent
  open,      \* the connection is not closed
  handling,      \* the ACK in ProcessAck, with the SendSeq it read first
  data, acks,   \* the two directions of the path
  rcv, ooo   \* the peer: delivered up to, and its reorder buffer

congestionVars == <<snd, sendSeq, open, handling, data, acks, rcv, ooo>>
vars == <<sc, left, congestionVars>>

Spend(k) == left[k] > 0 /\ left' = [left EXCEPT ![k] = @ - 1]
Idle == [busy |-> FALSE, ack |-> 0, sack |-> {}, sent |-> 0]

Init ==
  /\ sc \in Scenarios
  /\ left = sc.budgets
  /\ snd = [una |-> 0, dup |-> 0, inRecovery |-> FALSE, fast |-> FALSE, point |-> 0, hole |-> 0, seen |-> 0,
            win |-> InitialCongWin, ssthresh |-> MaxCongWin \div 2,
            sacked |-> {}, tries |-> [x \in 1 .. Data |-> 1]]
  /\ sendSeq = 0 /\ open = TRUE /\ handling = Idle
  /\ data = <<>> /\ acks = <<>>
  /\ rcv = 0 /\ ooo = {}

----------------------------------------------------------------------------
(* The window.                                                             *)

Unacked(c) == (c.una + 1) .. sendSeq
BytesInFlight(c) == Cardinality(Unacked(c) \ c.sacked)

(* A SACKed segment does not count, except in fast recovery, where each    *)
(* duplicate ACK has already made room for it.                             *)
WindowAvailable(c) ==
  /\ (IF c.fast THEN Cardinality(Unacked(c)) ELSE BytesInFlight(c)) < c.win
  /\ Cardinality(Unacked(c)) < Room

CanSend == open /\ sendSeq < Data /\ WindowAvailable(snd)

(* An application that writes ahead fills the window before an ACK comes.  *)
Filled == sc.eager => ~CanSend

(* sendSegment and TrackSend.                                              *)
sendSegment ==
  /\ CanSend
  /\ sendSeq' = sendSeq + 1
  /\ data' = Append(data, sendSeq + 1)
  /\ UNCHANGED <<left, snd, open, handling, acks, rcv, ooo>>

----------------------------------------------------------------------------
(* ProcessAck.                                                             *)

(* The segment fastRetransmit resends: the first not SACKed, unless its    *)
(* attempts are used up.                                                   *)
fastRetransmit(c) ==
  LET missing == Unacked(c) \ c.sacked IN
  IF missing = {} THEN {} ELSE {x \in {Min(missing)} : c.tries[x] < MaxRetxAttempts}
Resent(c, again) == IF again = {} THEN c ELSE [c EXCEPT !.tries[CHOOSE x \in again : TRUE] = @ + 1]

Capped(w) == Min({w, MaxCongWin})
Inflate(c) == [c EXCEPT !.win = Capped(@ + 1)]
Halved(c) == Max({Cardinality(Unacked(c)) \div 2, 2 * Mss})

EnterRecovery(c, sent) ==
  [c EXCEPT !.ssthresh = Halved(c), !.win = Halved(c) + 3,
            !.inRecovery = TRUE, !.fast = TRUE, !.point = sent,
            !.hole = c.una, !.seen = BytesInFlight(c)]

(* A duplicate ACK: the third resends and, for a new loss episode, halves. *)
DupAck(c, sent) ==
  LET d == [c EXCEPT !.dup = @ + 1]
      again == fastRetransmit(c)
      r == Resent(d, again)
      newEpisode == ~d.inRecovery \/ sent > d.point IN
  CASE BytesInFlight(c) = 0 -> [c |-> c, again |-> {}]
    [] BytesInFlight(c) > 0 /\ d.dup = 3 /\ again # {} ->
         [c |-> IF newEpisode THEN EnterRecovery(r, sent) ELSE IF d.fast THEN Inflate(r) ELSE r,
          again |-> again]
    [] BytesInFlight(c) > 0 /\ d.dup # 3 /\ d.fast -> [c |-> Inflate(d), again |-> {}]
    [] OTHER -> [c |-> d, again |-> {}]

(* The window after an ACK in fast recovery: ssthresh once it is over,     *)
(* less what has left the network while it lasts.                          *)
Deflated(c, d, n) ==
  IF ~(c.fast /\ c.inRecovery) THEN c.win
  ELSE IF ~d.inRecovery THEN c.ssthresh
  ELSE Max({c.win - n + (IF n >= 1 THEN 1 ELSE 0), c.ssthresh})

(* Slow start and congestion avoidance.                                    *)
Grown(win, ssthresh, n) ==
  Capped(win + (IF win < ssthresh THEN Min({n, 2 * Mss}) ELSE Max({1, (Mss * Min({n, Mss})) \div win})))

(* The ACK covers the window that was out when the loss was seen.          *)
Over(c, ack) == c.inRecovery /\ ack >= c.point

(* A new ACK: recovery ends or goes on with the next missing segment.      *)
NewAck(c, ack) ==
  LET n == Cardinality(((c.una + 1) .. ack) \ c.sacked)
      d == [c EXCEPT !.una = ack, !.dup = 0, !.sacked = @ \ (1 .. ack),
                     !.inRecovery = @ /\ ~Over(c, ack), !.fast = @ /\ ~Over(c, ack)]
      partial == c.inRecovery /\ d.inRecovery
      win == Deflated(c, d, n)
      e == [d EXCEPT !.win = IF n > 0 /\ ~(c.fast /\ partial) THEN Grown(win, c.ssthresh, n) ELSE win]
      again == IF partial THEN fastRetransmit(e) ELSE {}
  IN [c |-> Resent(e, again), again |-> again]

(* The ACK handler reads SendSeq before it takes RetxMu.                   *)
AckArrives ==
  /\ open /\ acks # <<>> /\ ~handling.busy /\ Filled
  /\ handling' = [busy |-> TRUE, ack |-> Head(acks).ack, sack |-> Head(acks).sack, sent |-> sendSeq]
  /\ acks' = Tail(acks)
  /\ UNCHANGED <<left, snd, sendSeq, open, data, rcv, ooo>>

(* ProcessAck, then ProcessSACK.                                           *)
ProcessAck ==
  LET r == CASE handling.ack < snd.una -> [c |-> snd, again |-> {}]
             [] handling.ack = snd.una -> DupAck(snd, handling.sent)
             [] handling.ack > snd.una -> NewAck(snd, handling.ack)
      ProcessSACK == r.c.sacked \cup (handling.sack \cap Unacked(r.c)) IN
  /\ open /\ handling.busy
  /\ snd' = [r.c EXCEPT !.sacked = ProcessSACK]
  /\ data' = data \o SetToSeq(r.again)
  /\ handling' = Idle
  /\ UNCHANGED <<left, sendSeq, open, acks, rcv, ooo>>

----------------------------------------------------------------------------
(* retransmitUnacked.                                                      *)

(* A SACKed segment at the head was not delivered: forget the marks.       *)
Marks(c) == IF c.una + 1 \in c.sacked THEN {} ELSE c.sacked

Quiet == data = <<>> /\ acks = <<>> /\ ~handling.busy

retransmitUnacked ==
  LET c == [snd EXCEPT !.sacked = Marks(snd)]
      missing == Unacked(c) \ c.sacked IN
  \E x \in missing :
    /\ open
    /\ IF Quiet THEN (\A y \in missing : x <= y) /\ UNCHANGED left ELSE Spend("early")
    /\ IF c.tries[x] >= MaxRetxAttempts
       THEN /\ open' = FALSE /\ snd' = c
            /\ UNCHANGED data
       ELSE /\ snd' = [c EXCEPT !.ssthresh = Halved(c), !.win = Mss, !.inRecovery = TRUE, !.point = sendSeq,
                                !.fast = FALSE, !.dup = 0, !.tries[x] = @ + 1]
            /\ data' = Append(data, x)
            /\ UNCHANGED open
    /\ UNCHANGED <<sendSeq, handling, acks, rcv, ooo>>

----------------------------------------------------------------------------
(* The path, and the receiver at the other end.                            *)

LoseData == /\ data # <<>> /\ Filled /\ Spend("data")
            /\ data' = Tail(data)
            /\ UNCHANGED <<snd, sendSeq, open, handling, acks, rcv, ooo>>
LoseAck == /\ acks # <<>> /\ Spend("ack")
           /\ acks' = Tail(acks)
           /\ UNCHANGED <<snd, sendSeq, open, handling, data, rcv, ooo>>

(* What is delivered once x is: x and what follows it without a gap.       *)
Upto(x) == Max({y \in x .. Data : (x + 1) .. y \subseteq ooo})

(* DeliverInOrder: a segment in order is delivered with what follows it in *)
(* the reorder buffer.  When the application does not read, delivery stops *)
(* on the way: the rest stays parked in the buffer, its first segment      *)
(* delivered only when it comes again, and the segment itself is dropped.  *)
DeliverInOrder ==
  LET x == Head(data) IN
  /\ data # <<>> /\ Len(acks) < AckPath /\ Filled
  /\ data' = Tail(data)
  /\ \/ /\ x = rcv + 1
        /\ rcv' = Upto(x) /\ ooo' = ooo \ (1 .. Upto(x))
        /\ UNCHANGED left
     \/ /\ x = rcv + 1 /\ Spend("park")
        /\ \E y \in rcv .. Upto(x) - 1 : rcv' = y /\ ooo' = ooo \ (1 .. y)
     \/ /\ x # rcv + 1
        /\ ooo' = IF x > rcv /\ Cardinality(ooo) < Room THEN ooo \cup {x} ELSE ooo
        /\ UNCHANGED <<rcv, left>>
  /\ acks' = Append(acks, [ack |-> rcv', sack |-> ooo'])
  /\ UNCHANGED <<snd, sendSeq, open, handling>>

----------------------------------------------------------------------------

Next ==
  /\ UNCHANGED sc
  /\ \/ sendSegment \/ AckArrives \/ ProcessAck \/ retransmitUnacked
     \/ LoseData \/ LoseAck \/ DeliverInOrder

Spec == Init /\ [][Next]_vars

----------------------------------------------------------------------------

TypeOK ==
  /\ sendSeq \in 0 .. Data /\ rcv \in 0 .. sendSeq /\ ooo \subseteq 1 .. sendSeq
  /\ open \in BOOLEAN
  /\ snd.una \in 0 .. rcv /\ snd.sacked \subseteq Unacked(snd)
  /\ \A x \in 1 .. Data : snd.tries[x] \in 1 .. MaxRetxAttempts

(* Whatever halvings, deflations and timeouts follow each other, the       *)
(* window never falls below one MaxSegmentSize nor ssthresh below two, and *)
(* neither passes its cap.                                                 *)
WindowKept ==
  /\ snd.win \in Mss .. MaxCongWin
  /\ snd.ssthresh \in (2 * Mss) .. MaxCongWin

(* A recovery has an end: its point is data that is out and not yet        *)
(* acknowledged, and fast recovery is part of a recovery.                  *)
RecoveryHasEnd ==
  /\ snd.inRecovery => snd.una < snd.point /\ snd.point <= sendSeq
  /\ snd.fast => snd.inRecovery

(* Fast recovery does not add to the congestion it answers: as long as the *)
(* hole stays open, no more is in the network than when the loss was seen, *)
(* or than the halved window.  (After a timeout that fired early the peer  *)
(* answers duplicates, and those ACKs stand for no segment that has left.) *)
RecoveryBacksOff ==
  sc.budgets.early = 0 /\ snd.fast /\ snd.una = snd.hole
    => BytesInFlight(snd) <= Max({snd.ssthresh, snd.seen})

AllAcked == open /\ snd.una = Data

(* Once the path stops losing segments everything is acknowledged, parked  *)
(* segments included, and the connection is not given up.                  *)
Completes == []<>AllAcked

=============================================================================
