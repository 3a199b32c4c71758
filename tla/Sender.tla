------------------------------- MODULE Sender -------------------------------
(***************************************************************************)
(* The write side of one connection (pkg/daemon/daemon.go): SendData feeds *)
(* a write in pieces through the Nagle buffer, flushNagle cuts it into     *)
(* segments, sendSegment waits for the window, flushHeldTail sends a short *)
(* remainder later, and CloseConnection sends it before the FIN.           *)
(*                                                                         *)
(* Bytes are numbered in the order the writes are taken.  The peer is the  *)
(* ACKs and SACKs it sends; what it makes of the segments is in Stream.    *)
(***************************************************************************)
EXTENDS Naturals, Sequences, FiniteSets, Functions

CONSTANTS
  Writer,     \* goroutines that write
  Flusher,    \* names for the flushHeldTail goroutines
  Seg,        \* SendSegmentSize
  Piece,      \* nagleWritePiece
  MaxBuf,     \* MaxNagleBuf
  Slots,      \* the peer's window, in segments
  CongWin,    \* the congestion window, in bytes
  Probes,     \* MaxZeroWindowProbes
  Scenarios   \* [writes, budgets]

VARIABLES
  sc, left,
  state,         \* the connection's State
  removed,       \* RetxStop is closed
  buf,        \* NagleBuf
  count,      \* bytes taken from writers
  writeMu, sendMu,   \* who holds WriteMu, SendMu
  tailFlusher, nagleCh, windowCh,
  unacked,    \* the segments in flight: [n, sacked]
  wire,       \* the bytes sent, in sequence
  wr,         \* the writers
  fl,         \* the flushHeldTail goroutines
  closer,     \* where CloseConnection stands
  fin         \* what was written and sent when the FIN took its number,
              \* and whether a write was under way during the close

senderVars == <<state, removed, buf, count, writeMu, sendMu, tailFlusher, nagleCh, windowCh, unacked, wire, wr, fl, closer, fin>>
vars == <<sc, left, senderVars>>

Nobody == "nobody"
Locks == <<writeMu, sendMu>>
Peer == <<nagleCh, windowCh, unacked>>
Out == <<nagleCh, windowCh, unacked, wire>>
Conn == <<state, removed, closer, fin>>

Spend(k) == left[k] > 0 /\ left' = [left EXCEPT ![k] = @ - 1]
Free == UNCHANGED left
Smaller(a, b) == IF a < b THEN a ELSE b
SetW(w, r) == wr' = [wr EXCEPT ![w] = r]
SetF(f, r) == fl' = [fl EXCEPT ![f] = r]
At(w, pc) == wr[w].pc = pc
FAt(f, pc) == fl[f].pc = pc
Asleep == [pc |-> "off", force |-> FALSE, seg |-> <<>>]

Init ==
  /\ sc \in Scenarios
  /\ left = sc.budgets
  /\ state = "est" /\ removed = FALSE
  /\ buf = <<>> /\ count = 0
  /\ writeMu = Nobody /\ sendMu = Nobody
  /\ tailFlusher = FALSE /\ nagleCh = FALSE /\ windowCh = FALSE
  /\ unacked = <<>> /\ wire = <<>>
  /\ wr = [w \in Writer |-> [pc |-> "idle", todo |-> sc.writes[w], cur |-> 0, tailNow |-> FALSE,
                             seg |-> <<>>, last |-> FALSE, probes |-> 0,
                             refused |-> FALSE, gaveUp |-> FALSE]]
  /\ fl = [f \in Flusher |-> Asleep]
  /\ closer = "off"
  /\ fin = [done |-> FALSE, busy |-> FALSE, sent |-> 0, taken |-> 0]

----------------------------------------------------------------------------
(* ports.go: Nagle's rule, the window, and what reaches the wire.          *)

(* A short remainder waits while an earlier short segment is in flight.    *)
nagleHoldsTail(u) == \E i \in DOMAIN u : ~u[i].sacked /\ u[i].n < Seg

WindowAvailable(u) ==
  /\ Len(u) < Slots
  /\ FoldFunction(LAMBDA e, sum : sum + (IF e.sacked THEN 0 ELSE e.n), 0, u) < CongWin

(* transmitSegment: sequence number, TrackSend, Send.  A failed Send does  *)
(* not lose the segment.                                                   *)
transmitSegment(seg) ==
  /\ wire' = wire \o seg
  /\ unacked' = Append(unacked, [n |-> Len(seg), sacked |-> FALSE])

(* ProcessAck of a new ACK, the first k segments in flight.                *)
ProcessAck ==
  \E k \in DOMAIN unacked :
    /\ ~removed
    /\ unacked' = SubSeq(unacked, k + 1, Len(unacked))
    /\ windowCh' = TRUE
    /\ nagleCh' = (nagleCh \/ ~nagleHoldsTail(unacked'))
    /\ Free
    /\ UNCHANGED <<state, removed, buf, count, Locks, tailFlusher, wire, wr, fl, closer, fin>>

ProcessSACK ==
  \E k \in DOMAIN unacked \ {1} :
    /\ ~removed /\ ~unacked[k].sacked
    /\ Spend("sack")
    /\ unacked' = [unacked EXCEPT ![k].sacked = TRUE]
    /\ windowCh' = (windowCh \/ WindowAvailable(unacked'))
    /\ nagleCh' = (nagleCh \/ ~nagleHoldsTail(unacked'))
    /\ UNCHANGED <<state, removed, buf, count, Locks, tailFlusher, wire, wr, fl, closer, fin>>

----------------------------------------------------------------------------
(* SendData.                                                               *)

Returns(w) == SetW(w, [wr[w] EXCEPT !.pc = "idle", !.cur = 0, !.seg = <<>>]) /\ writeMu' = Nobody

(* The write ends with ErrConnClosed, and the segment in hand with it.     *)
GivesUp(w) ==
  /\ SetW(w, [wr[w] EXCEPT !.pc = "idle", !.cur = 0, !.seg = <<>>, !.gaveUp = TRUE])
  /\ writeMu' = Nobody /\ sendMu' = Nobody

(* The checks on both sides of WriteMu.                                    *)
SendData(w) ==
  /\ At(w, "idle") /\ wr[w].todo # <<>>
  /\ \/ /\ state # "est"
        /\ SetW(w, [wr[w] EXCEPT !.todo = Tail(wr[w].todo)]) /\ UNCHANGED <<writeMu, fin>>
     \/ /\ state = "est" /\ writeMu = Nobody
        /\ writeMu' = w
        /\ SetW(w, [wr[w] EXCEPT !.pc = "piece", !.cur = Head(wr[w].todo), !.todo = Tail(wr[w].todo),
                    !.tailNow = Head(wr[w].todo) >= Seg])
        /\ fin' = [fin EXCEPT !.busy = @ \/ closer # "off"]
  /\ Free
  /\ UNCHANGED <<state, removed, closer, buf, count, sendMu, tailFlusher, Out, fl>>

(* sendDataPiece: the piece joins the buffer, or the write is refused.     *)
sendDataPiece(w) ==
  LET n == Smaller(wr[w].cur, Piece) IN
  /\ At(w, "piece")
  /\ IF Len(buf) + n > MaxBuf
     THEN /\ writeMu' = Nobody
          /\ SetW(w, [wr[w] EXCEPT !.pc = "idle", !.cur = 0, !.refused = TRUE])
          /\ UNCHANGED <<buf, count>>
     ELSE /\ buf' = buf \o [i \in 1 .. n |-> count + i]
          /\ count' = count + n
          /\ SetW(w, [wr[w] EXCEPT !.pc = "lock", !.cur = wr[w].cur - n])
          /\ UNCHANGED writeMu
  /\ Free
  /\ UNCHANGED <<sendMu, tailFlusher, Out, fl, Conn>>

FlushLocks_NoLock(w) ==
  /\ At(w, "lock")
  /\ SetW(w, [wr[w] EXCEPT !.pc = "look"])
  /\ Free
  /\ UNCHANGED <<buf, count, Locks, tailFlusher, Out, fl, Conn>>

(* flushNagle takes SendMu.                                                *)
FlushLocks(w) ==
  /\ At(w, "lock") /\ sendMu = Nobody
  /\ sendMu' = w
  /\ SetW(w, [wr[w] EXCEPT !.pc = "look"])
  /\ Free
  /\ UNCHANGED <<buf, count, writeMu, tailFlusher, Out, fl, Conn>>

(* go d.flushHeldTail, unless one runs already.                            *)
StartsFlusher ==
  IF tailFlusher THEN UNCHANGED <<tailFlusher, fl>>
  ELSE /\ tailFlusher' = TRUE
       /\ \E f \in Flusher : FAt(f, "off") /\ SetF(f, [fl[f] EXCEPT !.pc = "sleep", !.force = FALSE])

(* One turn of flushNagle's loop, for a writer.                            *)
flushNagle(w) ==
  /\ At(w, "look")
  /\ \/ /\ buf = <<>>
        /\ sendMu' = Nobody /\ SetW(w, [wr[w] EXCEPT !.pc = "flushed"])
        /\ UNCHANGED <<buf, tailFlusher, fl>>
     \/ /\ Len(buf) >= Seg
        /\ SetW(w, [wr[w] EXCEPT !.pc = "window", !.seg = SubSeq(buf, 1, Seg), !.last = FALSE, !.probes = 0])
        /\ buf' = SubSeq(buf, Seg + 1, Len(buf))
        /\ UNCHANGED <<sendMu, tailFlusher, fl>>
     \/ /\ Len(buf) \in 1 .. Seg - 1 /\ ~wr[w].tailNow /\ nagleHoldsTail(unacked)
        /\ StartsFlusher
        /\ sendMu' = Nobody /\ SetW(w, [wr[w] EXCEPT !.pc = "flushed"])
        /\ UNCHANGED buf
     \/ /\ Len(buf) \in 1 .. Seg - 1 /\ (wr[w].tailNow \/ ~nagleHoldsTail(unacked))
        /\ SetW(w, [wr[w] EXCEPT !.pc = "window", !.seg = buf, !.last = TRUE, !.probes = 0])
        /\ buf' = <<>>
        /\ UNCHANGED <<sendMu, tailFlusher, fl>>
  /\ Free
  /\ UNCHANGED <<count, writeMu, Out, Conn>>

(* sendSegment: the window is open, or the writer waits for WindowCh, for  *)
(* the probe timer or for the connection's removal.                        *)
sendSegment(w) ==
  /\ At(w, "window")
  /\ IF WindowAvailable(unacked)
     THEN /\ transmitSegment(wr[w].seg)
          /\ \/ /\ Free
                /\ IF wr[w].last THEN SetW(w, [wr[w] EXCEPT !.pc = "flushed"]) /\ sendMu' = Nobody
                   ELSE SetW(w, [wr[w] EXCEPT !.pc = "look"]) /\ UNCHANGED sendMu
             \/ /\ Spend("err")
                /\ SetW(w, [wr[w] EXCEPT !.pc = "failed"]) /\ sendMu' = Nobody
     ELSE /\ SetW(w, [wr[w] EXCEPT !.pc = "wait"])
          /\ Free
          /\ UNCHANGED <<unacked, wire, sendMu>>
  /\ UNCHANGED <<buf, count, writeMu, tailFlusher, nagleCh, windowCh, fl, Conn>>

WaitsForWindow(w) ==
  /\ At(w, "wait")
  /\ \/ /\ windowCh /\ windowCh' = FALSE
        /\ SetW(w, [wr[w] EXCEPT !.pc = "window", !.probes = 0])
        /\ UNCHANGED <<Locks, state>>
     \/ /\ removed /\ GivesUp(w)
        /\ UNCHANGED <<windowCh, state>>
     \/ /\ wr[w].probes + 1 < Probes
        /\ SetW(w, [wr[w] EXCEPT !.pc = "window", !.probes = wr[w].probes + 1])
        /\ UNCHANGED <<Locks, windowCh, state>>
     \/ /\ wr[w].probes + 1 >= Probes
        /\ state' = "closed" /\ GivesUp(w)
        /\ UNCHANGED windowCh
  /\ Free
  /\ UNCHANGED <<removed, buf, count, tailFlusher, nagleCh, unacked, wire, fl, closer, fin>>

(* The segment is tracked and will be resent: the write goes on.           *)
drainAfterSendError(w) ==
  /\ At(w, "failed")
  /\ IF state = "est" THEN SetW(w, [wr[w] EXCEPT !.pc = "lock"]) /\ UNCHANGED writeMu ELSE Returns(w)
  /\ Free
  /\ UNCHANGED <<buf, count, sendMu, tailFlusher, Out, fl, Conn>>

(* After a piece: the next one, if the connection is still open.           *)
PieceDone(w) ==
  /\ At(w, "flushed")
  /\ IF wr[w].cur > 0 /\ state = "est" THEN SetW(w, [wr[w] EXCEPT !.pc = "piece"]) /\ UNCHANGED writeMu
     ELSE Returns(w)
  /\ Free
  /\ UNCHANGED <<buf, count, sendMu, tailFlusher, Out, fl, Conn>>

----------------------------------------------------------------------------
(* flushHeldTail.                                                          *)

(* A writer that waits for SendMu has it, once free, before another        *)
(* NagleTimeout is over.                                                   *)
WriterNext == sendMu = Nobody /\ \E w \in Writer : At(w, "lock")

FlusherWakes(f) ==
  /\ FAt(f, "sleep")
  /\ \/ /\ nagleCh /\ nagleCh' = FALSE
        /\ SetF(f, [fl[f] EXCEPT !.pc = "lock"]) /\ UNCHANGED tailFlusher
     \/ /\ ~WriterNext
        /\ SetF(f, [fl[f] EXCEPT !.pc = "lock", !.force = TRUE])
        /\ UNCHANGED <<nagleCh, tailFlusher>>
     \/ /\ removed /\ tailFlusher' = FALSE
        /\ SetF(f, Asleep) /\ UNCHANGED nagleCh
  /\ Free
  /\ UNCHANGED <<buf, count, Locks, windowCh, unacked, wire, wr, Conn>>

FlusherLocks(f) ==
  /\ FAt(f, "lock") /\ sendMu = Nobody
  /\ sendMu' = f
  /\ SetF(f, [fl[f] EXCEPT !.pc = "look"])
  /\ Free
  /\ UNCHANGED <<buf, count, writeMu, tailFlusher, Out, wr, Conn>>

(* flushNagle for the flusher: only a remainder, and no wait.              *)
FlusherLooks(f) ==
  /\ FAt(f, "look")
  /\ \/ /\ buf = <<>>
        /\ tailFlusher' = FALSE /\ sendMu' = Nobody
        /\ SetF(f, Asleep) /\ UNCHANGED buf
     \/ /\ Len(buf) >= Seg \/ (buf # <<>> /\ ~fl[f].force /\ nagleHoldsTail(unacked))
        /\ sendMu' = Nobody
        /\ SetF(f, [fl[f] EXCEPT !.pc = "sleep"]) /\ UNCHANGED <<buf, tailFlusher>>
     \/ /\ Len(buf) \in 1 .. Seg - 1 /\ (fl[f].force \/ ~nagleHoldsTail(unacked))
        /\ tailFlusher' = FALSE /\ buf' = <<>>
        /\ SetF(f, [fl[f] EXCEPT !.pc = "send", !.seg = buf]) /\ UNCHANGED sendMu
  /\ Free
  /\ UNCHANGED <<count, writeMu, Out, wr, Conn>>

FlusherSends(f) ==
  /\ FAt(f, "send")
  /\ transmitSegment(fl[f].seg)
  /\ sendMu' = IF sendMu = f THEN Nobody ELSE sendMu
  /\ SetF(f, Asleep)
  /\ Free
  /\ UNCHANGED <<buf, count, writeMu, tailFlusher, nagleCh, windowCh, wr, Conn>>

----------------------------------------------------------------------------
(* CloseConnection, and the removal of the connection some time after it.  *)

Close ==
  /\ closer = "off" /\ state = "est"
  /\ Spend("close")
  /\ closer' = "tail"
  /\ fin' = [fin EXCEPT !.busy = \E w \in Writer : ~At(w, "idle")]
  /\ UNCHANGED <<state, removed, buf, count, Locks, tailFlusher, Out, wr, fl>>

(* The bytes cut into segments.                                            *)
Cut(b) == [i \in 1 .. (Len(b) + Seg - 1) \div Seg |->
             [n |-> Smaller(Seg, Len(b) - (i - 1) * Seg), sacked |-> FALSE]]

(* Whether the close goes ahead without SendMu: a writer that waits for    *)
(* the window holds it too long; a flusher only for an instant.            *)
sendHeldTailBeforeClose(x) == sendMu \in Writer

CloseSendsTail ==
  /\ closer = "tail"
  /\ \/ /\ state = "est" /\ sendMu = Nobody
        /\ wire' = wire \o buf /\ unacked' = unacked \o Cut(buf) /\ buf' = <<>>
     \/ /\ state # "est" \/ sendHeldTailBeforeClose(closer)
        /\ UNCHANGED <<wire, unacked, buf>>
  /\ closer' = "fin"
  /\ Free
  /\ UNCHANGED <<state, removed, count, Locks, tailFlusher, nagleCh, windowCh, wr, fl, fin>>

(* The FIN takes its sequence number.                                      *)
CloseConnection ==
  /\ closer = "fin"
  /\ fin' = IF state = "est" THEN [fin EXCEPT !.done = TRUE, !.sent = Len(wire), !.taken = count]
            ELSE fin
  /\ state' = "finwait" /\ closer' = "done"
  /\ Free
  /\ UNCHANGED <<removed, buf, count, Locks, tailFlusher, Out, wr, fl>>

(* retxLoop or the sweep removes the connection.                           *)
RemoveConnection ==
  /\ state # "est" /\ closer \in {"off", "done"} /\ ~removed
  /\ removed' = TRUE /\ state' = "closed"
  /\ Free
  /\ UNCHANGED <<buf, count, Locks, tailFlusher, Out, wr, fl, closer, fin>>

----------------------------------------------------------------------------

WriterStep(w) ==
  \/ SendData(w) \/ sendDataPiece(w) \/ FlushLocks(w) \/ flushNagle(w) \/ sendSegment(w)
  \/ WaitsForWindow(w) \/ drainAfterSendError(w) \/ PieceDone(w)

FlusherStep(f) == FlusherWakes(f) \/ FlusherLocks(f) \/ FlusherLooks(f) \/ FlusherSends(f)

Next ==
  /\ UNCHANGED sc
  /\ \/ ProcessAck \/ ProcessSACK \/ Close \/ CloseSendsTail \/ CloseConnection \/ RemoveConnection
     \/ \E w \in Writer : WriterStep(w)
     \/ \E f \in Flusher : FlusherStep(f)

Spec == Init /\ [][Next]_vars

----------------------------------------------------------------------------

TypeOK ==
  /\ state \in {"est", "finwait", "closed"} /\ closer \in {"off", "tail", "fin", "done"}
  /\ {removed, tailFlusher, nagleCh, windowCh} \subseteq BOOLEAN
  /\ {buf, wire} \subseteq Seq(1 .. count)
  /\ writeMu \in Writer \cup {Nobody} /\ sendMu \in Writer \cup Flusher \cup {Nobody}
  /\ unacked \in Seq([n : 1 .. Seg, sacked : BOOLEAN])
  /\ fl \in [Flusher -> [pc : {"off", "sleep", "lock", "look", "send"}, force : BOOLEAN, seg : Seq(1 .. count)]]

(* Bytes go on the wire in the order they were written, whichever of the   *)
(* writers, the flusher and the closer sends them, and whatever fails; and *)
(* none is left out unless a write has given up with ErrConnClosed (the    *)
(* flusher may still send a remainder after that).                         *)
SentInOrder ==
  /\ \A i, j \in DOMAIN wire : i < j => wire[i] < wire[j]
  /\ (\A w \in Writer : ~wr[w].gaveUp) => \A i \in DOMAIN wire : wire[i] = i

(* A write is never refused with ErrSendBufFull: the buffer holds at most  *)
(* a held remainder and one piece.                                         *)
NeverRefused == \A w \in Writer : ~wr[w].refused

(* With no write under way, a close sends all that was written, a held     *)
(* remainder included, before the FIN takes its place in the stream.       *)
FinAfterData == fin.done => fin.busy \/ fin.sent = fin.taken

(* All of these: what the sender promises the stream it feeds.             *)
SenderSound == TypeOK /\ SentInOrder /\ NeverRefused /\ FinAfterData

Quiet == /\ \A w \in Writer : At(w, "idle") /\ wr[w].todo = <<>>
         /\ \A f \in Flusher : FAt(f, "off")
         /\ buf = <<>> \/ state # "est"

(* Every write returns, and no remainder stays in the buffer for ever, be  *)
(* the peer silent or not.                                                 *)
NothingStays == []<>Quiet

=============================================================================
