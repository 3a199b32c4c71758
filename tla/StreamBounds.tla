---------------------------- MODULE StreamBounds ----------------------------
(***************************************************************************)
(* Two limits of Stream, by counting, for every value of the constants:    *)
(* how many FIN-ACKs a connection sends, and how much room the reorder     *)
(* buffer needs.                                                           *)
(***************************************************************************)
EXTENDS StreamProofs, FiniteSetTheorems

-----------------------------------------------------------------------------
(* FIN-ACKs.  A connection answers a FIN when it enters TIME_WAIT; what    *)
(* takes it out again happens a bounded number of times: a closer ends     *)
(* once, the write that was under way is aborted once, and the connection  *)
(* leaves the table once.                                                  *)

Done(e) == {c \in Closer : cl[e][c].pc = "done"}
AnswerDue(e) == IF st[e] = "TimeWait" THEN 0 ELSE 1
WriteOver(e) == IF wr[e] \/ st[e] = "Established" THEN 0 ELSE 1
Gone(e) == IF up[e] THEN 0 ELSE 1

StormInv ==
  \A e \in Endpoint :
    finAcks[e] + AnswerDue(e) <= 1 + Cardinality(Done(e)) + WriteOver(e) + Gone(e)

Forward(e) ==
  /\ \A c \in Closer : cl[e][c].pc = "done" => cl'[e][c].pc = "done"
  /\ up'[e] => up[e]
  /\ wr'[e] \/ st'[e] = "Established" => wr[e] \/ st[e] = "Established"

Answers(e) == finAcks'[e] = finAcks[e] + 1 /\ st[e] # "TimeWait" /\ st'[e] = "TimeWait"
Rests(e) == finAcks'[e] = finAcks[e] /\ (st[e] # "TimeWait" \/ st'[e] = "TimeWait")
Leaves(e) ==
  /\ finAcks'[e] = finAcks[e] /\ st'[e] # "Established"
  /\ \/ up[e] /\ ~up'[e]
     \/ wr[e] /\ ~wr'[e]
     \/ \E c \in Closer : cl[e][c].pc # "done" /\ cl'[e][c].pc = "done"

AnswerStep(e) == Forward(e) /\ (Answers(e) \/ Rests(e) \/ Leaves(e))

(* A step that names no prover is left to Zenon.                           *)
USE Zenon

(* The types of what is counted.                                           *)
LEMMA AnswerTypes ==
  ASSUME TypeOK
  PROVE  /\ finAcks \in [Endpoint -> Nat] /\ st \in [Endpoint -> State]
         /\ up \in [Endpoint -> BOOLEAN] /\ wr \in [Endpoint -> BOOLEAN]
         /\ cl \in [Endpoint -> [Closer ->
              [pc : {"idle", "hold", "send", "release", "fin", "shut", "wait", "done"},
               fin : Nat]]]
BY DEF TypeOK

(* acceptFIN answers once, or not in TIME_WAIT.                            *)
LEMMA AcceptAnswers ==
  ASSUME TypeOK, NEW e \in Endpoint, AcceptFIN(e), UNCHANGED <<up, wr, cl>>, NEW f \in Endpoint
  PROVE  AnswerStep(f)
<1>1. st' = [st EXCEPT ![e] = "TimeWait"]
  BY DEF AcceptFIN
<1>2. CASE st[e] = "TimeWait"
  <2>1. finAcks' = [finAcks EXCEPT ![e] = @]
    BY <1>2 DEF AcceptFIN
  <2> QED BY <1>1, <1>2, <2>1, AnswerTypes DEF AnswerStep, Forward, Rests
<1>3. CASE st[e] # "TimeWait"
  <2>1. finAcks' = [finAcks EXCEPT ![e] = @ + 1]
    BY <1>3 DEF AcceptFIN
  <2>2. CASE f = e
    BY <1>1, <1>3, <2>1, <2>2, AnswerTypes DEF AnswerStep, Forward, Answers
  <2>3. CASE f # e
    BY <1>1, <1>3, <2>1, <2>3, AnswerTypes DEF AnswerStep, Forward, Rests
  <2> QED BY <2>2, <2>3
<1> QED BY <1>2, <1>3

(* A closer that goes on is not one that was done.                         *)
LEMMA GotoKeeps ==
  ASSUME TypeOK, NEW e \in Endpoint, NEW c \in Closer, NEW pc, NEW s,
         Goto(e, c, pc, s), cl[e][c].pc # "done", NEW f \in Endpoint
  PROVE  /\ \A d \in Closer : cl[f][d].pc = "done" => cl'[f][d].pc = "done"
         /\ f = e => cl'[f][c].pc = pc
<1>1. cl' = [cl EXCEPT ![e] = [cl[e] EXCEPT ![c] = [pc |-> pc, fin |-> s]]]
  BY DEF Goto
<1>2. /\ \A g \in Endpoint \ {e} : cl'[g] = cl[g]
      /\ cl'[e] = [cl[e] EXCEPT ![c] = [pc |-> pc, fin |-> s]]
  BY <1>1, AnswerTypes
<1>3. /\ \A d \in Closer \ {c} : cl'[e][d] = cl[e][d]
      /\ cl'[e][c] = [pc |-> pc, fin |-> s]
  BY <1>2, AnswerTypes, SMTT(30)
<1>4. CASE f = e
  <2>1. cl'[f][c].pc = pc
    BY <1>3, <1>4, SMTT(30)
  <2>2. \A d \in Closer : cl[f][d].pc = "done" => d # c
    BY <1>4
  <2>3. \A d \in Closer \ {c} : cl'[f][d].pc = cl[f][d].pc
    BY <1>3, <1>4
  <2> QED BY <2>1, <2>2, <2>3
<1>5. CASE f # e
  <2>1. cl'[f] = cl[f]
    BY <1>2, <1>5
  <2> QED BY <1>5, <2>1
<1> QED BY <1>4, <1>5

(* Every step is one of these.                                             *)
LEMMA AnswerSteps ==
  ASSUME TypeOK, [Next]_vars, NEW f \in Endpoint PROVE AnswerStep(f)
<1>0. ASSUME UNCHANGED <<st, up, wr, finAcks, cl>> PROVE AnswerStep(f)
  BY <1>0 DEF AnswerStep, Forward, Rests
<1>1. ASSUME NEW e \in Endpoint, Writer(e) PROVE AnswerStep(f)
  <2>1. CASE SendData(e)
    BY <1>1, <2>1, AnswerTypes DEF SendData, AnswerStep, Forward, Rests
  <2>2. CASE TransmitSegment(e)
    BY <1>1, <2>2, AnswerTypes DEF TransmitSegment, AnswerStep, Forward, Rests
  <2>3. CASE WriteAborted(e)
    BY <1>1, <2>3, AnswerTypes DEF WriteAborted, AnswerStep, Forward, Rests
  <2>4. CASE ProbeLimit(e)
    BY <1>1, <2>4, AnswerTypes DEF ProbeLimit, AnswerStep, Forward, Rests, Leaves
  <2> QED BY <1>1, <2>1, <2>2, <2>3, <2>4 DEF Writer
<1>2. ASSUME NEW e \in Endpoint, Timers(e) PROVE AnswerStep(f)
  <2>1. CASE SendDelayedACK(e) \/ ExpireHeldFIN(e) \/ Linger(e)
    BY <1>0, <2>1 DEF SendDelayedACK, ExpireHeldFIN, Linger, sendVars
  <2>2. CASE HoldTimerAccepts(e)
    BY <1>2, <2>2, AcceptAnswers DEF HoldTimerAccepts
  <2> QED BY <1>2, <2>1, <2>2 DEF Timers
<1>3. ASSUME NEW e \in Endpoint, PacketLoop(e) PROVE AnswerStep(f)
  <2>1. ASSUME NEW p \in net, RecvSeg(e, p) \/ RecvAck(e, p) \/ RecvFin(e, p)
        PROVE  AnswerStep(f)
    BY <1>0, <2>1 DEF RecvSeg, RecvAck, RecvFin, sendVars
  <2>2. ASSUME NEW p \in net, up[e], RecvRst(e, p) PROVE AnswerStep(f)
    BY <1>3, <2>2, AnswerTypes DEF RecvRst, Remove, AnswerStep, Forward, Rests, Leaves, sendVars
  <2>3. CASE HandlePacket(e)
    BY <2>1, <2>2, <2>3 DEF HandlePacket
  <2>4. CASE Push(e) \/ Commit(e)
    BY <1>0, <2>4 DEF Push, Commit, sendVars
  <2>5. CASE PacketLoopAccepts(e)
    BY <1>3, <2>5, AcceptAnswers DEF PacketLoopAccepts
  <2> QED BY <1>3, <2>3, <2>4, <2>5 DEF PacketLoop
<1>4. ASSUME NEW e \in Endpoint, RetxLoop(e) PROVE AnswerStep(f)
  <2>1. CASE RetxResends(e)
    <3>1. st' = [st EXCEPT ![e] = "Closed"] \/ UNCHANGED st
      BY <2>1 DEF RetxResends, RetransmitUnacked
    <3>2. st[e] # "TimeWait" /\ UNCHANGED <<up, wr, finAcks, cl>>
      BY <2>1 DEF RetxResends
    <3> QED BY <1>0, <1>4, <3>1, <3>2, AnswerTypes DEF AnswerStep, Forward, Rests
  <2>2. CASE RetxExits(e) \/ RetxCleansUp(e)
    BY <1>4, <2>2, AnswerTypes DEF RetxExits, RetxCleansUp, Remove, AnswerStep, Forward, Rests, sendVars
  <2> QED BY <1>4, <2>1, <2>2 DEF RetxLoop
<1>5. ASSUME NEW e \in Endpoint, Probe(e) \/ Read(e) \/ Reap(e) PROVE AnswerStep(f)
  BY <1>5, AnswerTypes DEF Probe, Read, Reap, Remove, AnswerStep, Forward, Rests, sendVars
<1>6. ASSUME NEW e \in Endpoint, Stop(e) PROVE AnswerStep(f)
  BY <1>6, AnswerTypes DEF Stop, Remove, AnswerStep, Forward, Rests, Leaves
<1>7. ASSUME NEW e \in Endpoint, NEW c \in Closer, Close(e, c) PROVE AnswerStep(f)
  <2>1. /\ \A d \in Closer : cl[f][d].pc = "done" => cl'[f][d].pc = "done"
        /\ UNCHANGED <<up, wr, finAcks>>
    <3>1. cl[e][c].pc \in {"idle", "hold", "send", "fin", "release", "shut", "wait"}
      BY <1>7 DEF Close, CloseBegins, CloseReserves, CloseSends, CloseShuts, CloseEnds, At
    <3>2. \A d \in Closer : cl[f][d].pc = "done" => cl'[f][d].pc = "done"
      <4>1. cl[e][c].pc # "done"
        BY <3>1
      <4>2. \E pc, s : Goto(e, c, pc, s)
        <5>1. CASE CloseBegins(e, c)
          BY <5>1 DEF CloseBegins
        <5>2. CASE CloseReserves(e, c)
          BY <5>2 DEF CloseReserves
        <5>3. CASE CloseSends(e, c)
          BY <5>3 DEF CloseSends
        <5>4. CASE CloseShuts(e, c)
          BY <5>4 DEF CloseShuts
        <5>5. CASE CloseEnds(e, c)
          BY <5>5 DEF CloseEnds
        <5> QED BY <1>7, <5>1, <5>2, <5>3, <5>4, <5>5 DEF Close
      <4> QED BY <1>7, <4>1, <4>2, GotoKeeps
    <3>3. UNCHANGED <<up, wr, finAcks>>
      BY <1>7 DEF Close, CloseBegins, CloseReserves, CloseSends, CloseShuts, CloseEnds, sendVars
    <3> QED BY <3>2, <3>3
  <2>2. CASE CloseEnds(e, c)
    <3>1. st' = [st EXCEPT ![e] = "FinWait"]
      BY <2>2 DEF CloseEnds
    <3>2. cl[e][c].pc # "done" /\ (f = e => cl'[f][c].pc = "done")
      BY <1>7, <2>2, GotoKeeps, SMTT(30) DEF CloseEnds, At
    <3> QED BY <1>7, <2>1, <3>1, <3>2, AnswerTypes DEF AnswerStep, Forward, Rests, Leaves
  <2>3. CASE CloseBegins(e, c) \/ CloseReserves(e, c) \/ CloseSends(e, c) \/ CloseShuts(e, c)
    <3>1. UNCHANGED st
      BY <2>3 DEF CloseBegins, CloseReserves, CloseSends, CloseShuts
    <3> QED BY <2>1, <3>1 DEF AnswerStep, Forward, Rests
  <2> QED BY <1>7, <2>2, <2>3 DEF Close
<1>8. CASE Lose \/ UNCHANGED vars
  BY <1>0, <1>8 DEF Lose, vars, sendVars
<1> QED
  BY <1>1, <1>2, <1>3, <1>4, <1>5, <1>6, <1>7, <1>8, SMTT(30) DEF Next

(* The count is kept.                                                      *)
LEMMA StormInvNext ==
  ASSUME TypeOK, TypeOK', StormInv, [Next]_vars PROVE StormInv'
<1> SUFFICES ASSUME NEW e \in Endpoint
             PROVE  finAcks'[e] + AnswerDue(e)' <= 1 + Cardinality(Done(e)') + WriteOver(e)' + Gone(e)'
  BY DEF StormInv
<1> DEFINE D == Done(e)
           E == Done(e)'
<1>1. AnswerStep(e)
  BY AnswerSteps
<1>2. D \subseteq E /\ E \subseteq Closer
  BY <1>1 DEF AnswerStep, Forward, Done
<1>3. IsFiniteSet(E) /\ IsFiniteSet(D)
  BY <1>2, BoundAssumption, FS_Subset
<1>4. Cardinality(D) \in Nat /\ Cardinality(E) \in Nat /\ Cardinality(D) <= Cardinality(E)
      /\ (D # E => Cardinality(D) # Cardinality(E))
  BY <1>2, <1>3, FS_Subset, FS_CardinalityType
<1>5. finAcks[e] \in Nat /\ finAcks'[e] \in Nat
  BY DEF TypeOK
<1>6. finAcks[e] + AnswerDue(e) <= 1 + Cardinality(D) + WriteOver(e) + Gone(e)
  BY DEF StormInv
<1>7. WriteOver(e) <= WriteOver(e)' /\ Gone(e) <= Gone(e)'
  BY <1>1, SMTT(30) DEF AnswerStep, Forward, WriteOver, Gone
<1>8. /\ WriteOver(e) \in 0 .. 1 /\ WriteOver(e)' \in 0 .. 1 /\ Gone(e) \in 0 .. 1 /\ Gone(e)' \in 0 .. 1
      /\ AnswerDue(e) \in 0 .. 1 /\ AnswerDue(e)' \in 0 .. 1
  BY SMTT(30) DEF WriteOver, Gone, AnswerDue
<1> HIDE DEF D, E
<1>9. CASE Answers(e)
  <2>1. finAcks'[e] = finAcks[e] + 1 /\ AnswerDue(e) = 1 /\ AnswerDue(e)' = 0
    BY <1>9 DEF Answers, AnswerDue
  <2> QED BY <1>4, <1>5, <1>6, <1>7, <1>8, <2>1, SMTT(30) DEF E
<1>10. CASE Rests(e)
  <2>1. finAcks'[e] = finAcks[e] /\ AnswerDue(e)' <= AnswerDue(e)
    BY <1>10, SMTT(30) DEF Rests, AnswerDue
  <2> QED BY <1>4, <1>5, <1>6, <1>7, <1>8, <2>1, SMTT(30) DEF E
<1>11. CASE Leaves(e)
  <2>1. \/ Gone(e) = 0 /\ Gone(e)' = 1
        \/ WriteOver(e) = 0 /\ WriteOver(e)' = 1
        \/ Cardinality(D) + 1 <= Cardinality(E)
    <3>1. CASE up[e] /\ ~up'[e]
      BY <3>1 DEF Gone
    <3>2. CASE wr[e] /\ ~wr'[e]
      BY <1>11, <3>2 DEF Leaves, WriteOver
    <3>3. CASE \E c \in Closer : cl[e][c].pc # "done" /\ cl'[e][c].pc = "done"
      <4>1. D # E
        BY <3>3 DEF D, E, Done
      <4> QED BY <1>4, <4>1, SMTT(30)
    <3> QED BY <1>11, <3>1, <3>2, <3>3, SMTT(30) DEF Leaves
  <2>2. finAcks'[e] = finAcks[e]
    BY <1>11 DEF Leaves
  <2> QED BY <1>4, <1>5, <1>6, <1>7, <1>8, <2>1, <2>2, SMTT(30) DEF E
<1> QED BY <1>1, <1>9, <1>10, <1>11 DEF AnswerStep

(* FIN-ACKs stay bounded however often the peer's FIN comes, for any       *)
(* number of closers (the wasTimeWait guard of acceptFIN).                 *)
THEOREM FinAcksBounded == Spec => []NoFinAckStorm
<1>1. Init => StormInv
  <2> SUFFICES ASSUME Init, NEW e \in Endpoint
               PROVE  finAcks[e] + AnswerDue(e) <= 1 + Cardinality(Done(e)) + WriteOver(e) + Gone(e)
    BY DEF StormInv
  <2>1. finAcks[e] = 0 /\ AnswerDue(e) = 1 /\ WriteOver(e) = 0 /\ Gone(e) = 0 /\ Done(e) = {}
    BY DEF Init, AnswerDue, WriteOver, Gone, Done
  <2> QED BY <2>1, FS_EmptySet, SMTT(30)
<1>2. TypeOK /\ TypeOK' /\ StormInv /\ [Next]_vars => StormInv'
  BY StormInvNext
<1>3. TypeOK /\ StormInv => NoFinAckStorm
  <2> SUFFICES ASSUME TypeOK, StormInv, NEW e \in Endpoint
               PROVE  finAcks[e] <= 3 + Cardinality(Closer)
    BY DEF NoFinAckStorm
  <2>1. Done(e) \subseteq Closer
    BY DEF Done
  <2>2. /\ Cardinality(Done(e)) <= Cardinality(Closer)
        /\ Cardinality(Done(e)) \in Nat /\ Cardinality(Closer) \in Nat
    BY <2>1, BoundAssumption, FS_Subset, FS_CardinalityType
  <2>3. WriteOver(e) \in 0 .. 1 /\ Gone(e) \in 0 .. 1 /\ AnswerDue(e) \in 0 .. 1 /\ finAcks[e] \in Nat
    BY AnswerTypes, SMTT(30) DEF WriteOver, Gone, AnswerDue
  <2>4. finAcks[e] + AnswerDue(e) <= 1 + Cardinality(Done(e)) + WriteOver(e) + Gone(e)
    BY DEF StormInv
  <2> QED BY <2>2, <2>3, <2>4, SMTT(30)
<1> QED BY <1>1, <1>2, <1>3, TypeCorrect, PTL DEF Spec

-----------------------------------------------------------------------------
(* Room.  A sender keeps an entry for every data segment the receiver may  *)
(* still have to buffer, and of those that waited for the window it keeps  *)
(* at most MaxSegmentsOutstanding.                                         *)

DataSeqs(e) == {u.seq : u \in {w \in unacked[e] : w.val # 0}}
Windowed(e) == {u.seq : u \in {w \in unacked[e] : w.val # 0 /\ w.val \notin Tails[e]}}

(* Segment n of e is on its way to the receiver or in its hands.           *)
Underway(e, n) ==
  \/ \E p \in net : p.kind = "seg" /\ p.to = Peer(e) /\ p.seq = n
  \/ n \in DOMAIN ooo[Peer(e)]
  \/ \E i \in 1 .. Len(rl[Peer(e)].todo) : n = expected[Peer(e)] + i - 1

RoomInv ==
  \A e \in Endpoint :
    /\ IsFiniteSet(unacked[e])
    /\ Cardinality(Windowed(e)) <= MaxSegmentsOutstanding
    /\ \A n \in DOMAIN ooo[e] : n >= expected[e]
    /\ finAcks[e] = 0 =>
         \A n \in Nat : Underway(e, n) /\ n >= lastAck[e] => n \in DataSeqs(e)

(* What a step leaves in a retransmission buffer.                          *)
BufferStep(e) ==
  /\ lastAck[e] <= lastAck'[e]
  /\ IsFiniteSet(unacked[e]) => IsFiniteSet(unacked'[e])
  /\ finAcks'[e] = 0 =>
       finAcks[e] = 0 /\ \A n \in DataSeqs(e) : n >= lastAck'[e] => n \in DataSeqs(e)'

(* The image of a finite set is finite and no larger.                      *)
LEMMA ImageFinite ==
  ASSUME NEW S, IsFiniteSet(S), NEW f, DOMAIN f = S
  PROVE  /\ IsFiniteSet({f[x] : x \in S})
         /\ Cardinality({f[x] : x \in S}) <= Cardinality(S)
<1> DEFINE T == {f[x] : x \in S}
           g == [x \in S |-> f[x]]
<1>1. g \in Surjection(S, T)
  BY DEF Surjection
<1> QED BY <1>1, FS_Surjection

(* SACK marks, retries and FINs change or add finitely many entries.       *)
LEMMA EntriesFinite ==
  ASSUME NEW U, IsFiniteSet(U), NEW S
  PROVE  /\ IsFiniteSet(Mark(U, S)) /\ IsFiniteSet(Forget(U))
         /\ IsFiniteSet({Retried(u) : u \in U}) /\ IsFiniteSet({FinEntry(u) : u \in U})
<1>1. IsFiniteSet(Mark(U, S))
  <2> DEFINE f == [u \in U |-> [u EXCEPT !.sacked = @ \/ u.seq \in S]]
  <2>1. DOMAIN f = U /\ Mark(U, S) = {f[u] : u \in U}
    BY DEF Mark
  <2> HIDE DEF f
  <2>2. IsFiniteSet({f[u] : u \in U})
    BY <2>1, ImageFinite, SMTT(30)
  <2> QED BY <2>1, <2>2
<1>2. IsFiniteSet(Forget(U))
  <2> DEFINE f == [u \in U |-> [u EXCEPT !.sacked = FALSE]]
  <2>1. DOMAIN f = U /\ Forget(U) = {f[u] : u \in U}
    BY DEF Forget
  <2> HIDE DEF f
  <2>2. IsFiniteSet({f[u] : u \in U})
    BY <2>1, ImageFinite, SMTT(30)
  <2> QED BY <2>1, <2>2
<1>3. IsFiniteSet({Retried(u) : u \in U})
  <2> DEFINE f == [u \in U |-> Retried(u)]
  <2>1. DOMAIN f = U /\ {Retried(u) : u \in U} = {f[u] : u \in U}
    OBVIOUS
  <2> HIDE DEF f
  <2>2. IsFiniteSet({f[u] : u \in U})
    BY <2>1, ImageFinite, SMTT(30)
  <2> QED BY <2>1, <2>2
<1>4. IsFiniteSet({FinEntry(u) : u \in U})
  <2> DEFINE f == [u \in U |-> FinEntry(u)]
  <2>1. DOMAIN f = U /\ {FinEntry(u) : u \in U} = {f[u] : u \in U}
    OBVIOUS
  <2> HIDE DEF f
  <2>2. IsFiniteSet({f[u] : u \in U})
    BY <2>1, ImageFinite, SMTT(30)
  <2> QED BY <2>1, <2>2
<1> QED BY <1>1, <1>2, <1>3, <1>4

(* A step that only adds entries, at one end.                              *)
LEMMA BufferGrows ==
  ASSUME TypeOK, UNCHANGED <<lastAck, finAcks>>, NEW e \in Endpoint, NEW F, IsFiniteSet(F),
         unacked' = [unacked EXCEPT ![e] = unacked[e] \cup F], NEW f \in Endpoint
  PROVE  BufferStep(f)
<1>1. unacked'[e] = unacked[e] \cup F /\ \A g \in Endpoint \ {e} : unacked'[g] = unacked[g]
  BY DEF TypeOK
<1>2. unacked[f] \subseteq unacked'[f] /\ (IsFiniteSet(unacked[f]) => IsFiniteSet(unacked'[f]))
  <2>1. IsFiniteSet(unacked[e]) => IsFiniteSet(unacked[e] \cup F)
    BY FS_Union
  <2> QED BY <1>1, <2>1
<1>3. lastAck[f] <= lastAck'[f]
  BY EndTypes, SMTT(30)
<1> QED BY <1>2, <1>3 DEF BufferStep, DataSeqs

(* A step that leaves the buffers alone.                                   *)
LEMMA BufferSame ==
  ASSUME TypeOK, UNCHANGED <<unacked, lastAck>>, NEW f \in Endpoint,
         finAcks'[f] = 0 => finAcks[f] = 0
  PROVE  BufferStep(f)
<1>1. lastAck[f] <= lastAck'[f]
  BY EndTypes, SMTT(30)
<1> QED BY <1>1 DEF BufferStep, DataSeqs

(* Sending FINs adds entries.                                              *)
LEMMA BufferFin ==
  ASSUME TypeOK, NEW e \in Endpoint, NEW F, IsFiniteSet(F), SendFIN(e, F),
         UNCHANGED <<lastAck, finAcks>>, NEW f \in Endpoint
  PROVE  BufferStep(f)
<1>1. IsFiniteSet({FinEntry(s) : s \in F})
  BY EntriesFinite
<1> QED BY <1>1, BufferGrows DEF SendFIN

(* So does releasing a held one.                                           *)
LEMMA BufferRelease ==
  ASSUME TypeOK, NEW e \in Endpoint, ReleaseHeldFIN(e),
         UNCHANGED <<lastAck, finAcks>>, NEW f \in Endpoint
  PROVE  BufferStep(f)
<1>1. IsFiniteSet(IF FinGoes(e) THEN {heldFin[e]} ELSE {})
  BY FS_Singleton, FS_EmptySet
<1> QED BY <1>1, BufferFin DEF ReleaseHeldFIN

(* acceptFIN empties the buffer only when it sends a FIN-ACK.              *)
LEMMA BufferAccept ==
  ASSUME TypeOK, NEW e \in Endpoint, AcceptFIN(e), UNCHANGED lastAck, NEW f \in Endpoint
  PROVE  BufferStep(f)
<1>1. CASE st[e] = "FinWait" /\ f = e
  <2>1. unacked'[e] = {} /\ finAcks'[e] = finAcks[e] + 1 /\ finAcks[e] \in Nat
    BY <1>1 DEF AcceptFIN, TypeOK
  <2>2. lastAck[f] <= lastAck'[f]
    BY EndTypes, SMTT(30)
  <2> QED BY <1>1, <2>1, <2>2, FS_EmptySet, SMTT(30) DEF BufferStep
<1>2. CASE st[e] # "FinWait" \/ f # e
  <2>1. unacked'[f] = unacked[f]
    BY <1>2 DEF AcceptFIN, TypeOK
  <2>2. finAcks'[f] = 0 => finAcks[f] = 0
    BY SMTT(30) DEF AcceptFIN, TypeOK
  <2>3. lastAck[f] <= lastAck'[f]
    BY EndTypes, SMTT(30)
  <2> QED BY <2>1, <2>2, <2>3 DEF BufferStep, DataSeqs
<1> QED BY <1>1, <1>2

(* The entry of a buffer stands for its data in a buffer that holds a      *)
(* changed copy of it.                                                     *)
LEMMA CopiesCount ==
  ASSUME NEW e \in Endpoint, NEW n \in DataSeqs(e),
         \A u \in unacked[e] : u.seq = n =>
            \E w \in unacked'[e] : w.seq = u.seq /\ w.val = u.val
  PROVE  n \in DataSeqs(e)'
BY DEF DataSeqs

(* A number is no larger than itself.                                      *)
LEMMA LeRefl == \A n \in Nat : n <= n
BY SMTT(30)

(* An ACK drops only what lies below it.                                   *)
LEMMA BufferAck ==
  ASSUME TypeOK, NEW e \in Endpoint, NEW p \in net, ProcessAck(e, p), UNCHANGED finAcks,
         NEW f \in Endpoint
  PROVE  BufferStep(f)
<1> DEFINE new  == p.ack > lastAck[e]
           left == IF new THEN {u \in unacked[e] : u.seq >= p.ack} ELSE unacked[e]
           dup  == p.kind = "ack" /\ p.ack = lastAck[e]
           cand == {u \in FirstUnsacked(left) : (new \/ dup) /\ u.tries < MaxRetxAttempts}
           free == heldFin[e] # 0 /\ ~HasData(left)
           fin  == IF free /\ FinGoes(e) THEN {heldFin[e]} ELSE {}
<1>1. PICK fast \in {{}, cand} :
         unacked' = [unacked EXCEPT ![e] =
             Mark((left \ fast) \cup {Retried(u) : u \in fast}
                                \cup {FinEntry(s) : s \in fin}, p.sack)]
  BY ZenonT(60) DEF ProcessAck
<1> DEFINE U == (left \ fast) \cup {Retried(u) : u \in fast} \cup {FinEntry(s) : s \in fin}
<1>2. lastAck' = [lastAck EXCEPT ![e] = IF new THEN p.ack ELSE @]
  BY DEF ProcessAck
<1>3. p.ack \in Nat /\ lastAck[e] \in Nat /\ lastAck[f] \in Nat
  BY PacketFacts, EndTypes
<1>4. lastAck'[e] = (IF new THEN p.ack ELSE lastAck[e]) /\ (f # e => lastAck'[f] = lastAck[f])
  BY <1>2, EndTypes
<1>5. left \subseteq unacked[e] /\ unacked[e] \subseteq Entry /\ fast \subseteq left
  BY DEF TypeOK, FirstUnsacked
<1>6. \A s \in fin : s \in Nat
  BY EndTypes
<1>7. unacked'[e] = Mark(U, p.sack) /\ (f # e => unacked'[f] = unacked[f])
  <2>1. DOMAIN unacked = Endpoint
    BY DEF TypeOK
  <2> HIDE DEF U
  <2> QED BY <1>1, <2>1 DEF U
<1>8. ASSUME NEW u \in unacked[e], u.seq >= lastAck'[e] PROVE u \in left
  <2>1. CASE new
    BY <1>4, <1>8, <2>1
  <2>2. CASE ~new
    BY <2>2
  <2> QED BY <2>1, <2>2
<1>9. IsFiniteSet(fin)
  BY FS_Singleton, FS_EmptySet
<1> HIDE DEF new, left, dup, cand, free, fin
<1>10. U \subseteq Entry
  <2>1. \A u \in fast : Retried(u) \in Entry
    BY <1>5, SMTT(30) DEF Retried, Entry
  <2>2. \A s \in fin : FinEntry(s) \in Entry
    BY <1>6 DEF FinEntry, Entry
  <2> QED BY <1>5, <2>1, <2>2
<1>11. ASSUME NEW u \in left PROVE \E x \in U : x.seq = u.seq /\ x.val = u.val
  <2>1. CASE u \in fast
    <3>1. Retried(u) \in U
      BY <2>1
    <3>2. Retried(u).seq = u.seq /\ Retried(u).val = u.val
      BY <1>5 DEF Retried, Entry
    <3> QED BY <3>1, <3>2
  <2>2. CASE u \notin fast
    BY <2>2
  <2> QED BY <2>1, <2>2
<1>12. IsFiniteSet(unacked[e]) => IsFiniteSet(U)
  <2> SUFFICES ASSUME IsFiniteSet(unacked[e]) PROVE IsFiniteSet(U)
    OBVIOUS
  <2>1. IsFiniteSet(left) /\ IsFiniteSet(fast)
    BY <1>5, FS_Subset
  <2>2. IsFiniteSet(left \ fast)
    BY <2>1, FS_Difference
  <2>3. IsFiniteSet({Retried(u) : u \in fast})
    BY <2>1, EntriesFinite
  <2>4. IsFiniteSet({FinEntry(s) : s \in fin})
    BY <1>9, EntriesFinite
  <2>5. IsFiniteSet((left \ fast) \cup {Retried(u) : u \in fast})
    BY <2>2, <2>3, FS_Union
  <2> QED BY <2>4, <2>5, FS_Union
<1> HIDE DEF U
<1>13. ASSUME NEW x \in U PROVE \E w \in Mark(U, p.sack) : w.seq = x.seq /\ w.val = x.val
  <2> DEFINE w == [x EXCEPT !.sacked = x.sacked \/ x.seq \in p.sack]
  <2>1. w \in Mark(U, p.sack)
    BY DEF Mark
  <2>2. w.seq = x.seq /\ w.val = x.val
    BY <1>10 DEF Entry
  <2> QED BY <2>1, <2>2
<1>14. CASE f = e
  <2>1. lastAck[e] <= lastAck'[e]
    <3>1. CASE new
      <4>1. p.ack > lastAck[e] /\ lastAck'[e] = p.ack
        BY <1>4, <3>1 DEF new
      <4> QED BY <1>3, <4>1, SMTT(30)
    <3>2. CASE ~new
      BY <1>3, <1>4, <3>2, LeRefl
    <3> QED BY <3>1, <3>2
  <2>2. IsFiniteSet(unacked[e]) => IsFiniteSet(unacked'[e])
    BY <1>7, <1>12, EntriesFinite
  <2>3. ASSUME NEW n \in DataSeqs(e), n >= lastAck'[e] PROVE n \in DataSeqs(e)'
    <3>1. \A u \in unacked[e] : u.seq = n => \E w \in unacked'[e] : w.seq = u.seq /\ w.val = u.val
      BY <1>7, <1>8, <1>11, <1>13, <2>3, SMTT(30)
    <3> QED BY <3>1, CopiesCount
  <2> QED BY <1>14, <2>1, <2>2, <2>3, SMTT(30) DEF BufferStep
<1>15. CASE f # e
  <2>1. lastAck'[f] = lastAck[f] /\ unacked'[f] = unacked[f] /\ lastAck[f] <= lastAck'[f]
    BY <1>3, <1>4, <1>7, <1>15, SMTT(30)
  <2> QED BY <2>1 DEF BufferStep, DataSeqs
<1> QED BY <1>14, <1>15

(* A retransmission drops nothing.                                         *)
LEMMA BufferResend ==
  ASSUME TypeOK, NEW e \in Endpoint, RetransmitUnacked(e), UNCHANGED <<lastAck, finAcks>>,
         NEW f \in Endpoint
  PROVE  BufferStep(f)
<1>1. PICK U \in {unacked[e]} \cup
                  IF HeadSacked(unacked[e]) THEN {Forget(unacked[e])} ELSE {} :
      \E u \in {v \in U : ~v.sacked} :
        \/ unacked' = [unacked EXCEPT ![e] = U]
        \/ unacked' = [unacked EXCEPT ![e] = (U \ {u}) \cup {Retried(u)}]
  BY DEF RetransmitUnacked
<1>2. PICK u \in U : \/ unacked' = [unacked EXCEPT ![e] = U]
                     \/ unacked' = [unacked EXCEPT ![e] = (U \ {u}) \cup {Retried(u)}]
  BY <1>1
<1>3. unacked[e] \subseteq Entry /\ lastAck[f] <= lastAck'[f]
  <2>1. lastAck[f] <= lastAck'[f]
    BY EndTypes, LeRefl
  <2>2. unacked[e] \subseteq Entry
    BY DEF TypeOK
  <2> QED BY <2>1, <2>2
<1>4. U \subseteq Entry /\ \A v \in unacked[e] : \E x \in U : x.seq = v.seq /\ x.val = v.val
  <2>1. CASE U = unacked[e]
    BY <1>3, <2>1
  <2>2. CASE U = Forget(unacked[e])
    <3>1. \A v \in unacked[e] : LET x == [v EXCEPT !.sacked = FALSE]
                                IN  x \in U /\ x \in Entry /\ x.seq = v.seq /\ x.val = v.val
      BY <1>3, <2>2 DEF Forget, Entry
    <3>2. U \subseteq Entry
      BY <2>2, <3>1 DEF Forget
    <3> QED BY <3>1, <3>2
  <2> QED BY <1>1, <2>1, <2>2
<1>5. IsFiniteSet(unacked[e]) => IsFiniteSet(U)
  BY <1>1, EntriesFinite
<1>6. /\ f # e => unacked'[f] = unacked[f]
      /\ unacked'[e] = U \/ unacked'[e] = (U \ {u}) \cup {Retried(u)}
  <2>1. DOMAIN unacked = Endpoint
    BY DEF TypeOK
  <2> QED BY <1>2, <2>1
<1>7. \A v \in U : \E w \in unacked'[e] : w.seq = v.seq /\ w.val = v.val
  <2>1. Retried(u).seq = u.seq /\ Retried(u).val = u.val
    BY <1>4 DEF Retried, Entry
  <2> QED BY <1>6, <2>1
<1>8. IsFiniteSet(U) => IsFiniteSet(unacked'[e])
  <2> SUFFICES ASSUME IsFiniteSet(U) PROVE IsFiniteSet((U \ {u}) \cup {Retried(u)})
    BY <1>6
  <2>1. IsFiniteSet(U \ {u})
    BY FS_RemoveElement
  <2> QED BY <2>1, FS_AddElement
<1>9. CASE f = e
  <2>1. ASSUME NEW n \in DataSeqs(e) PROVE n \in DataSeqs(e)'
    <3>1. \A v \in unacked[e] : \E w \in unacked'[e] : w.seq = v.seq /\ w.val = v.val
      BY <1>4, <1>7, SMTT(30)
    <3> QED BY <3>1, CopiesCount
  <2> QED BY <1>3, <1>5, <1>8, <1>9, <2>1, SMTT(30) DEF BufferStep
<1>10. CASE f # e
  BY <1>3, <1>6, <1>10 DEF BufferStep, DataSeqs
<1> QED BY <1>9, <1>10

(* Every step does one of these to a retransmission buffer.                *)
LEMMA BufferSteps ==
  ASSUME TypeOK, [Next]_vars, NEW f \in Endpoint PROVE BufferStep(f)
<1>0. ASSUME UNCHANGED <<unacked, lastAck, finAcks>> PROVE BufferStep(f)
  BY <1>0, BufferSame
<1>1. ASSUME NEW e \in Endpoint, Writer(e) PROVE BufferStep(f)
  <2>1. CASE TransmitSegment(e)
    <3> DEFINE u == DataEntry(sendSeq[e], written[e] + 1)
    <3>1. unacked' = [unacked EXCEPT ![e] = unacked[e] \cup {u}] /\ UNCHANGED <<lastAck, finAcks>>
      BY <2>1 DEF TransmitSegment
    <3>2. IsFiniteSet({u})
      BY FS_Singleton
    <3> HIDE DEF u
    <3> QED BY <1>1, <3>1, <3>2, BufferGrows
  <2>2. CASE SendData(e) \/ WriteAborted(e) \/ ProbeLimit(e)
    BY <1>0, <2>2 DEF SendData, WriteAborted, ProbeLimit
  <2> QED BY <1>1, <2>1, <2>2 DEF Writer
<1>2. ASSUME NEW e \in Endpoint, Timers(e) PROVE BufferStep(f)
  <2>1. CASE SendDelayedACK(e) \/ ExpireHeldFIN(e)
    BY <1>0, <2>1 DEF SendDelayedACK, ExpireHeldFIN, sendVars
  <2>2. CASE Linger(e)
    BY <1>2, <2>2, BufferRelease DEF Linger
  <2>3. CASE HoldTimerAccepts(e)
    BY <1>2, <2>3, BufferAccept DEF HoldTimerAccepts
  <2> QED BY <1>2, <2>1, <2>2, <2>3 DEF Timers
<1>3. ASSUME NEW e \in Endpoint, PacketLoop(e) PROVE BufferStep(f)
  <2>1. ASSUME NEW p \in net, RecvSeg(e, p) \/ RecvAck(e, p) PROVE BufferStep(f)
    BY <1>3, <2>1, BufferAck DEF RecvSeg, RecvAck
  <2>2. ASSUME NEW p \in net, RecvFin(e, p) \/ RecvRst(e, p) PROVE BufferStep(f)
    BY <1>0, <2>2 DEF RecvFin, RecvRst, sendVars
  <2>3. CASE HandlePacket(e)
    BY <2>1, <2>2, <2>3 DEF HandlePacket
  <2>4. CASE Push(e) \/ Commit(e)
    BY <1>0, <2>4 DEF Push, Commit, sendVars
  <2>5. CASE PacketLoopAccepts(e)
    BY <1>3, <2>5, BufferAccept DEF PacketLoopAccepts
  <2> QED BY <1>3, <2>3, <2>4, <2>5 DEF PacketLoop
<1>4. ASSUME NEW e \in Endpoint, RetxLoop(e) PROVE BufferStep(f)
  <2>1. CASE RetxResends(e)
    BY <1>4, <2>1, BufferResend DEF RetxResends
  <2>2. CASE RetxExits(e) \/ RetxCleansUp(e)
    BY <1>0, <2>2 DEF RetxExits, RetxCleansUp, sendVars
  <2> QED BY <1>4, <2>1, <2>2 DEF RetxLoop
<1>5. ASSUME NEW e \in Endpoint, Probe(e) \/ Read(e) \/ Stop(e) PROVE BufferStep(f)
  BY <1>0, <1>5 DEF Probe, Read, Stop, sendVars
<1>6. ASSUME NEW e \in Endpoint, Reap(e) PROVE BufferStep(f)
  BY <1>6, BufferRelease DEF Reap
<1>7. ASSUME NEW e \in Endpoint, NEW c \in Closer, Close(e, c) PROVE BufferStep(f)
  <2>1. CASE CloseSends(e, c)
    <3>1. UNCHANGED <<lastAck, finAcks>>
      BY <2>1 DEF CloseSends
    <3>2. CASE SendFIN(e, {cl[e][c].fin})
      <4>1. IsFiniteSet({cl[e][c].fin})
        BY FS_Singleton
      <4> QED BY <1>7, <3>1, <3>2, <4>1, BufferFin
    <3>3. CASE ReleaseHeldFIN(e)
      BY <1>7, <3>1, <3>3, BufferRelease
    <3>4. CASE UNCHANGED unacked
      BY <1>0, <3>1, <3>4
    <3> QED BY <2>1, <3>2, <3>3, <3>4, SMTT(30) DEF CloseSends
  <2>2. CASE CloseBegins(e, c) \/ CloseReserves(e, c) \/ CloseShuts(e, c) \/ CloseEnds(e, c)
    BY <1>0, <2>2 DEF CloseBegins, CloseReserves, CloseShuts, CloseEnds, sendVars
  <2> QED BY <1>7, <2>1, <2>2 DEF Close
<1>8. CASE Lose \/ UNCHANGED vars
  BY <1>0, <1>8 DEF Lose, vars, sendVars
<1> QED
  BY <1>1, <1>2, <1>3, <1>4, <1>5, <1>6, <1>7, <1>8, SMTT(30) DEF Next

(* Only a transmission moves written.                                      *)
LEMMA OnlyTransmitWrites ==
  ASSUME TypeOK, [Next]_vars, NEW e \in Endpoint, Sends(e) PROVE TransmitSegment(e)
<1>0. written'[e] = written[e] + 1 /\ written[e] \in Nat
  BY SenderTypes DEF Sends
<1>1. written' # written
  BY <1>0, SMTT(30)
<1>2. ASSUME NEW f \in Endpoint, Writer(f) PROVE TransmitSegment(e)
  <2>1. TransmitSegment(f)
    BY <1>1, <1>2 DEF Writer, SendData, WriteAborted, ProbeLimit
  <2>2. written' = [written EXCEPT ![f] = @ + 1]
    BY <2>1 DEF TransmitSegment
  <2>3. f = e
    BY <1>0, <2>2, SenderTypes, SMTT(30)
  <2> QED BY <2>1, <2>3
<1>3. ASSUME NEW f \in Endpoint, NEW p \in net,
             RecvSeg(f, p) \/ RecvAck(f, p) \/ RecvFin(f, p) \/ RecvRst(f, p)
      PROVE  FALSE
  BY <1>1, <1>3 DEF RecvSeg, RecvAck, RecvFin, RecvRst, sendVars
<1>4. ASSUME NEW f \in Endpoint, PacketLoop(f) PROVE FALSE
  BY <1>1, <1>3, <1>4 DEF PacketLoop, HandlePacket, Push, Commit, PacketLoopAccepts, sendVars
<1>5. ASSUME NEW f \in Endpoint, Timers(f) \/ RetxLoop(f) PROVE FALSE
  BY <1>1, <1>5 DEF Timers, SendDelayedACK, ExpireHeldFIN, HoldTimerAccepts, Linger, RetxLoop,
                    RetxResends, RetxExits, RetxCleansUp, sendVars
<1>6. ASSUME NEW f \in Endpoint, Probe(f) \/ Read(f) \/ Reap(f) \/ Stop(f) PROVE FALSE
  BY <1>1, <1>6 DEF Probe, Read, Reap, Stop, sendVars
<1>7. ASSUME NEW f \in Endpoint, NEW c \in Closer, Close(f, c) PROVE FALSE
  BY <1>1, <1>7 DEF Close, CloseBegins, CloseReserves, CloseSends, CloseShuts, CloseEnds, sendVars
<1>8. ~(Lose \/ UNCHANGED vars)
  BY <1>1 DEF Lose, vars, sendVars
<1> QED BY <1>2, <1>4, <1>5, <1>6, <1>7, <1>8, SMTT(30) DEF Next

(* There are no more sequence numbers than entries that have them.         *)
LEMMA SeqsFinite ==
  ASSUME NEW U, IsFiniteSet(U), NEW S, S \subseteq U
  PROVE  /\ IsFiniteSet({u.seq : u \in S}) /\ Cardinality({u.seq : u \in S}) \in Nat
         /\ Cardinality({u.seq : u \in S}) <= Cardinality(U) /\ Cardinality(U) \in Nat
         /\ Cardinality({u.seq : u \in S}) <= Cardinality(S) /\ Cardinality(S) \in Nat
<1> DEFINE g == [u \in S |-> u.seq]
<1>1. IsFiniteSet(S) /\ Cardinality(S) <= Cardinality(U) /\ Cardinality(S) \in Nat
      /\ Cardinality(U) \in Nat
  BY FS_Subset, FS_CardinalityType
<1>2. DOMAIN g = S /\ {u.seq : u \in S} = {g[u] : u \in S}
  OBVIOUS
<1> HIDE DEF g
<1>3. IsFiniteSet({g[u] : u \in S}) /\ Cardinality({g[u] : u \in S}) <= Cardinality(S)
  BY <1>1, <1>2, ImageFinite, SMTT(30)
<1>4. Cardinality({u.seq : u \in S}) \in Nat
  BY <1>2, <1>3, FS_CardinalityType
<1>5. \A a, b, c \in Nat : a <= b /\ b <= c => a <= c
  BY SMTT(30)
<1> QED BY <1>1, <1>2, <1>3, <1>4, <1>5

(* The window bounds what waited for it in a retransmission buffer.        *)
LEMMA WindowBounds ==
  ASSUME TypeOK, [Next]_vars, UnackedStep, NEW e \in Endpoint, IsFiniteSet(unacked[e]),
         Cardinality(Windowed(e)) <= MaxSegmentsOutstanding
  PROVE  Cardinality(Windowed(e)') <= MaxSegmentsOutstanding
<1> DEFINE D == Windowed(e)
           E == Windowed(e)'
<1>0. MaxSegmentsOutstanding \in Nat
  BY BoundAssumption
<1>1. IsFiniteSet(D) /\ Cardinality(D) \in Nat /\ Cardinality(D) <= Cardinality(unacked[e])
      /\ Cardinality(unacked[e]) \in Nat
  <2> DEFINE S == {w \in unacked[e] : w.val # 0 /\ w.val \notin Tails[e]}
  <2>1. S \subseteq unacked[e]
    OBVIOUS
  <2> HIDE DEF S
  <2>2. /\ IsFiniteSet({u.seq : u \in S}) /\ Cardinality({u.seq : u \in S}) \in Nat
        /\ Cardinality({u.seq : u \in S}) <= Cardinality(unacked[e])
        /\ Cardinality(unacked[e]) \in Nat
    BY <2>1, SeqsFinite
  <2> QED BY <2>2 DEF Windowed, S
<1>2. ASSUME NEW n \in E
      PROVE  n \in D \/ (Sends(e) /\ n = sendSeq[e] /\ written[e] + 1 \notin Tails[e])
  <2>1. PICK w \in unacked'[e] : w.val # 0 /\ w.val \notin Tails[e] /\ w.seq = n
    BY <1>2 DEF Windowed
  <2>2. Tracked(e, w)
    BY DEF UnackedStep
  <2> QED BY <2>1, <2>2, SMTT(30) DEF Tracked, Copied, NewData, NewFin, DataEntry, Windowed
<1>3. CASE ~Sends(e) \/ written[e] + 1 \in Tails[e]
  <2>1. E \subseteq D
    BY <1>2, <1>3
  <2>2. Cardinality(E) <= Cardinality(D) /\ Cardinality(E) \in Nat
    BY <1>1, <2>1, FS_Subset, FS_CardinalityType
  <2> HIDE DEF D, E
  <2> QED BY <1>0, <1>1, <2>2, SMTT(30) DEF D, E
<1>4. CASE Sends(e) /\ written[e] + 1 \notin Tails[e]
  <2>1. TransmitSegment(e)
    BY <1>4, OnlyTransmitWrites
  <2>2. Cardinality(unacked[e]) < MaxSegmentsOutstanding
    BY <1>4, <2>1 DEF TransmitSegment, WindowAvailable
  <2> DEFINE F == D \cup {sendSeq[e]}
  <2>3. E \subseteq F
    BY <1>2
  <2>4. IsFiniteSet(F) /\ Cardinality(F) <= Cardinality(D) + 1 /\ Cardinality(F) \in Nat
    <3>1. IsFiniteSet(D) /\ Cardinality(D) \in Nat
      BY <1>1
    <3> HIDE DEF D
    <3>2. /\ IsFiniteSet(D \cup {sendSeq[e]})
          /\ Cardinality(D \cup {sendSeq[e]})
               = IF sendSeq[e] \in D THEN Cardinality(D) ELSE Cardinality(D) + 1
      BY <3>1, FS_AddElement
    <3> QED BY <3>1, <3>2, SMTT(30)
  <2> HIDE DEF F
  <2>5. Cardinality(E) <= Cardinality(F) /\ Cardinality(E) \in Nat
    BY <2>3, <2>4, FS_Subset, FS_CardinalityType, SMTT(30)
  <2> HIDE DEF D, E
  <2> QED BY <1>0, <1>1, <2>2, <2>4, <2>5, SMTT(30) DEF D, E
<1> QED BY <1>3, <1>4

(* The data in a retransmission buffer: what waited for the window, and    *)
(* the tails that did not.                                                 *)
LEMMA DataBounded ==
  ASSUME NEW e \in Endpoint, IsFiniteSet(unacked[e]),
         Cardinality(Windowed(e)) <= MaxSegmentsOutstanding
  PROVE  /\ IsFiniteSet(DataSeqs(e)) /\ Cardinality(DataSeqs(e)) \in Nat
         /\ Cardinality(PastWindow(e)) \in Nat
         /\ Cardinality(DataSeqs(e)) <= MaxSegmentsOutstanding + Cardinality(PastWindow(e))
<1> DEFINE W == {w \in unacked[e] : w.val # 0 /\ w.val \notin Tails[e]}
           P == PastWindow(e)
           D == {w \in unacked[e] : w.val # 0}
<1>1. W \subseteq unacked[e] /\ P \subseteq unacked[e] /\ D \subseteq unacked[e]
  BY DEF PastWindow
<1>2. DataSeqs(e) = {u.seq : u \in D} /\ Windowed(e) = {u.seq : u \in W}
  BY DEF DataSeqs, Windowed
<1>3. {u.seq : u \in D} \subseteq {u.seq : u \in W} \cup {u.seq : u \in P}
  BY DEF PastWindow
<1> HIDE DEF W, P, D
<1>4. IsFiniteSet({u.seq : u \in W}) /\ Cardinality({u.seq : u \in W}) \in Nat
  BY <1>1, SeqsFinite
<1>5. /\ IsFiniteSet({u.seq : u \in P}) /\ Cardinality({u.seq : u \in P}) \in Nat
      /\ Cardinality({u.seq : u \in P}) <= Cardinality(P) /\ Cardinality(P) \in Nat
  BY <1>1, SeqsFinite
<1>6. IsFiniteSet({u.seq : u \in D}) /\ Cardinality({u.seq : u \in D}) \in Nat
  BY <1>1, SeqsFinite
<1> DEFINE X == {u.seq : u \in W}
           Y == {u.seq : u \in P}
           Z == {u.seq : u \in D}
<1> HIDE DEF X, Y, Z
<1>7. IsFiniteSet(X) /\ IsFiniteSet(Y) /\ Z \subseteq X \cup Y
  BY <1>3, <1>4, <1>5 DEF X, Y, Z
<1>8. IsFiniteSet(X \cup Y) /\ Cardinality(X \cup Y) = Cardinality(X) + Cardinality(Y) - Cardinality(X \cap Y)
  BY <1>7, FS_Union
<1>9. Cardinality(X \cap Y) \in Nat
  <2>1. X \cap Y \subseteq X
    OBVIOUS
  <2> QED BY <1>7, <2>1, FS_Subset, FS_CardinalityType
<1>10. Cardinality(Z) <= Cardinality(X \cup Y)
  BY <1>7, <1>8, FS_Subset
<1>11. MaxSegmentsOutstanding \in Nat
  BY BoundAssumption
<1>12. /\ Cardinality(X) \in Nat /\ Cardinality(Y) \in Nat /\ Cardinality(P) \in Nat
       /\ Cardinality(Z) \in Nat
       /\ Cardinality(Y) <= Cardinality(P) /\ Cardinality(X) <= MaxSegmentsOutstanding
  BY <1>2, <1>4, <1>5, <1>6 DEF X, Y, Z
<1>13. Cardinality(Z) <= MaxSegmentsOutstanding + Cardinality(P)
  BY <1>8, <1>9, <1>10, <1>11, <1>12, SMTT(30)
<1> QED BY <1>2, <1>5, <1>6, <1>13 DEF P, Z

(* Nothing delivered stays in a reorder buffer.                            *)
LEMMA ReorderAhead ==
  ASSUME TypeOK, ReceiverStep, NEW f \in Endpoint, \A n \in DOMAIN ooo[f] : n >= expected[f]
  PROVE  \A n \in DOMAIN ooo'[f] : n >= expected'[f]
<1>0. expected[f] \in Nat /\ DOMAIN ooo = Endpoint /\ DOMAIN ooo[f] \subseteq Nat
  BY ReceiverTypes
<1>1. ASSUME NEW e \in Endpoint, Arrives(e) PROVE \A n \in DOMAIN ooo'[f] : n >= expected'[f]
  <2>1. PICK p \in net : InSequence(e, p) \/ OutOfSequence(e, p)
    BY <1>1 DEF Arrives
  <2>2. expected' = expected
    BY <1>1 DEF Arrives
  <2>3. CASE InSequence(e, p)
    BY <1>1, <2>2, <2>3, InSequenceTakes DEF InHand, Others
  <2>4. CASE OutOfSequence(e, p)
    <3>1. CASE ooo' = ooo
      BY <2>2, <3>1
    <3>2. CASE p.seq > expected[e] /\ ooo' # ooo
      <4>1. Kept(e, p) /\ Others(e) /\ p.seq \in Nat
        BY <1>1, <2>4, OutOfSequenceKeeps, PacketFacts, SMTT(30)
      <4>2. CASE f = e
        BY <1>0, <2>2, <3>2, <4>1, <4>2, SMTT(30) DEF Kept
      <4>3. CASE f # e
        BY <2>2, <4>1, <4>3 DEF Others
      <4> QED BY <4>2, <4>3
    <3> QED BY <2>4, <3>1, <3>2, SMTT(30) DEF OutOfSequence
  <2> QED BY <2>1, <2>3, <2>4
<1>2. ASSUME NEW e \in Endpoint, Commits(e) PROVE \A n \in DOMAIN ooo'[f] : n >= expected'[f]
  <2>1. CASE f = e
    <3>1. ooo'[e] = Rebuffered(e) /\ expected'[e] = expected[e] + rl[e].done
      BY <1>2, ReceiverTypes DEF Commits
    <3>2. \A n \in DOMAIN Rebuffered(e) : n >= expected[e] + rl[e].done
      BY DEF Rebuffered
    <3> QED BY <2>1, <3>1, <3>2
  <2>2. CASE f # e
    BY <1>2, <2>2, CommitKeeps DEF Others
  <2> QED BY <2>1, <2>2
<1>3. CASE UNCHANGED <<expected, ooo>>
  BY <1>3
<1> QED BY <1>1, <1>2, <1>3 DEF ReceiverStep, Pushes, Turns

(* A segment in its receiver's hands was there already or comes off the    *)
(* wire.                                                                   *)
LEMMA HandsStep ==
  ASSUME TypeOK, ReceiverStep, NEW e \in Endpoint, NEW n \in Nat,
         \/ n \in DOMAIN ooo'[Peer(e)]
         \/ \E i \in 1 .. Len(rl'[Peer(e)].todo) : n = expected'[Peer(e)] + i - 1
  PROVE  Underway(e, n)
<1> DEFINE r == Peer(e)
<1>0. r \in Endpoint /\ expected[r] \in Nat
  BY PeerFacts, ReceiverTypes
<1>1. ASSUME UNCHANGED <<ooo[r], expected[r], rl[r].todo>> PROVE Underway(e, n)
  BY <1>1 DEF Underway
<1>2. ASSUME NEW g \in Endpoint, Arrives(g) PROVE Underway(e, n)
  <2>1. expected' = expected
    BY <1>2 DEF Arrives
  <2>2. PICK p \in net : p.to = g /\ p.kind = "seg" /\ (InSequence(g, p) \/ OutOfSequence(g, p))
    BY <1>2 DEF Arrives
  <2>3. Others(g)
    BY <2>2, InSequenceTakes, OutOfSequenceKeeps
  <2>4. CASE g # r
    BY <1>0, <1>1, <2>1, <2>3, <2>4, SMTT(30) DEF Others
  <2>5. CASE g = r /\ InSequence(g, p)
    <3>1. PICK k \in Nat : InHand(r, p, k)
      BY <2>5, InSequenceTakes
    <3>2. CASE n \in DOMAIN ooo'[r]
      BY <3>1, <3>2 DEF InHand, Underway
    <3>3. CASE \E i \in 1 .. Len(rl'[r].todo) : n = expected'[r] + i - 1
      <4>1. PICK i \in 1 .. k + 1 : n = expected[r] + i - 1
        BY <2>1, <3>1, <3>3 DEF InHand
      <4>2. CASE i = 1
        <5>1. n = p.seq
          <6>1. p.seq = expected[r]
            BY <3>1 DEF InHand
          <6>2. n = expected[r] + 1 - 1
            BY <4>1, <4>2
          <6> HIDE DEF r
          <6> QED BY <1>0, <6>1, <6>2, SMTT(30)
        <5> QED BY <2>2, <2>5, <5>1 DEF Underway
      <4>3. CASE i \in 2 .. k + 1
        BY <3>1, <4>1, <4>3 DEF InHand, Underway
      <4> QED BY <4>2, <4>3, SMTT(30)
    <3> QED BY <3>2, <3>3
  <2>6. CASE g = r /\ OutOfSequence(g, p)
    <3>1. Kept(r, p)
      BY <2>6, OutOfSequenceKeeps
    <3>2. rl'[r].todo = <<>> /\ Len(<<>>) = 0
      BY <3>1 DEF Kept
    <3>3. n \in DOMAIN ooo'[r]
      BY <3>2, SMTT(30)
    <3>4. n \in DOMAIN ooo[r] \/ n = p.seq
      BY <3>1, <3>3 DEF Kept
    <3> QED BY <2>2, <2>6, <3>4 DEF Underway
  <2> QED BY <2>2, <2>4, <2>5, <2>6, SMTT(30)
<1>3. ASSUME NEW g \in Endpoint, Pushes(g) PROVE Underway(e, n)
  <2>1. UNCHANGED <<ooo, expected>> /\ rl'[r].todo = rl[r].todo
    <3>1. UNCHANGED <<ooo, expected>>
      BY <1>3 DEF Pushes
    <3>2. rl'[r].todo = rl[r].todo
      BY <1>0, <1>3, PushKeeps
    <3> QED BY <3>1, <3>2
  <2> QED BY <1>1, <2>1
<1>4. ASSUME NEW g \in Endpoint, Turns(g) PROVE Underway(e, n)
  <2>1. UNCHANGED <<ooo, expected>> /\ rl'[r].todo = rl[r].todo
    BY <1>0, <1>4, TurnsKeeps DEF Turns
  <2> QED BY <1>1, <2>1
<1>5. ASSUME NEW g \in Endpoint, Commits(g) PROVE Underway(e, n)
  <2>1. CASE g # r
    <3>1. rl'[r] = rl[r] /\ ooo'[r] = ooo[r] /\ expected'[r] = expected[r]
      BY <1>0, <1>5, <2>1, CommitKeeps DEF Others
    <3> QED BY <1>1, <3>1
  <2>2. CASE g = r
    <3>1. rl'[r].todo = <<>> /\ Len(<<>>) = 0 /\ PutBack(r)
      BY <1>5, <2>2, CommitKeeps
    <3>2. n \in DOMAIN ooo'[r]
      BY <3>1, SMTT(30)
    <3> QED BY <3>1, <3>2 DEF PutBack, Underway
  <2> QED BY <2>1, <2>2
<1>6. CASE UNCHANGED <<expected, ooo, recv, rl>>
  BY <1>1, <1>6
<1> QED BY <1>2, <1>3, <1>4, <1>5, <1>6, SMTT(30) DEF ReceiverStep

(* A segment under way was so before, or is retransmitted, or is new.      *)
LEMMA UnderwayStep ==
  ASSUME TypeOK, Step, NEW e \in Endpoint, NEW n \in Nat, Underway(e, n)'
  PROVE  Underway(e, n) \/ n \in DataSeqs(e) \/ (Sends(e) /\ n = sendSeq[e])
<1>0. Peer(e)' = Peer(e)
  BY DEF Peer
<1>1. CASE \E q \in net' : q.kind = "seg" /\ q.to = Peer(e) /\ q.seq = n
  <2>1. PICK q \in net' : q.kind = "seg" /\ q.to = Peer(e) /\ q.seq = n
    BY <1>1
  <2>2. CASE q \in net
    BY <2>1, <2>2 DEF Underway
  <2>3. ASSUME NEW f \in Endpoint, Sent(f, q)
        PROVE  n \in DataSeqs(e) \/ (Sends(e) /\ n = sendSeq[e])
    <3>1. f = e
      BY <2>1, <2>3, PeerFacts DEF Sent
    <3>2. NewSeg(e, q)
      BY <2>1, <2>3, <3>1 DEF Sent, NewAck, NewFinPacket, NewRst
    <3> QED BY <2>1, <3>2 DEF NewSeg, DataSeqs
  <2> QED BY <2>2, <2>3 DEF Step, PacketStep
<1>2. CASE \/ n \in DOMAIN ooo'[Peer(e)]
           \/ \E i \in 1 .. Len(rl'[Peer(e)].todo) : n = expected'[Peer(e)] + i - 1
  BY <1>2, HandsStep DEF Step
<1> QED BY <1>0, <1>1, <1>2 DEF Underway

(* The room invariant is inductive.                                        *)
LEMMA RoomInvNext == ASSUME IInv, RoomInv, [Next]_vars PROVE RoomInv'
<1>0. TypeOK /\ Step
  BY Steps DEF IInv
<1> SUFFICES ASSUME NEW e \in Endpoint
             PROVE  /\ IsFiniteSet(unacked'[e])
                    /\ Cardinality(Windowed(e)') <= MaxSegmentsOutstanding
                    /\ \A n \in DOMAIN ooo'[e] : n >= expected'[e]
                    /\ finAcks'[e] = 0 => \A n \in Nat :
                         Underway(e, n)' /\ n >= lastAck'[e] => n \in DataSeqs(e)'
  BY DEF RoomInv
<1>1. BufferStep(e)
  BY <1>0, BufferSteps
<1>2. IsFiniteSet(unacked[e]) /\ Cardinality(Windowed(e)) <= MaxSegmentsOutstanding
  BY DEF RoomInv
<1>3. IsFiniteSet(unacked'[e])
  BY <1>1, <1>2 DEF BufferStep
<1>4. Cardinality(Windowed(e)') <= MaxSegmentsOutstanding
  BY <1>0, <1>2, WindowBounds DEF Step
<1>5. \A n \in DOMAIN ooo'[e] : n >= expected'[e]
  BY <1>0, ReorderAhead DEF Step, RoomInv
<1>6. ASSUME finAcks'[e] = 0, NEW n \in Nat, Underway(e, n)', n >= lastAck'[e]
      PROVE  n \in DataSeqs(e)'
  <2>1. finAcks[e] = 0 /\ \A m \in DataSeqs(e) : m >= lastAck'[e] => m \in DataSeqs(e)'
    BY <1>1, <1>6 DEF BufferStep
  <2>2. CASE n \in DataSeqs(e)
    BY <1>6, <2>1, <2>2
  <2>3. CASE Sends(e) /\ n = sendSeq[e]
    <3>1. TransmitSegment(e)
      BY <1>0, <2>3, OnlyTransmitWrites, SMTT(30)
    <3>2. DataEntry(sendSeq[e], written[e] + 1) \in unacked'[e] /\ written[e] + 1 # 0
      <4>1. unacked' = [unacked EXCEPT ![e] = @ \cup {DataEntry(sendSeq[e], written[e] + 1)}]
        BY <3>1 DEF TransmitSegment
      <4>2. DOMAIN unacked = Endpoint /\ written[e] \in Nat
        BY <1>0, SenderTypes DEF TypeOK
      <4>3. written[e] + 1 # 0
        BY <4>2, SMTT(30)
      <4> QED BY <4>1, <4>2, <4>3
    <3> QED BY <2>3, <3>2, SMTT(30) DEF DataSeqs, DataEntry
  <2>4. CASE Underway(e, n)
    <3>1. lastAck[e] <= lastAck'[e] /\ lastAck[e] \in Nat /\ lastAck'[e] \in Nat
      <4>1. lastAck[e] <= lastAck'[e]
        BY <1>1 DEF BufferStep
      <4>2. TypeOK /\ TypeOK'
        BY <1>0, InvNext DEF IInv
      <4>3. lastAck[e] \in Nat
        BY <4>2 DEF TypeOK
      <4>4. lastAck'[e] \in Nat
        BY <4>2 DEF TypeOK
      <4> QED BY <4>1, <4>3, <4>4
    <3>2. n >= lastAck[e]
      BY <1>6, <3>1, SMTT(30)
    <3>3. n \in DataSeqs(e)
      BY <2>1, <2>4, <3>2 DEF RoomInv
    <3> QED BY <2>2, <3>3
  <2> QED BY <1>0, <1>6, <2>2, <2>3, <2>4, UnderwayStep, SMTT(30)
<1> QED BY <1>3, <1>4, <1>5, <1>6

(* It holds at the start.                                                  *)
LEMMA RoomInvInit == Init => RoomInv
<1> SUFFICES ASSUME Init, NEW e \in Endpoint
             PROVE  /\ IsFiniteSet(unacked[e])
                    /\ Cardinality(Windowed(e)) <= MaxSegmentsOutstanding
                    /\ DOMAIN ooo[e] = {}
                    /\ \A n \in Nat : ~Underway(e, n)
  BY DEF RoomInv
<1>1. unacked[e] = {} /\ net = {} /\ Peer(e) \in Endpoint
  BY PeerFacts DEF Init
<1>2. \A f \in Endpoint : DOMAIN ooo[f] = {} /\ Len(rl[f].todo) = 0
  <2>1. \A f \in Endpoint : ooo[f] = <<>> /\ rl[f].todo = <<>>
    BY DEF Init
  <2>2. DOMAIN <<>> = {} /\ Len(<<>>) = 0
    BY SMTT(30)
  <2> QED BY <2>1, <2>2
<1>3. Windowed(e) = {}
  BY <1>1 DEF Windowed
<1>4. IsFiniteSet({}) /\ Cardinality({}) = 0 /\ 0 <= MaxSegmentsOutstanding
  BY FS_EmptySet, BoundAssumption, SMTT(30)
<1>5. \A n \in Nat : ~Underway(e, n)
  BY <1>1, <1>2, SMTT(30) DEF Underway
<1> QED BY <1>1, <1>2, <1>3, <1>4, <1>5, SMTT(30)

(* What a reorder buffer has to take, for every value of the constants:    *)
(* no more than the window and the tails the sender has outstanding past   *)
(* it (WindowAvailable and the two senders of a held remainder, against    *)
(* the bound of DeliverInOrder).                                           *)
THEOREM ReorderBufferSuffices == Spec => []ReorderRoom
<1> DEFINE Fits == IInv /\ RoomInv
<1>1. Init => Fits
  BY InvInit, RoomInvInit
<1>2. Fits /\ [Next]_vars => Fits'
  BY InvNext, RoomInvNext
<1>3. Fits => ReorderRoom
  <2> SUFFICES ASSUME Fits, NEW p \in net, p.kind = "seg", finAcks[Peer(p.to)] = 0,
                      p.seq > expected[p.to], p.seq \notin DOMAIN ooo[p.to]
               PROVE  Cardinality(DOMAIN ooo[p.to])
                        < MaxSegmentsOutstanding + Cardinality(PastWindow(Peer(p.to)))
    BY DEF ReorderRoom
  <2> DEFINE e == p.to
             D == DataSeqs(Peer(e))
             H == DOMAIN ooo[e]
  <2>1. TypeOK /\ e \in Endpoint /\ Peer(e) \in Endpoint /\ Peer(Peer(e)) = e /\ p.seq \in Nat
    BY PacketFacts, PeerFacts DEF IInv
  <2>2. expected[e] \in Nat /\ H \subseteq Nat /\ lastAck[Peer(e)] \in Nat
    BY <2>1, ReceiverTypes, EndTypes
  <2>3. lastAck[Peer(e)] <= expected[e]
    BY <2>1 DEF IInv, AckInv
  <2>4. ASSUME NEW n \in H \cup {p.seq} PROVE n \in D
    <3>1. n \in Nat /\ n >= expected[e]
      <4>1. CASE n = p.seq
        <5>1. \A x, y \in Nat : x > y => x >= y
          BY SMTT(30)
        <5> QED BY <2>1, <2>2, <4>1, <5>1
      <4>2. CASE n \in H
        BY <2>1, <2>2, <4>2 DEF RoomInv
      <4> QED BY <4>1, <4>2
    <3>2. n >= lastAck[Peer(e)]
      BY <2>2, <2>3, <3>1, SMTT(30)
    <3>3. Underway(Peer(e), n)
      BY <2>1 DEF Underway
    <3> QED BY <2>1, <3>1, <3>2, <3>3 DEF RoomInv
  <2> DEFINE past == Cardinality(PastWindow(Peer(e)))
  <2>5. /\ IsFiniteSet(D) /\ Cardinality(D) \in Nat /\ past \in Nat
        /\ Cardinality(D) <= MaxSegmentsOutstanding + past
    <3>1. IsFiniteSet(unacked[Peer(e)]) /\ Cardinality(Windowed(Peer(e))) <= MaxSegmentsOutstanding
      BY <2>1 DEF RoomInv
    <3> QED BY <2>1, <3>1, DataBounded
  <2> HIDE DEF D, past
  <2>6. IsFiniteSet(H) /\ Cardinality(H) \in Nat
    <3>1. H \subseteq D
      BY <2>4
    <3> QED BY <2>5, <3>1, FS_Subset, FS_CardinalityType, SMTT(30)
  <2>7. IsFiniteSet(H \cup {p.seq}) /\ Cardinality(H \cup {p.seq}) = Cardinality(H) + 1
    BY <2>6, FS_AddElement
  <2>8. Cardinality(H \cup {p.seq}) <= Cardinality(D)
    <3>1. H \cup {p.seq} \subseteq D
      BY <2>4
    <3> QED BY <2>5, <3>1, FS_Subset
  <2>9. MaxSegmentsOutstanding \in Nat
    BY BoundAssumption
  <2> HIDE DEF H
  <2>10. Cardinality(H) < MaxSegmentsOutstanding + past
    BY <2>5, <2>6, <2>7, <2>8, <2>9, SMTT(30)
  <2> QED BY <2>10 DEF H, past
<1> HIDE DEF Fits
<1> QED BY <1>1, <1>2, <1>3, PTL DEF Spec
=============================================================================
