---------------------------- MODULE SenderProofs ----------------------------
(***************************************************************************)
(* What a connection's write side promises, for any writers and sizes:     *)
(* bytes leave in order, a write is never refused, and a close sends       *)
(* everything before its FIN.                                              *)
(***************************************************************************)
EXTENDS Sender, Integers, TLAPS

(* The sizes the code gives: a held remainder and a piece fit the buffer.  *)
Sizes ==
  /\ Seg \in Nat \ {0} /\ Piece \in Nat \ {0} /\ MaxBuf \in Nat /\ Probes \in Nat
  /\ Seg + Piece <= MaxBuf + 1
  /\ Nobody \notin Writer \cup Flusher /\ Writer \cap Flusher = {}
  /\ \A s \in Scenarios : s.writes \in [Writer -> Seq(Nat)]

WriterType ==
  [pc : {"idle", "piece", "lock", "look", "window", "wait", "failed", "flushed"},
   todo : Seq(Nat), cur : Nat, tailNow : BOOLEAN, seg : Seq(Nat), last : BOOLEAN, probes : Nat,
   refused : BOOLEAN, gaveUp : BOOLEAN]

FlusherType == [pc : {"off", "sleep", "lock", "look", "send"}, force : BOOLEAN, seg : Seq(Nat)]

FinType == [done : BOOLEAN, busy : BOOLEAN, sent : Nat, taken : Nat]

(* The types, with the buffers as sequences of numbers.                    *)
Types ==
  /\ state \in {"est", "finwait", "closed"} /\ closer \in {"off", "tail", "fin", "done"}
  /\ removed \in BOOLEAN /\ tailFlusher \in BOOLEAN /\ nagleCh \in BOOLEAN /\ windowCh \in BOOLEAN
  /\ count \in Nat /\ buf \in Seq(Nat) /\ wire \in Seq(Nat)
  /\ writeMu \in Writer \cup {Nobody} /\ sendMu \in Writer \cup Flusher \cup {Nobody}
  /\ wr \in [Writer -> WriterType]
  /\ fl \in [Flusher -> FlusherType]
  /\ fin \in FinType

(* WriteMu and SendMu are held exactly where the code is between Lock and  *)
(* Unlock.                                                                 *)
LockInv ==
  /\ \A w \in Writer : /\ wr[w].pc # "idle" <=> writeMu = w
                       /\ wr[w].pc \in {"look", "window", "wait"} <=> sendMu = w
  /\ \A f \in Flusher : fl[f].pc \in {"look", "send"} <=> sendMu = f

(* The segment taken from the buffer and not yet transmitted.              *)
Hand ==
  IF sendMu \in Writer /\ wr[sendMu].pc \in {"window", "wait"} THEN wr[sendMu].seg
  ELSE IF sendMu \in Flusher /\ fl[sendMu].pc = "send" THEN fl[sendMu].seg ELSE <<>>

Whole == \A w \in Writer : ~wr[w].gaveUp

(* The buffer is the last bytes taken, the hand those before it, and the   *)
(* wire what is before those.                                              *)
Flow(wi, ha, bu, n) ==
  /\ Len(wi) + Len(ha) + Len(bu) <= n
  /\ \A i \in 1 .. Len(bu) : bu[i] = n - Len(bu) + i
  /\ \A i \in 1 .. Len(ha) : ha[i] = n - Len(bu) - Len(ha) + i
  /\ \A i \in 1 .. Len(wi) : 1 <= wi[i] /\ wi[i] <= n - Len(bu) - Len(ha)
  /\ \A i, j \in 1 .. Len(wi) : i < j => wi[i] < wi[j]

(* And nothing is missing.                                                 *)
Gapless(wi, ha, bu, n) ==
  Len(wi) + Len(ha) + Len(bu) = n /\ \A i \in 1 .. Len(wi) : wi[i] = i

DataInv == Flow(wire, Hand, buf, count) /\ (Whole => Gapless(wire, Hand, buf, count))

(* A writer that is about to add a piece finds less than a segment.        *)
RoomInv ==
  /\ removed => state # "est"
  /\ state = "est" /\ writeMu = Nobody => Len(buf) < Seg
  /\ \A w \in Writer :
       /\ wr[w].pc \in {"piece", "flushed"} => Len(buf) < Seg
       /\ wr[w].pc \in {"window", "wait"} /\ wr[w].last => buf = <<>>
       /\ wr[w].gaveUp => state # "est"
       /\ ~wr[w].refused

(* A close with no write under way finds the buffer and the hand empty     *)
(* when the FIN takes its number.                                          *)
FinInv ==
  /\ closer \in {"tail", "fin"} /\ ~fin.busy => \A w \in Writer : wr[w].pc = "idle"
  /\ closer = "fin" /\ ~fin.busy /\ state = "est" => buf = <<>> /\ Len(wire) = count
  /\ fin.done => closer = "done"
  /\ FinAfterData

(* What is in hand is a segment, and so is what is in flight.              *)
SegInv ==
  /\ \A w \in Writer : wr[w].pc \in {"window", "wait"} => Len(wr[w].seg) \in 1 .. Seg
  /\ \A f \in Flusher : IF fl[f].pc = "send" THEN Len(fl[f].seg) \in 1 .. Seg ELSE fl[f].seg = <<>>
  /\ unacked \in Seq([n : 1 .. Seg, sacked : BOOLEAN])

IInv == Types /\ SegInv /\ LockInv /\ DataInv /\ RoomInv /\ FinInv

-----------------------------------------------------------------------------
(* The flow of bytes.                                                      *)

(* The lengths are numbers.                                                *)
LEMMA Lengths ==
  ASSUME NEW a \in Seq(Nat), NEW b \in Seq(Nat)
  PROVE  /\ Len(a) \in Nat /\ \A i \in 1 .. Len(a) : a[i] \in Nat
         /\ a \o b \in Seq(Nat) /\ Len(a \o b) = Len(a) + Len(b)
         /\ \A i \in 1 .. Len(a) : (a \o b)[i] = a[i]
         /\ \A i \in Len(a) + 1 .. Len(a) + Len(b) : (a \o b)[i] = b[i - Len(a)]
<1>1. Len(a) \in Nat /\ Len(b) \in Nat /\ \A i \in 1 .. Len(a) : a[i] \in Nat
  BY SMTT(30)
<1>2. /\ a \o b \in Seq(Nat) /\ Len(a \o b) = Len(a) + Len(b)
      /\ \A i \in 1 .. Len(a) + Len(b) : (a \o b)[i] = IF i <= Len(a) THEN a[i] ELSE b[i - Len(a)]
  BY SMTT(30)
<1>3. ASSUME NEW i \in 1 .. Len(a) PROVE (a \o b)[i] = a[i]
  BY <1>1, <1>2, SMTT(30)
<1>4. ASSUME NEW i \in Len(a) + 1 .. Len(a) + Len(b) PROVE (a \o b)[i] = b[i - Len(a)]
  <2>1. i \in 1 .. Len(a) + Len(b) /\ ~(i <= Len(a))
    BY <1>1, SMTT(30)
  <2> QED BY <1>2, <2>1, Zenon
<1> QED BY <1>1, <1>2, <1>3, <1>4, Zenon

(* A piece joins the buffer.                                               *)
LEMMA FlowTakes ==
  ASSUME NEW wi \in Seq(Nat), NEW ha \in Seq(Nat), NEW bu \in Seq(Nat), NEW n \in Nat, NEW k \in Nat,
         Flow(wi, ha, bu, n)
  PROVE  LET b == bu \o [i \in 1 .. k |-> n + i]
         IN  /\ b \in Seq(Nat) /\ Len(b) = Len(bu) + k /\ Flow(wi, ha, b, n + k)
             /\ Gapless(wi, ha, bu, n) => Gapless(wi, ha, b, n + k)
<1> DEFINE p == [i \in 1 .. k |-> n + i]
           b == bu \o p
<1>1. p \in Seq(Nat) /\ Len(p) = k /\ \A i \in 1 .. k : p[i] = n + i
  <2>1. \A i \in 1 .. k : n + i \in Nat
    BY SMTT(30)
  <2>2. p \in [1 .. k -> Nat]
    BY <2>1, Zenon
  <2> QED BY <2>2, SMTT(30)
<1> HIDE DEF p
<1>2. /\ b \in Seq(Nat) /\ Len(b) = Len(bu) + k
      /\ \A i \in 1 .. Len(bu) : b[i] = bu[i]
      /\ \A i \in Len(bu) + 1 .. Len(bu) + k : b[i] = p[i - Len(bu)]
  BY <1>1, Lengths, Zenon
<1> HIDE DEF b
<1>3. Len(bu) \in Nat /\ Len(ha) \in Nat /\ Len(wi) \in Nat
  BY Lengths, Zenon
<1>4. \A i \in 1 .. Len(b) : b[i] = (n + k) - Len(b) + i
  <2> SUFFICES ASSUME NEW i \in 1 .. Len(b) PROVE b[i] = (n + k) - Len(b) + i
    BY Zenon
  <2>1. CASE i \in 1 .. Len(bu)
    <3>1. b[i] = bu[i] /\ bu[i] = n - Len(bu) + i
      BY <1>2, <2>1, Zenon DEF Flow
    <3> QED BY <1>2, <1>3, <2>1, <3>1, SMTT(30)
  <2>2. CASE i \in Len(bu) + 1 .. Len(bu) + k
    <3>1. i - Len(bu) \in 1 .. k
      BY <1>3, <2>2, SMTT(30)
    <3>2. b[i] = n + (i - Len(bu))
      BY <1>1, <1>2, <2>2, <3>1, Zenon
    <3> QED BY <1>2, <1>3, <2>2, <3>2, SMTT(30)
  <2> QED BY <1>2, <1>3, <2>1, <2>2, SMTT(30)
<1>5. Flow(wi, ha, b, n + k)
  <2>1. (n + k) - Len(b) = n - Len(bu)
    BY <1>2, <1>3, SMTT(30)
  <2>2. Len(wi) + Len(ha) + Len(b) <= n + k
    BY <1>2, <1>3, SMTT(30) DEF Flow
  <2> QED BY <1>4, <2>1, <2>2, Zenon DEF Flow
<1>6. ASSUME Gapless(wi, ha, bu, n) PROVE Gapless(wi, ha, b, n + k)
  <2>1. Len(wi) + Len(ha) + Len(b) = n + k
    <3> DEFINE a == Len(wi)
               h == Len(ha)
               c == Len(bu)
               d == Len(b)
    <3>1. a + h + c = n
      BY <1>6, Zenon DEF Gapless
    <3>2. d = c + k /\ a \in Nat /\ h \in Nat /\ c \in Nat
      BY <1>2, <1>3, Zenon
    <3> HIDE DEF a, h, c, d
    <3>3. a + h + d = n + k
      BY <3>1, <3>2, SMTT(30)
    <3> QED BY <3>3, Zenon DEF a, h, d
  <2> QED BY <1>6, <2>1, Zenon DEF Gapless
<1> QED BY <1>2, <1>5, <1>6, Zenon DEF b, p

(* A segment is taken from the front of the buffer.                        *)
LEMMA FlowPicks ==
  ASSUME NEW wi \in Seq(Nat), NEW bu \in Seq(Nat), NEW n \in Nat, NEW k \in 0 .. Len(bu),
         Flow(wi, <<>>, bu, n)
  PROVE  LET h == SubSeq(bu, 1, k)
             b == SubSeq(bu, k + 1, Len(bu))
         IN  /\ h \in Seq(Nat) /\ Len(h) = k /\ b \in Seq(Nat) /\ Len(b) = Len(bu) - k
             /\ Flow(wi, h, b, n)
             /\ Gapless(wi, <<>>, bu, n) => Gapless(wi, h, b, n)
<1> DEFINE h == SubSeq(bu, 1, k)
           b == SubSeq(bu, k + 1, Len(bu))
<1>0. Len(bu) \in Nat /\ Len(wi) \in Nat /\ k \in Nat /\ k <= Len(bu) /\ Len(<<>>) = 0
  BY Lengths, SMTT(30)
<1>1. h \in Seq(Nat) /\ Len(h) = k /\ \A i \in 1 .. k : h[i] = bu[i]
  BY <1>0, SMTT(30)
<1>2. b \in Seq(Nat) /\ Len(b) = Len(bu) - k /\ \A i \in 1 .. Len(bu) - k : b[i] = bu[i + k]
  BY <1>0, SMTT(30)
<1> HIDE DEF h, b
<1>3. \A i \in 1 .. Len(b) : b[i] = n - Len(b) + i
  <2> SUFFICES ASSUME NEW i \in 1 .. Len(bu) - k PROVE b[i] = n - Len(b) + i
    BY <1>2, Zenon
  <2>1. i + k \in 1 .. Len(bu)
    BY <1>0, SMTT(30)
  <2>2. bu[i + k] = n - Len(bu) + (i + k)
    BY <2>1, Zenon DEF Flow
  <2> QED BY <1>0, <1>2, <2>2, SMTT(30)
<1>4. \A i \in 1 .. Len(h) : h[i] = n - Len(b) - Len(h) + i
  <2> SUFFICES ASSUME NEW i \in 1 .. k PROVE h[i] = n - Len(b) - Len(h) + i
    BY <1>1, Zenon
  <2>1. i \in 1 .. Len(bu) /\ bu[i] = n - Len(bu) + i
    BY <1>0, SMTT(30) DEF Flow
  <2> QED BY <1>0, <1>1, <1>2, <2>1, SMTT(30)
<1>5. n - Len(b) - Len(h) = n - Len(bu) /\ n - Len(bu) - Len(<<>>) = n - Len(bu)
  BY <1>0, <1>1, <1>2, SMTT(30)
<1>6. Len(wi) + Len(h) + Len(b) = Len(wi) + Len(<<>>) + Len(bu)
  BY <1>0, <1>1, <1>2, SMTT(30)
<1>7. Flow(wi, h, b, n)
  BY <1>3, <1>4, <1>5, <1>6, Zenon DEF Flow
<1>8. Gapless(wi, <<>>, bu, n) => Gapless(wi, h, b, n)
  BY <1>6, Zenon DEF Gapless
<1> QED BY <1>1, <1>2, <1>7, <1>8, Zenon DEF h, b

(* All of the buffer is taken.                                             *)
LEMMA FlowAll ==
  ASSUME NEW wi \in Seq(Nat), NEW bu \in Seq(Nat), NEW n \in Nat, Flow(wi, <<>>, bu, n)
  PROVE  Flow(wi, bu, <<>>, n) /\ (Gapless(wi, <<>>, bu, n) => Gapless(wi, bu, <<>>, n))
<1> DEFINE k == Len(bu)
           h == SubSeq(bu, 1, k)
           b == SubSeq(bu, k + 1, Len(bu))
<1>1. k \in 0 .. Len(bu)
  BY SMTT(30)
<1>2. Flow(wi, h, b, n) /\ (Gapless(wi, <<>>, bu, n) => Gapless(wi, h, b, n))
  <2> HIDE DEF k
  <2> QED BY <1>1, FlowPicks, Zenon
<1>3. h = bu /\ b = <<>>
  BY SMTT(30)
<1> HIDE DEF h, b
<1> QED BY <1>2, <1>3, Zenon

(* What is in hand goes on the wire.                                       *)
LEMMA FlowSends ==
  ASSUME NEW wi \in Seq(Nat), NEW ha \in Seq(Nat), NEW bu \in Seq(Nat), NEW n \in Nat,
         Flow(wi, ha, bu, n)
  PROVE  /\ wi \o ha \in Seq(Nat) /\ Len(wi \o ha) = Len(wi) + Len(ha)
         /\ Flow(wi \o ha, <<>>, bu, n)
         /\ Gapless(wi, ha, bu, n) => Gapless(wi \o ha, <<>>, bu, n)
<1> DEFINE x == wi \o ha
           p == n - Len(bu) - Len(ha)
<1>0. Len(bu) \in Nat /\ Len(ha) \in Nat /\ Len(wi) \in Nat /\ Len(<<>>) = 0
  BY Lengths, Zenon
<1>1. /\ x \in Seq(Nat) /\ Len(x) = Len(wi) + Len(ha)
      /\ \A i \in 1 .. Len(wi) : x[i] = wi[i] /\ wi[i] \in Nat
      /\ \A i \in Len(wi) + 1 .. Len(wi) + Len(ha) : x[i] = ha[i - Len(wi)]
  BY Lengths, Zenon
<1> HIDE DEF x
<1>2. p \in Nat /\ Len(wi) <= p /\ n - Len(bu) - Len(<<>>) = p + Len(ha)
  BY <1>0, SMTT(30) DEF Flow
<1>3. ASSUME NEW i \in 1 .. Len(wi) PROVE x[i] \in Nat /\ 1 <= x[i] /\ x[i] <= p
  <2>1. 1 <= wi[i] /\ wi[i] <= p
    BY Zenon DEF Flow
  <2> QED BY <1>1, <2>1, Zenon
<1>4. ASSUME NEW i \in Len(wi) + 1 .. Len(wi) + Len(ha) PROVE x[i] = p + (i - Len(wi))
  <2>1. i - Len(wi) \in 1 .. Len(ha)
    BY <1>0, SMTT(30)
  <2>2. ha[i - Len(wi)] = p + (i - Len(wi))
    BY <2>1, Zenon DEF Flow
  <2> QED BY <1>1, <2>2, Zenon
<1>5. ASSUME NEW i \in 1 .. Len(wi), NEW j \in 1 .. Len(wi), i < j PROVE x[i] < x[j]
  <2>1. wi[i] < wi[j]
    BY <1>5, Zenon DEF Flow
  <2> QED BY <1>1, <2>1, Zenon
<1>6. Len(x) + Len(<<>>) + Len(bu) <= n
  BY <1>0, <1>1, SMTT(30) DEF Flow
<1>7. \A i \in 1 .. Len(bu) : bu[i] = n - Len(bu) + i
  BY Zenon DEF Flow
<1> HIDE DEF p
<1>8. ASSUME NEW i \in 1 .. Len(x) PROVE 1 <= x[i] /\ x[i] <= p + Len(ha)
  <2>1. CASE i \in 1 .. Len(wi)
    BY <1>0, <1>2, <1>3, <2>1, SMTT(30)
  <2>2. CASE i \in Len(wi) + 1 .. Len(wi) + Len(ha)
    BY <1>0, <1>2, <1>4, <2>2, SMTT(30)
  <2> QED BY <1>0, <1>1, <2>1, <2>2, SMTT(30)
<1>9. ASSUME NEW i \in 1 .. Len(x), NEW j \in 1 .. Len(x), i < j PROVE x[i] < x[j]
  <2>1. CASE j \in 1 .. Len(wi)
    <3>1. i \in 1 .. Len(wi)
      BY <1>0, <1>9, <2>1, SMTT(30)
    <3> QED BY <1>5, <1>9, <2>1, <3>1, Zenon
  <2>2. CASE j \in Len(wi) + 1 .. Len(wi) + Len(ha)
    <3>1. x[j] = p + (j - Len(wi))
      BY <1>4, <2>2, Zenon
    <3>2. CASE i \in 1 .. Len(wi)
      <4>1. x[i] \in Nat /\ x[i] <= p
        BY <1>3, <3>2, Zenon
      <4> QED BY <1>0, <1>2, <2>2, <3>1, <4>1, SMTT(30)
    <3>3. CASE i \in Len(wi) + 1 .. Len(wi) + Len(ha)
      <4>1. x[i] = p + (i - Len(wi))
        BY <1>4, <3>3, Zenon
      <4> QED BY <1>0, <1>2, <1>9, <2>2, <3>1, <3>3, <4>1, SMTT(30)
    <3> QED BY <1>0, <1>1, <3>2, <3>3, SMTT(30)
  <2> QED BY <1>0, <1>1, <2>1, <2>2, SMTT(30)
<1>10. Flow(x, <<>>, bu, n)
  BY <1>0, <1>2, <1>6, <1>7, <1>8, <1>9, SMTT(30) DEF Flow
<1>11. ASSUME Gapless(wi, ha, bu, n) PROVE Gapless(x, <<>>, bu, n)
  <2>1. Len(x) + Len(<<>>) + Len(bu) = n /\ p = Len(wi)
    BY <1>0, <1>1, <1>11, SMTT(30) DEF Gapless, p
  <2>2. ASSUME NEW i \in 1 .. Len(x) PROVE x[i] = i
    <3>1. CASE i \in 1 .. Len(wi)
      BY <1>1, <1>11, <3>1, Zenon DEF Gapless
    <3>2. CASE i \in Len(wi) + 1 .. Len(wi) + Len(ha)
      BY <1>0, <1>4, <2>1, <3>2, SMTT(30)
    <3> QED BY <1>0, <1>1, <3>1, <3>2, SMTT(30)
  <2> QED BY <2>1, <2>2, Zenon DEF Gapless
<1> QED BY <1>1, <1>10, <1>11, Zenon DEF x

(* What is in hand is given up.                                            *)
LEMMA FlowDrops ==
  ASSUME NEW wi \in Seq(Nat), NEW ha \in Seq(Nat), NEW bu \in Seq(Nat), NEW n \in Nat,
         Flow(wi, ha, bu, n)
  PROVE  Flow(wi, <<>>, bu, n)
<1>0. Len(bu) \in Nat /\ Len(ha) \in Nat /\ Len(wi) \in Nat /\ Len(<<>>) = 0
  BY Lengths, Zenon
<1>1. ASSUME NEW i \in 1 .. Len(wi) PROVE 1 <= wi[i] /\ wi[i] <= n - Len(bu) - Len(<<>>)
  <2>1. wi[i] \in Nat /\ 1 <= wi[i] /\ wi[i] <= n - Len(bu) - Len(ha)
    BY Lengths, Zenon DEF Flow
  <2> QED BY <1>0, <2>1, SMTT(30)
<1>2. Len(wi) + Len(<<>>) + Len(bu) <= n
  BY <1>0, SMTT(30) DEF Flow
<1> QED BY <1>0, <1>1, <1>2, SMTT(30) DEF Flow

-----------------------------------------------------------------------------
(* What a step does to a writer or a flusher.                              *)

(* Writer w is now r, and the others as before.                            *)
Became(w, r) ==
  /\ wr' \in [Writer -> WriterType] /\ wr'[w] = r
  /\ \A v \in Writer : v # w => wr'[v] = wr[v]

FBecame(f, r) ==
  /\ fl' \in [Flusher -> FlusherType] /\ fl'[f] = r
  /\ \A g \in Flusher : g # f => fl'[g] = fl[g]

LEMMA SetWriter ==
  ASSUME Types, NEW w \in Writer, NEW r \in WriterType, SetW(w, r) PROVE Became(w, r)
BY Zenon DEF Types, SetW, Became

LEMMA SetFlusher ==
  ASSUME Types, NEW f \in Flusher, NEW r \in FlusherType, SetF(f, r) PROVE FBecame(f, r)
BY Zenon DEF Types, SetF, FBecame

(* The bytes are where they were.                                          *)
LEMMA DataSame ==
  ASSUME DataInv, UNCHANGED <<wire, buf, count>>, Hand' = Hand, Whole' => Whole PROVE DataInv'
BY Zenon DEF DataInv, Flow, Gapless

(* Whose segment is in hand.                                               *)
LEMMA HandFacts ==
  ASSUME Sizes, Types, LockInv
  PROVE  /\ Hand \in Seq(Nat)
         /\ \A w \in Writer : wr[w].pc \in {"window", "wait"} => Hand = wr[w].seg
         /\ \A f \in Flusher : fl[f].pc = "send" => Hand = fl[f].seg
         /\ (/\ \A w \in Writer : wr[w].pc \notin {"window", "wait"}
             /\ \A f \in Flusher : fl[f].pc # "send") => Hand = <<>>
         /\ sendMu = Nobody => Hand = <<>>
<1>1. \A w \in Writer : wr[w].seg \in Seq(Nat)
  BY Zenon DEF Types, WriterType
<1>2. \A f \in Flusher : fl[f].seg \in Seq(Nat)
  BY Zenon DEF Types, FlusherType
<1>3. <<>> \in Seq(Nat)
  BY SMTT(30)
<1> QED BY <1>1, <1>2, <1>3, Zenon DEF Hand, LockInv, Sizes

InSend == {"look", "window", "wait"}
InWait == {"window", "wait"}

(* The flushers, but for their comings and goings outside SendMu.          *)
FlushersKeep ==
  /\ fl' \in [Flusher -> FlusherType]
  /\ \A f \in Flusher : \/ fl'[f] = fl[f]
                        \/ /\ fl[f].pc \notin {"look", "send"} /\ fl'[f].pc \notin {"look", "send"}
                           /\ fl'[f].seg = fl[f].seg

(* A writer goes on without moving a byte.                                 *)
WriterMoves(w, r) ==
  /\ Became(w, r) /\ FlushersKeep
  /\ r.refused = wr[w].refused /\ r.gaveUp = wr[w].gaveUp
  /\ wr[w].pc # "idle" /\ (wr[w].pc \in InWait <=> r.pc \in InWait)
  /\ r.pc \in InWait => r.seg = wr[w].seg /\ r.last = wr[w].last
  /\ r.pc \in InSend => sendMu' = w /\ sendMu \in {w, Nobody}
  /\ r.pc \notin InSend => sendMu' = IF wr[w].pc \in InSend THEN Nobody ELSE sendMu
  /\ writeMu' = IF r.pc = "idle" THEN Nobody ELSE writeMu
  /\ r.pc \in {"piece", "flushed"} => Len(buf) < Seg
  /\ r.pc = "idle" => state # "est" \/ Len(buf) < Seg
  /\ {tailFlusher, nagleCh, windowCh}' \subseteq BOOLEAN
  /\ UNCHANGED <<buf, count, wire, unacked, state, removed, closer, fin>>

LEMMA WriterMovesInv ==
  ASSUME Sizes, IInv, NEW w \in Writer, NEW r, WriterMoves(w, r) PROVE IInv'
<1>0. Types /\ LockInv /\ DataInv /\ RoomInv /\ FinInv /\ SegInv
  BY Zenon DEF IInv
<1>1. Became(w, r) /\ r \in WriterType
  BY Zenon DEF WriterMoves, Became
<1>2. Types'
  <2>1. wr' \in [Writer -> WriterType] /\ fl' \in [Flusher -> FlusherType]
    BY Zenon DEF WriterMoves, Became, FlushersKeep
  <2>2. tailFlusher' \in BOOLEAN /\ nagleCh' \in BOOLEAN /\ windowCh' \in BOOLEAN
    BY Zenon DEF WriterMoves
  <2>3. sendMu' \in Writer \cup Flusher \cup {Nobody} /\ writeMu' \in Writer \cup {Nobody}
    BY <1>0, Zenon DEF WriterMoves, Types
  <2>4. UNCHANGED <<buf, count, wire, state, removed, closer, fin>>
    BY Zenon DEF WriterMoves
  <2> QED BY <1>0, <2>1, <2>2, <2>3, <2>4, Zenon DEF Types
<1>3. LockInv'
  <2>1. sendMu \in {w, Nobody} \/ sendMu' = sendMu \/ (sendMu = w /\ sendMu' = Nobody)
    BY <1>0, Zenon DEF WriterMoves, LockInv, InSend
  <2>2. wr'[w].pc # "idle" <=> writeMu' = w
    BY <1>0, <1>1, Zenon DEF WriterMoves, LockInv, Became, Sizes
  <2>3. wr'[w].pc \in {"look", "window", "wait"} <=> sendMu' = w
    BY <1>0, <1>1, SMTT(30) DEF WriterMoves, LockInv, Became, Sizes, InSend
  <2>4. ASSUME NEW v \in Writer, v # w
        PROVE  /\ wr'[v].pc # "idle" <=> writeMu' = v
               /\ wr'[v].pc \in {"look", "window", "wait"} <=> sendMu' = v
    BY <1>0, <2>4, <2>1, <2>3, SMTT(30) DEF WriterMoves, LockInv, Became, Sizes, InSend
  <2>5. ASSUME NEW f \in Flusher PROVE fl'[f].pc \in {"look", "send"} <=> sendMu' = f
    <3>1. f # w /\ f # Nobody
      BY Zenon DEF Sizes
    <3>2. fl'[f].pc \in {"look", "send"} <=> fl[f].pc \in {"look", "send"}
      BY Zenon DEF WriterMoves, FlushersKeep
    <3>3. sendMu' = f <=> sendMu = f
      BY <1>0, <2>1, <3>1, Zenon DEF WriterMoves, LockInv, InSend
    <3> QED BY <1>0, <3>2, <3>3, Zenon DEF LockInv
  <2> QED BY <2>2, <2>3, <2>4, <2>5, Zenon DEF LockInv
<1>4. SegInv'
  BY <1>0, <1>1, Zenon DEF SegInv, WriterMoves, Became, FlushersKeep, InWait
<1>5. Whole' => Whole
  BY <1>1, Zenon DEF Whole, WriterMoves, Became
<1>6. Hand' = Hand
  <2>1. CASE wr[w].pc \in InWait
    BY <1>0, <1>2, <1>3, <2>1, HandFacts, SMTT(30) DEF WriterMoves, Became, Hand, LockInv, InWait, InSend
  <2>2. CASE wr[w].pc \notin InWait
    <3>1. wr'[w].pc \notin InWait
      BY <2>2, Zenon DEF WriterMoves, Became
    <3>2. CASE sendMu = w \/ sendMu = Nobody
      BY <1>0, <2>2, <3>1, <3>2, SMTT(30) DEF WriterMoves, Became, Hand, LockInv, InWait, InSend, Sizes
    <3>3. CASE sendMu # w /\ sendMu # Nobody
      <4>1. sendMu' = sendMu
        BY <1>0, <3>3, Zenon DEF WriterMoves, LockInv, InSend
      <4> QED BY <1>0, <3>3, <4>1, Zenon DEF WriterMoves, Became, Hand, LockInv, FlushersKeep
    <3> QED BY <3>2, <3>3, Zenon
  <2> QED BY <2>1, <2>2, Zenon
<1>7. DataInv'
  BY <1>0, <1>5, <1>6, DataSame, Zenon DEF WriterMoves
<1>8. RoomInv'
  BY <1>0, <1>1, Zenon DEF RoomInv, WriterMoves, Became, InWait
<1>9. FinInv'
  BY <1>0, <1>1, Zenon DEF FinInv, FinAfterData, WriterMoves, Became
<1> QED BY <1>2, <1>3, <1>4, <1>7, <1>8, <1>9, Zenon DEF IInv

(* While a writer is in a write, the others are outside.                   *)
LEMMA OneWriter ==
  ASSUME LockInv, NEW w \in Writer, wr[w].pc # "idle"
  PROVE  writeMu = w /\ \A v \in Writer : v # w => wr[v].pc = "idle"
BY Zenon DEF LockInv

(* A write begins.                                                         *)
LEMMA WriteBegins ==
  ASSUME Sizes, IInv, NEW w \in Writer, SendData(w) PROVE IInv'
<1>0. Types /\ LockInv /\ DataInv /\ RoomInv /\ FinInv /\ SegInv
  BY Zenon DEF IInv
<1>1. /\ wr[w].pc = "idle" /\ wr[w] \in WriterType /\ Head(wr[w].todo) \in Nat
      /\ Tail(wr[w].todo) \in Seq(Nat)
  <2>1. wr[w] \in WriterType /\ wr[w].todo \in Seq(Nat) /\ wr[w].todo # <<>>
    BY <1>0, Zenon DEF SendData, Types, WriterType
  <2>2. Head(wr[w].todo) \in Nat /\ Tail(wr[w].todo) \in Seq(Nat)
    BY <2>1, SMTT(30)
  <2> QED BY <2>1, <2>2, Zenon DEF SendData, At
<1>2. PICK r \in WriterType :
        /\ SetW(w, r) /\ r.seg = wr[w].seg /\ r.last = wr[w].last /\ r.refused = wr[w].refused
        /\ r.gaveUp = wr[w].gaveUp
        /\ \/ state # "est" /\ r.pc = "idle" /\ UNCHANGED <<writeMu, fin>>
           \/ /\ state = "est" /\ writeMu = Nobody /\ r.pc = "piece" /\ writeMu' = w
              /\ fin' = [fin EXCEPT !.busy = @ \/ closer # "off"]
  <2>1. CASE state # "est"
    <3> DEFINE r == [wr[w] EXCEPT !.todo = Tail(wr[w].todo)]
    <3>1. /\ r \in WriterType /\ r.pc = "idle" /\ r.seg = wr[w].seg /\ r.last = wr[w].last
          /\ r.refused = wr[w].refused /\ r.gaveUp = wr[w].gaveUp
      BY <1>1, Zenon DEF WriterType
    <3>2. SetW(w, r) /\ UNCHANGED <<writeMu, fin>>
      BY <2>1, Zenon DEF SendData
    <3> QED BY <2>1, <3>1, <3>2, Zenon
  <2>2. CASE state = "est"
    <3> DEFINE t == Head(wr[w].todo) >= Seg
               r == [wr[w] EXCEPT !.pc = "piece", !.cur = Head(wr[w].todo), !.todo = Tail(wr[w].todo),
                                  !.tailNow = t]
    <3>0. t \in BOOLEAN
      BY SMTT(30)
    <3>1. /\ r \in WriterType /\ r.pc = "piece" /\ r.seg = wr[w].seg /\ r.last = wr[w].last
          /\ r.refused = wr[w].refused /\ r.gaveUp = wr[w].gaveUp
      <4> HIDE DEF t
      <4> QED BY <1>1, <3>0, Zenon DEF WriterType
    <3>2. SetW(w, r) /\ writeMu = Nobody /\ writeMu' = w /\ fin' = [fin EXCEPT !.busy = @ \/ closer # "off"]
      BY <2>2, Zenon DEF SendData
    <3> QED BY <2>2, <3>1, <3>2, Zenon
  <2> QED BY <2>1, <2>2, Zenon
<1>3. Became(w, r)
  BY <1>0, <1>2, SetWriter, Zenon
<1>4. UNCHANGED <<state, removed, closer, buf, count, sendMu, tailFlusher, nagleCh, windowCh, unacked, wire, fl>>
  BY Zenon DEF SendData, Out
<1>5. fin' \in FinType /\ fin'.done = fin.done /\ fin'.sent = fin.sent /\ fin'.taken = fin.taken
      /\ (~fin'.busy => ~fin.busy /\ (r.pc = "piece" => closer = "off"))
  BY <1>0, <1>2, Zenon DEF Types, FinType
<1>6. Types'
  BY <1>0, <1>2, <1>3, <1>4, <1>5, Zenon DEF Types, Became
<1>7. LockInv'
  <2>1. writeMu # w
    BY <1>0, <1>1, Zenon DEF LockInv
  <2>2. wr'[w].pc # "idle" <=> writeMu' = w
    BY <1>2, <1>3, <2>1, Zenon DEF Became
  <2>3. \A v \in Writer : v # w => wr'[v] = wr[v] /\ (writeMu' = v <=> writeMu = v)
    BY <1>2, <1>3, Zenon DEF Became, Sizes
  <2>4. wr'[w].pc \notin {"look", "window", "wait"} /\ sendMu' # w
    BY <1>0, <1>1, <1>2, <1>3, <1>4, Zenon DEF LockInv, Became
  <2> QED BY <1>0, <1>4, <2>2, <2>3, <2>4, Zenon DEF LockInv
<1>8. SegInv'
  BY <1>0, <1>2, <1>3, <1>4, Zenon DEF SegInv, Became
<1>9. Whole' => Whole
  BY <1>2, <1>3, Zenon DEF Whole, Became
<1>10. Hand' = Hand
  BY <1>0, <1>1, <1>2, <1>3, <1>4, Zenon DEF Hand, Became, Sizes
<1>11. DataInv'
  BY <1>0, <1>4, <1>9, <1>10, DataSame, Zenon
<1>12. RoomInv'
  BY <1>0, <1>1, <1>2, <1>3, <1>4, Zenon DEF RoomInv, Became
<1>13. FinInv'
  BY <1>0, <1>1, <1>2, <1>3, <1>4, <1>5, Zenon DEF FinInv, FinAfterData, Became
<1> QED BY <1>6, <1>7, <1>8, <1>11, <1>12, <1>13, Zenon DEF IInv

(* A piece joins the buffer: it always has room.                           *)
LEMMA PieceJoins ==
  ASSUME Sizes, IInv, NEW w \in Writer, sendDataPiece(w) PROVE IInv'
<1> DEFINE n == Smaller(wr[w].cur, Piece)
           r == [wr[w] EXCEPT !.pc = "lock", !.cur = wr[w].cur - n]
           b == buf \o [i \in 1 .. n |-> count + i]
<1>0. Types /\ LockInv /\ DataInv /\ RoomInv /\ FinInv /\ SegInv
  BY Zenon DEF IInv
<1>1. /\ wr[w].pc = "piece" /\ wr[w] \in WriterType /\ wr[w].cur \in Nat
      /\ n \in Nat /\ n <= Piece /\ n <= wr[w].cur
  <2>1. wr[w].pc = "piece" /\ wr[w] \in WriterType /\ wr[w].cur \in Nat
    BY <1>0, Zenon DEF sendDataPiece, At, Types, WriterType
  <2>2. Piece \in Nat
    BY Zenon DEF Sizes
  <2> QED BY <2>1, <2>2, SMTT(30) DEF Smaller
<1>2. Len(buf) \in Nat /\ Len(buf) < Seg
  BY <1>0, <1>1, SMTT(30) DEF Types, RoomInv
<1>3. ~(Len(buf) + n > MaxBuf)
  BY <1>1, <1>2, SMTT(30) DEF Sizes
<1>4. buf' = b /\ count' = count + n /\ SetW(w, r)
      /\ UNCHANGED <<writeMu, sendMu, tailFlusher, nagleCh, windowCh, unacked, wire, fl, state, removed, closer, fin>>
  BY <1>3, Zenon DEF sendDataPiece, Out, Conn
<1>5. /\ r \in WriterType /\ r.pc = "lock" /\ r.seg = wr[w].seg /\ r.last = wr[w].last
      /\ r.refused = wr[w].refused /\ r.gaveUp = wr[w].gaveUp
  <2>1. wr[w].cur - n \in Nat
    BY <1>1, SMTT(30)
  <2> HIDE DEF n
  <2> QED BY <1>1, <2>1, Zenon DEF WriterType
<1> HIDE DEF r, n
<1>6. Became(w, r)
  BY <1>0, <1>4, <1>5, SetWriter, Zenon
<1>7. writeMu = w /\ \A v \in Writer : v # w => wr[v].pc = "idle"
  BY <1>0, <1>1, OneWriter, Zenon
<1>8. Hand' = Hand /\ Hand \in Seq(Nat) /\ (Whole' => Whole)
  <2>1. Hand \in Seq(Nat)
    BY <1>0, HandFacts, Zenon
  <2>2. Hand' = Hand
    BY <1>1, <1>4, <1>5, <1>6, Zenon DEF Hand, Became
  <2>3. Whole' => Whole
    BY <1>5, <1>6, Zenon DEF Whole, Became
  <2> QED BY <2>1, <2>2, <2>3, Zenon
<1>9. b \in Seq(Nat) /\ DataInv'
  <2>1. wire \in Seq(Nat) /\ buf \in Seq(Nat) /\ count \in Nat /\ Flow(wire, Hand, buf, count)
        /\ (Whole => Gapless(wire, Hand, buf, count))
    BY <1>0, Zenon DEF Types, DataInv
  <2>2. /\ b \in Seq(Nat) /\ Flow(wire, Hand, b, count + n)
        /\ Gapless(wire, Hand, buf, count) => Gapless(wire, Hand, b, count + n)
    BY <1>1, <1>8, <2>1, FlowTakes, SMTT(30)
  <2> HIDE DEF b
  <2> QED BY <1>4, <1>8, <2>1, <2>2, Zenon DEF DataInv
<1> HIDE DEF b
<1>10. Types'
  BY <1>0, <1>1, <1>4, <1>6, <1>9, SMTT(30) DEF Types, Became
<1>11. LockInv'
  BY <1>0, <1>1, <1>4, <1>5, <1>6, Zenon DEF LockInv, Became
<1>12. SegInv'
  BY <1>0, <1>4, <1>5, <1>6, Zenon DEF SegInv, Became
<1>13. RoomInv'
  BY <1>0, <1>4, <1>5, <1>6, <1>7, Zenon DEF RoomInv, Became, Sizes
<1>14. FinInv'
  BY <1>0, <1>1, <1>4, <1>5, <1>6, Zenon DEF FinInv, FinAfterData, Became
<1> QED BY <1>9, <1>10, <1>11, <1>12, <1>13, <1>14, Zenon DEF IInv

(* A writer takes the first k bytes of the buffer in hand.                 *)
WriterPicks(w, r, k) ==
  /\ Became(w, r) /\ wr[w].pc = "look" /\ r.pc = "window"
  /\ r.refused = wr[w].refused /\ r.gaveUp = wr[w].gaveUp
  /\ k \in 1 .. Len(buf) /\ k <= Seg /\ (r.last => k = Len(buf))
  /\ r.seg = SubSeq(buf, 1, k) /\ buf' = SubSeq(buf, k + 1, Len(buf))
  /\ UNCHANGED <<count, wire, unacked, writeMu, sendMu, tailFlusher, nagleCh, windowCh, fl,
                 state, removed, closer, fin>>

LEMMA WriterPicksInv ==
  ASSUME Sizes, IInv, NEW w \in Writer, NEW r, NEW k, WriterPicks(w, r, k) PROVE IInv'
<1>0. Types /\ LockInv /\ DataInv /\ RoomInv /\ FinInv /\ SegInv
  BY Zenon DEF IInv
<1>1. Became(w, r) /\ wr[w].pc = "look" /\ r.pc = "window" /\ k \in Nat /\ k \in 0 .. Len(buf)
  BY SMTT(30) DEF WriterPicks
<1>2. sendMu = w /\ writeMu = w /\ (\A v \in Writer : v # w => wr[v].pc = "idle") /\ Nobody # w
  BY <1>0, <1>1, OneWriter, Zenon DEF LockInv, Sizes
<1>3. Hand = <<>> /\ Hand' = r.seg /\ (Whole' => Whole)
  <2>1. Hand = <<>>
    BY <1>1, <1>2, Zenon DEF Hand, Sizes
  <2>2. Hand' = r.seg
    BY <1>1, <1>2, Zenon DEF Hand, WriterPicks, Became
  <2>3. Whole' => Whole
    BY Zenon DEF WriterPicks, Whole, Became
  <2> QED BY <2>1, <2>2, <2>3, Zenon
<1>4. /\ r.seg \in Seq(Nat) /\ Len(r.seg) = k /\ buf' \in Seq(Nat) /\ Len(buf') = Len(buf) - k
      /\ DataInv'
  <2>1. wire \in Seq(Nat) /\ buf \in Seq(Nat) /\ count \in Nat /\ Flow(wire, <<>>, buf, count)
        /\ (Whole => Gapless(wire, <<>>, buf, count))
    BY <1>0, <1>3, Zenon DEF Types, DataInv
  <2> DEFINE h == SubSeq(buf, 1, k)
             b == SubSeq(buf, k + 1, Len(buf))
  <2>2. /\ h \in Seq(Nat) /\ Len(h) = k /\ b \in Seq(Nat) /\ Len(b) = Len(buf) - k
        /\ Flow(wire, h, b, count)
        /\ Gapless(wire, <<>>, buf, count) => Gapless(wire, h, b, count)
    BY <1>1, <2>1, FlowPicks, Zenon
  <2>3. r.seg = h /\ buf' = b /\ UNCHANGED <<wire, count>>
    BY Zenon DEF WriterPicks
  <2> HIDE DEF h, b
  <2> QED BY <1>3, <2>1, <2>2, <2>3, Zenon DEF DataInv
<1>5. Types'
  BY <1>0, <1>1, <1>4, Zenon DEF Types, Became, WriterPicks
<1>6. LockInv'
  BY <1>0, <1>1, <1>2, Zenon DEF LockInv, Became, WriterPicks
<1>7. SegInv'
  <2>1. Len(r.seg) \in 1 .. Seg
    BY <1>4, SMTT(30) DEF WriterPicks, Sizes
  <2> QED BY <1>0, <1>1, <2>1, Zenon DEF SegInv, Became, WriterPicks
<1>8. RoomInv'
  <2>1. Len(buf) \in Nat /\ buf' \in Seq(Nat)
    BY <1>0, <1>4, SMTT(30) DEF Types
  <2>2. r.last => buf' = <<>>
    <3>1. r.last => Len(buf') = 0
      BY <1>4, <2>1, SMTT(30) DEF WriterPicks
    <3> QED BY <2>1, <3>1, SMTT(30)
  <2>3. \A v \in Writer : v # w => wr'[v] = wr[v] /\ wr[v].pc = "idle"
    BY <1>1, <1>2, Zenon DEF Became
  <2> QED BY <1>0, <1>1, <1>2, <2>2, <2>3, Zenon DEF RoomInv, Became, WriterPicks
<1>9. FinInv'
  BY <1>0, <1>1, Zenon DEF FinInv, FinAfterData, Became, WriterPicks
<1> QED BY <1>4, <1>5, <1>6, <1>7, <1>8, <1>9, Zenon DEF IInv

(* The segment in flight keeps the types.                                  *)
LEMMA InFlight ==
  ASSUME unacked \in Seq([n : 1 .. Seg, sacked : BOOLEAN]), NEW seg \in Seq(Nat),
         Len(seg) \in 1 .. Seg, transmitSegment(seg)
  PROVE  unacked' \in Seq([n : 1 .. Seg, sacked : BOOLEAN])
<1> DEFINE R == [n : 1 .. Seg, sacked : BOOLEAN]
           x == [n |-> Len(seg), sacked |-> FALSE]
<1>1. x \in R
  BY Zenon
<1>2. unacked' = Append(unacked, x)
  BY Zenon DEF transmitSegment
<1> HIDE DEF R, x
<1> QED BY <1>1, <1>2, SMTT(30) DEF R

(* A writer's segment goes on the wire.                                    *)
WriterSends(w, r) ==
  /\ Became(w, r) /\ wr[w].pc = "window" /\ r.pc \in {"flushed", "look", "failed"}
  /\ r.refused = wr[w].refused /\ r.gaveUp = wr[w].gaveUp
  /\ r.pc = "flushed" => wr[w].last
  /\ transmitSegment(wr[w].seg)
  /\ sendMu' = IF r.pc = "look" THEN sendMu ELSE Nobody
  /\ UNCHANGED <<buf, count, writeMu, tailFlusher, nagleCh, windowCh, fl, state, removed, closer, fin>>

LEMMA WriterSendsInv ==
  ASSUME Sizes, IInv, NEW w \in Writer, NEW r, WriterSends(w, r) PROVE IInv'
<1>0. Types /\ LockInv /\ DataInv /\ RoomInv /\ FinInv /\ SegInv
  BY Zenon DEF IInv
<1>1. Became(w, r) /\ wr[w].pc = "window" /\ r.pc \in {"flushed", "look", "failed"}
      /\ wire' = wire \o wr[w].seg /\ wr[w].seg \in Seq(Nat)
  BY <1>0, Zenon DEF WriterSends, transmitSegment, Types, WriterType
<1>2. sendMu = w /\ writeMu = w /\ (\A v \in Writer : v # w => wr[v].pc = "idle") /\ Nobody # w
  BY <1>0, <1>1, OneWriter, Zenon DEF LockInv, Sizes
<1>3. Hand = wr[w].seg /\ Hand' = <<>> /\ (Whole' => Whole)
  <2>1. Hand = wr[w].seg
    BY <1>1, <1>2, Zenon DEF Hand
  <2>2. Hand' = <<>>
    BY <1>1, <1>2, Zenon DEF Hand, WriterSends, Became, Sizes
  <2>3. Whole' => Whole
    BY Zenon DEF WriterSends, Whole, Became
  <2> QED BY <2>1, <2>2, <2>3, Zenon
<1>4. wire' \in Seq(Nat) /\ DataInv'
  <2>1. wire \in Seq(Nat) /\ buf \in Seq(Nat) /\ count \in Nat /\ Flow(wire, wr[w].seg, buf, count)
        /\ (Whole => Gapless(wire, wr[w].seg, buf, count))
    BY <1>0, <1>3, Zenon DEF Types, DataInv
  <2>2. /\ wire' \in Seq(Nat) /\ Flow(wire', <<>>, buf, count)
        /\ Gapless(wire, wr[w].seg, buf, count) => Gapless(wire', <<>>, buf, count)
    BY <1>1, <2>1, FlowSends, Zenon
  <2> QED BY <1>3, <2>1, <2>2, Zenon DEF DataInv, WriterSends
<1>5. Types'
  BY <1>0, <1>1, <1>2, <1>4, Zenon DEF Types, Became, WriterSends
<1>6. LockInv'
  <2>1. \A v \in Writer : v # w => wr'[v] = wr[v] /\ sendMu' # v /\ sendMu # v /\ writeMu # v
    BY <1>1, <1>2, Zenon DEF Became, WriterSends, Sizes
  <2>2. \A f \in Flusher : sendMu' # f /\ sendMu # f
    BY <1>1, <1>2, Zenon DEF WriterSends, Sizes
  <2>3. wr'[w].pc # "idle" /\ (wr'[w].pc \in {"look", "window", "wait"} <=> sendMu' = w)
    BY <1>1, <1>2, Zenon DEF Became, WriterSends
  <2> QED BY <1>0, <1>2, <2>1, <2>2, <2>3, SMTT(30) DEF LockInv, WriterSends
<1>7. SegInv'
  <2>1. unacked' \in Seq([n : 1 .. Seg, sacked : BOOLEAN])
    BY <1>0, <1>1, InFlight, Zenon DEF SegInv, WriterSends
  <2> QED BY <1>0, <1>1, <2>1, Zenon DEF SegInv, Became, WriterSends
<1>8. RoomInv'
  <2>1. r.pc = "flushed" => Len(buf) < Seg
    <3>1. r.pc = "flushed" => buf = <<>>
      BY <1>0, <1>1, Zenon DEF RoomInv, WriterSends
    <3>2. Len(<<>>) = 0 /\ 0 < Seg
      BY SMTT(30) DEF Sizes
    <3> QED BY <3>1, <3>2, Zenon
  <2>2. \A v \in Writer : v # w => wr'[v] = wr[v] /\ wr[v].pc = "idle"
    BY <1>1, <1>2, Zenon DEF Became
  <2> QED BY <1>0, <1>1, <1>2, <2>1, <2>2, Zenon DEF RoomInv, Became, WriterSends
<1>9. FinInv'
  BY <1>0, <1>1, Zenon DEF FinInv, FinAfterData, Became, WriterSends
<1> QED BY <1>4, <1>5, <1>6, <1>7, <1>8, <1>9, Zenon DEF IInv

(* A write gives up its segment: the connection is over.                   *)
LEMMA GivesUpInv ==
  ASSUME Sizes, IInv, NEW w \in Writer, wr[w].pc = "wait", GivesUp(w),
         state' \in {"closed", state}, state' # "est",
         UNCHANGED <<windowCh, removed, buf, count, tailFlusher, nagleCh, unacked, wire, fl, closer, fin>>
  PROVE  IInv'
<1> DEFINE r == [wr[w] EXCEPT !.pc = "idle", !.cur = 0, !.seg = <<>>, !.gaveUp = TRUE]
<1>0. Types /\ LockInv /\ DataInv /\ RoomInv /\ FinInv /\ SegInv
  BY Zenon DEF IInv
<1>1. r \in WriterType /\ r.pc = "idle" /\ r.refused = wr[w].refused /\ r.gaveUp
  <2>1. wr[w] \in WriterType /\ <<>> \in Seq(Nat)
    BY <1>0, SMTT(30) DEF Types
  <2> QED BY <2>1, Zenon DEF WriterType
<1>2. Became(w, r) /\ writeMu' = Nobody /\ sendMu' = Nobody
  BY <1>0, <1>1, SetWriter, Zenon DEF GivesUp
<1> HIDE DEF r
<1>3. sendMu = w /\ writeMu = w /\ (\A v \in Writer : v # w => wr[v].pc = "idle") /\ Nobody # w
  BY <1>0, OneWriter, Zenon DEF LockInv, Sizes
<1>4. Hand \in Seq(Nat) /\ Hand' = <<>> /\ ~Whole'
  <2>1. Hand' = <<>>
    BY <1>2, Zenon DEF Hand, Sizes
  <2>2. ~Whole'
    BY <1>1, <1>2, Zenon DEF Whole, Became
  <2> QED BY <1>0, <2>1, <2>2, HandFacts, Zenon
<1>5. DataInv'
  <2>1. wire \in Seq(Nat) /\ buf \in Seq(Nat) /\ count \in Nat /\ Flow(wire, Hand, buf, count)
    BY <1>0, Zenon DEF Types, DataInv
  <2>2. Flow(wire, <<>>, buf, count)
    BY <1>4, <2>1, FlowDrops, Zenon
  <2> QED BY <1>4, <2>2, Zenon DEF DataInv
<1>6. Types'
  BY <1>0, <1>2, Zenon DEF Types, Became
<1>7. LockInv'
  <2>1. \A v \in Writer : v # w => wr'[v] = wr[v] /\ sendMu # v /\ writeMu # v
    BY <1>2, <1>3, Zenon DEF Became
  <2>2. \A f \in Flusher : sendMu # f /\ f # Nobody
    BY <1>3, Zenon DEF Sizes
  <2>3. \A v \in Writer : v # Nobody
    BY Zenon DEF Sizes
  <2> QED BY <1>0, <1>1, <1>2, <2>1, <2>2, <2>3, Zenon DEF LockInv, Became
<1>8. SegInv'
  BY <1>0, <1>1, <1>2, Zenon DEF SegInv, Became
<1>9. RoomInv'
  BY <1>0, <1>1, <1>2, Zenon DEF RoomInv, Became
<1>10. FinInv'
  BY <1>0, <1>2, Zenon DEF FinInv, FinAfterData, Became
<1> QED BY <1>5, <1>6, <1>7, <1>8, <1>9, <1>10, Zenon DEF IInv

(* Every step of a writer.                                                 *)
LEMMA WriterInv ==
  ASSUME Sizes, IInv, NEW w \in Writer, WriterStep(w) PROVE IInv'
<1>0. Types /\ LockInv /\ RoomInv /\ SegInv
  BY Zenon DEF IInv
<1> DEFINE To(pc) == [wr[w] EXCEPT !.pc = pc]
           Home == [wr[w] EXCEPT !.pc = "idle", !.cur = 0, !.seg = <<>>]
           PC == {"idle", "piece", "lock", "look", "window", "wait", "failed", "flushed"}
<1>1. wr[w] \in WriterType /\ <<>> \in Seq(Nat)
  BY <1>0, SMTT(30) DEF Types
<1>2. \A pc \in PC : /\ To(pc) \in WriterType /\ To(pc).pc = pc /\ To(pc).seg = wr[w].seg
                     /\ To(pc).last = wr[w].last /\ To(pc).refused = wr[w].refused
                     /\ To(pc).gaveUp = wr[w].gaveUp
  BY <1>1, Zenon DEF WriterType
<1>3. Home \in WriterType /\ Home.pc = "idle" /\ Home.refused = wr[w].refused /\ Home.gaveUp = wr[w].gaveUp
  BY <1>1, Zenon DEF WriterType
<1>4. FlushersKeep \/ fl' # fl
  BY <1>0, Zenon DEF FlushersKeep, Types
<1>5. {tailFlusher, nagleCh, windowCh} \subseteq BOOLEAN
  BY <1>0, Zenon DEF Types
<1>6. \A pc \in PC : SetW(w, To(pc)) => Became(w, To(pc))
  BY <1>0, <1>2, SetWriter, Zenon
<1>7. SetW(w, Home) => Became(w, Home)
  BY <1>0, <1>3, SetWriter, Zenon
<1>8. wr[w].pc \in InSend <=> sendMu = w
  BY <1>0, Zenon DEF LockInv, InSend
<1> HIDE DEF To, Home
<1>9. ASSUME FlushLocks(w) PROVE IInv'
  <2>1. SetW(w, To("look")) /\ wr[w].pc = "lock" /\ sendMu = Nobody /\ sendMu' = w
        /\ UNCHANGED <<buf, count, writeMu, tailFlusher, Out, fl, Conn>>
    BY <1>9, Zenon DEF FlushLocks, At, To
  <2>2. WriterMoves(w, To("look"))
    BY <1>2, <1>4, <1>5, <1>6, <2>1, Zenon DEF WriterMoves, InSend, InWait, Out, Conn
  <2> QED BY <2>2, WriterMovesInv, Zenon
<1>10. ASSUME drainAfterSendError(w) PROVE IInv'
  <2>1. wr[w].pc = "failed" /\ UNCHANGED <<buf, count, sendMu, tailFlusher, Out, fl, Conn>>
    BY <1>10, Zenon DEF drainAfterSendError, At
  <2>2. CASE state = "est"
    <3>1. SetW(w, To("lock")) /\ UNCHANGED writeMu
      BY <1>10, <2>2, Zenon DEF drainAfterSendError, To
    <3>2. WriterMoves(w, To("lock"))
      BY <1>2, <1>4, <1>5, <1>6, <2>1, <3>1, Zenon DEF WriterMoves, InSend, InWait, Out, Conn
    <3> QED BY <3>2, WriterMovesInv, Zenon
  <2>3. CASE state # "est"
    <3>1. SetW(w, Home) /\ writeMu' = Nobody
      BY <1>10, <2>3, Zenon DEF drainAfterSendError, Returns, Home
    <3>2. WriterMoves(w, Home)
      BY <1>3, <1>4, <1>5, <1>7, <2>1, <2>3, <3>1, Zenon DEF WriterMoves, InSend, InWait, Out, Conn
    <3> QED BY <3>2, WriterMovesInv, Zenon
  <2> QED BY <2>2, <2>3, Zenon
<1>11. ASSUME PieceDone(w) PROVE IInv'
  <2>1. wr[w].pc = "flushed" /\ UNCHANGED <<buf, count, sendMu, tailFlusher, Out, fl, Conn>>
    BY <1>11, Zenon DEF PieceDone, At
  <2>2. Len(buf) < Seg
    BY <1>0, <2>1, Zenon DEF RoomInv
  <2>3. \/ SetW(w, To("piece")) /\ UNCHANGED writeMu
        \/ SetW(w, Home) /\ writeMu' = Nobody
    BY <1>11, Zenon DEF PieceDone, Returns, Home, To
  <2>4. WriterMoves(w, To("piece")) \/ WriterMoves(w, Home)
    BY <1>2, <1>3, <1>4, <1>5, <1>6, <1>7, <2>1, <2>2, <2>3, Zenon DEF WriterMoves, InSend, InWait, Out, Conn
  <2> QED BY <2>4, WriterMovesInv, Zenon
<1>12. ASSUME flushNagle(w) PROVE IInv'
  <2>0. wr[w].pc = "look" /\ UNCHANGED <<count, writeMu, Out, Conn>> /\ sendMu = w
    BY <1>8, <1>12, Zenon DEF flushNagle, At, InSend
  <2>1. CASE SetW(w, To("flushed")) /\ sendMu' = Nobody /\ UNCHANGED buf /\ Len(buf) < Seg
             /\ FlushersKeep /\ tailFlusher' \in BOOLEAN
    <3>1. WriterMoves(w, To("flushed"))
      BY <1>2, <1>5, <1>6, <2>0, <2>1, Zenon DEF WriterMoves, InSend, InWait, Out, Conn
    <3> QED BY <3>1, WriterMovesInv, Zenon
  <2> DEFINE Took(h, l) == [wr[w] EXCEPT !.pc = "window", !.seg = h, !.last = l, !.probes = 0]
  <2>2. ASSUME NEW k \in 1 .. Len(buf), k <= Seg, NEW l \in BOOLEAN, l => k = Len(buf),
               SetW(w, Took(SubSeq(buf, 1, k), l)),
               buf' = SubSeq(buf, k + 1, Len(buf)), UNCHANGED <<sendMu, tailFlusher, fl>>
        PROVE  IInv'
    <3> DEFINE h == SubSeq(buf, 1, k)
               r == Took(h, l)
    <3>1. h \in Seq(Nat)
      BY <1>0, SMTT(30) DEF Types
    <3>2. /\ r \in WriterType /\ r.pc = "window" /\ r.seg = h /\ r.last = l
          /\ r.refused = wr[w].refused /\ r.gaveUp = wr[w].gaveUp
      <4> HIDE DEF h
      <4> QED BY <1>1, <3>1, Zenon DEF WriterType
    <3>3. Became(w, r)
      BY <1>0, <2>2, <3>2, SetWriter, Zenon
    <3> HIDE DEF r
    <3>4. WriterPicks(w, r, k)
      BY <2>0, <2>2, <3>2, <3>3, Zenon DEF WriterPicks, Out, Conn
    <3> QED BY <3>4, WriterPicksInv, Zenon
  <2> HIDE DEF Took
  <2>3. buf \in Seq(Nat) /\ Len(buf) \in Nat /\ Seg \in Nat /\ Seg >= 1
    BY <1>0, SMTT(30) DEF Types, Sizes
  <2>4. CASE buf = <<>> /\ sendMu' = Nobody /\ SetW(w, To("flushed")) /\ UNCHANGED <<buf, tailFlusher, fl>>
    <3>1. Len(buf) = 0
      BY <2>4, Zenon
    <3> QED BY <1>0, <1>4, <2>1, <2>3, <2>4, <3>1, SMTT(30) DEF Types
  <2>5. CASE /\ Len(buf) >= Seg
             /\ SetW(w, Took(SubSeq(buf, 1, Seg), FALSE))
             /\ buf' = SubSeq(buf, Seg + 1, Len(buf)) /\ UNCHANGED <<sendMu, tailFlusher, fl>>
    <3>1. Seg \in 1 .. Len(buf) /\ Seg <= Seg
      BY <2>3, <2>5, SMTT(30)
    <3> QED BY <2>2, <2>5, <3>1, Zenon
  <2>6. CASE /\ Len(buf) \in 1 .. Seg - 1 /\ StartsFlusher
             /\ sendMu' = Nobody /\ SetW(w, To("flushed")) /\ UNCHANGED buf
    <3>1. tailFlusher' \in BOOLEAN
      BY <1>0, <2>6, Zenon DEF StartsFlusher, Types
    <3>2. FlushersKeep
      <4>1. CASE UNCHANGED fl
        BY <1>4, <4>1, Zenon
      <4>2. ASSUME NEW f \in Flusher, FAt(f, "off"), SetF(f, [fl[f] EXCEPT !.pc = "sleep", !.force = FALSE])
            PROVE  FlushersKeep
        <5> DEFINE q == [fl[f] EXCEPT !.pc = "sleep", !.force = FALSE]
        <5>1. q \in FlusherType /\ q.pc = "sleep" /\ q.seg = fl[f].seg
          BY <1>0, Zenon DEF Types, FlusherType
        <5>2. FBecame(f, q)
          BY <1>0, <4>2, <5>1, SetFlusher, Zenon
        <5> HIDE DEF q
        <5> QED BY <4>2, <5>1, <5>2, Zenon DEF FlushersKeep, FBecame, FAt
      <4> QED BY <2>6, <4>1, <4>2, Zenon DEF StartsFlusher
    <3> QED BY <2>1, <2>3, <2>6, <3>1, <3>2, SMTT(30)
  <2>7. CASE /\ Len(buf) \in 1 .. Seg - 1
             /\ SetW(w, Took(buf, TRUE))
             /\ buf' = <<>> /\ UNCHANGED <<sendMu, tailFlusher, fl>>
    <3>1. SubSeq(buf, 1, Len(buf)) = buf /\ SubSeq(buf, Len(buf) + 1, Len(buf)) = <<>>
      BY <2>3, SMTT(30)
    <3>2. Len(buf) \in 1 .. Len(buf) /\ Len(buf) <= Seg
      BY <2>3, <2>7, SMTT(30)
    <3>3. SetW(w, Took(SubSeq(buf, 1, Len(buf)), TRUE)) /\ buf' = SubSeq(buf, Len(buf) + 1, Len(buf))
      BY <2>7, <3>1, Zenon
    <3> QED BY <2>2, <2>7, <3>2, <3>3, Zenon
  <2> QED BY <1>12, <2>4, <2>5, <2>6, <2>7, Zenon DEF flushNagle, To, Took
<1>13. ASSUME sendSegment(w) PROVE IInv'
  <2>1. wr[w].pc = "window" /\ sendMu = w
        /\ UNCHANGED <<buf, count, writeMu, tailFlusher, nagleCh, windowCh, fl, Conn>>
    BY <1>8, <1>13, Zenon DEF sendSegment, At, InSend
  <2>2. CASE transmitSegment(wr[w].seg)
             /\ (\/ wr[w].last /\ SetW(w, To("flushed")) /\ sendMu' = Nobody
                 \/ SetW(w, To("look")) /\ UNCHANGED sendMu
                 \/ SetW(w, To("failed")) /\ sendMu' = Nobody)
    <3>1. WriterSends(w, To("flushed")) \/ WriterSends(w, To("look")) \/ WriterSends(w, To("failed"))
      BY <1>2, <1>6, <2>1, <2>2, Zenon DEF WriterSends, Conn
    <3> QED BY <3>1, WriterSendsInv, Zenon
  <2>3. CASE SetW(w, To("wait")) /\ UNCHANGED <<unacked, wire, sendMu>>
    <3>1. WriterMoves(w, To("wait"))
      BY <1>2, <1>4, <1>5, <1>6, <2>1, <2>3, Zenon DEF WriterMoves, InSend, InWait, Conn
    <3> QED BY <3>1, WriterMovesInv, Zenon
  <2> QED BY <1>13, <2>2, <2>3, Zenon DEF sendSegment, To
<1>14. ASSUME WaitsForWindow(w) PROVE IInv'
  <2>1. wr[w].pc = "wait" /\ sendMu = w
        /\ UNCHANGED <<removed, buf, count, tailFlusher, nagleCh, unacked, wire, fl, closer, fin>>
    BY <1>8, <1>14, Zenon DEF WaitsForWindow, At, InSend
  <2>2. ASSUME NEW p \in Nat, SetW(w, [wr[w] EXCEPT !.pc = "window", !.probes = p]),
               UNCHANGED <<Locks, state>>, windowCh' \in BOOLEAN
        PROVE  IInv'
    <3> DEFINE r == [wr[w] EXCEPT !.pc = "window", !.probes = p]
    <3>1. /\ r \in WriterType /\ r.pc = "window" /\ r.seg = wr[w].seg /\ r.last = wr[w].last
          /\ r.refused = wr[w].refused /\ r.gaveUp = wr[w].gaveUp
      BY <1>1, Zenon DEF WriterType
    <3>2. Became(w, r)
      BY <1>0, <2>2, <3>1, SetWriter, Zenon
    <3> HIDE DEF r
    <3>3. WriterMoves(w, r)
      BY <1>4, <1>5, <2>1, <2>2, <3>1, <3>2, Zenon DEF WriterMoves, InSend, InWait, Locks
    <3> QED BY <3>3, WriterMovesInv, Zenon
  <2>3. CASE windowCh' = FALSE /\ SetW(w, [wr[w] EXCEPT !.pc = "window", !.probes = 0]) /\ UNCHANGED <<Locks, state>>
    BY <2>2, <2>3, Zenon
  <2>4. CASE SetW(w, [wr[w] EXCEPT !.pc = "window", !.probes = wr[w].probes + 1])
             /\ UNCHANGED <<Locks, windowCh, state>>
    <3>1. wr[w].probes + 1 \in Nat /\ windowCh \in BOOLEAN
      BY <1>0, <1>1, SMTT(30) DEF WriterType, Types
    <3> QED BY <2>2, <2>4, <3>1, Zenon
  <2>5. CASE removed /\ GivesUp(w) /\ UNCHANGED <<windowCh, state>>
    <3>1. state # "est"
      BY <1>0, <2>5, Zenon DEF RoomInv
    <3> QED BY <2>1, <2>5, <3>1, GivesUpInv, Zenon
  <2>6. CASE state' = "closed" /\ GivesUp(w) /\ UNCHANGED windowCh
    BY <2>1, <2>6, GivesUpInv, Zenon
  <2> QED BY <1>14, <2>3, <2>4, <2>5, <2>6, Zenon DEF WaitsForWindow
<1> QED BY <1>9, <1>10, <1>11, <1>12, <1>13, <1>14, WriteBegins, PieceJoins, Zenon DEF WriterStep

-----------------------------------------------------------------------------
(* The flusher, the peer and the close.                                    *)

(* The flusher comes and goes without moving a byte.                       *)
FlusherMoves(f, q) ==
  /\ FBecame(f, q) /\ fl[f].pc # "send" /\ q.pc # "send" /\ q.seg \in {fl[f].seg, <<>>}
  /\ q.pc = "look" => sendMu' = f /\ sendMu = Nobody
  /\ q.pc # "look" => sendMu' = IF fl[f].pc = "look" THEN Nobody ELSE sendMu
  /\ {tailFlusher, nagleCh}' \subseteq BOOLEAN
  /\ UNCHANGED <<buf, count, wire, unacked, writeMu, windowCh, wr, state, removed, closer, fin>>

LEMMA FlusherMovesInv ==
  ASSUME Sizes, IInv, NEW f \in Flusher, NEW q, FlusherMoves(f, q) PROVE IInv'
<1>0. Types /\ LockInv /\ DataInv /\ RoomInv /\ FinInv /\ SegInv
  BY Zenon DEF IInv
<1>1. FBecame(f, q)
  BY Zenon DEF FlusherMoves
<1>2. fl[f].pc = "look" <=> sendMu = f
  BY <1>0, Zenon DEF LockInv, FlusherMoves
<1>3. f \notin Writer /\ f # Nobody /\ Nobody \notin Writer /\ Nobody \notin Flusher
  BY Zenon DEF Sizes
<1>4. sendMu' = sendMu \/ (sendMu = Nobody /\ sendMu' = f) \/ (sendMu = f /\ sendMu' = Nobody)
  BY <1>2, Zenon DEF FlusherMoves
<1>5. Types'
  <2>1. sendMu' \in Writer \cup Flusher \cup {Nobody}
    BY <1>0, <1>4, Zenon DEF Types
  <2>2. tailFlusher' \in BOOLEAN /\ nagleCh' \in BOOLEAN
    BY Zenon DEF FlusherMoves
  <2> QED BY <1>0, <1>1, <2>1, <2>2, Zenon DEF Types, FBecame, FlusherMoves
<1>6. LockInv'
  <2>1. \A w \in Writer : sendMu' = w <=> sendMu = w
    BY <1>3, <1>4, Zenon
  <2>2. fl'[f].pc \in {"look", "send"} <=> sendMu' = f
    BY <1>1, <1>2, <1>3, Zenon DEF FlusherMoves, FBecame
  <2>3. \A g \in Flusher : g # f => fl'[g] = fl[g] /\ (sendMu' = g <=> sendMu = g)
    BY <1>1, <1>3, <1>4, SMTT(30) DEF FBecame
  <2> QED BY <1>0, <2>1, <2>2, <2>3, Zenon DEF LockInv, FlusherMoves
<1>7. SegInv'
  BY <1>0, <1>1, Zenon DEF SegInv, FlusherMoves, FBecame
<1>8. Hand' = Hand
  <2>1. fl'[f].pc # "send" /\ fl[f].pc # "send"
    BY <1>1, Zenon DEF FlusherMoves, FBecame
  <2>2. CASE sendMu' = sendMu
    BY <1>1, <2>1, <2>2, Zenon DEF Hand, FBecame, FlusherMoves
  <2>3. CASE sendMu' # sendMu
    BY <1>3, <1>4, <2>1, <2>3, Zenon DEF Hand
  <2> QED BY <2>2, <2>3, Zenon
<1>9. DataInv'
  BY <1>0, <1>8, DataSame, Zenon DEF FlusherMoves, Whole
<1>10. RoomInv'
  BY <1>0, Zenon DEF RoomInv, FlusherMoves
<1>11. FinInv'
  BY <1>0, Zenon DEF FinInv, FinAfterData, FlusherMoves
<1> QED BY <1>5, <1>6, <1>7, <1>9, <1>10, <1>11, Zenon DEF IInv

(* The flusher takes the remainder in hand.                                *)
LEMMA FlusherPicksInv ==
  ASSUME Sizes, IInv, NEW f \in Flusher, fl[f].pc = "look", Len(buf) \in 1 .. Seg - 1,
         tailFlusher' = FALSE, buf' = <<>>, SetF(f, [fl[f] EXCEPT !.pc = "send", !.seg = buf]),
         UNCHANGED <<sendMu, count, writeMu, Out, wr, Conn>>
  PROVE  IInv'
<1> DEFINE q == [fl[f] EXCEPT !.pc = "send", !.seg = buf]
<1>0. Types /\ LockInv /\ DataInv /\ RoomInv /\ FinInv /\ SegInv
  BY Zenon DEF IInv
<1>1. q \in FlusherType /\ q.pc = "send" /\ q.seg = buf
  BY <1>0, Zenon DEF Types, FlusherType
<1>2. FBecame(f, q)
  BY <1>0, <1>1, SetFlusher, Zenon
<1> HIDE DEF q
<1>3. sendMu = f /\ f \notin Writer
  BY <1>0, Zenon DEF LockInv, Sizes
<1>4. buf \in Seq(Nat) /\ Len(buf) \in Nat /\ <<>> \in Seq(Nat) /\ Len(<<>>) = 0 /\ Seg \in Nat
  BY <1>0, SMTT(30) DEF Types, Sizes
<1>5. Hand = <<>> /\ Hand' = buf
  BY <1>1, <1>2, <1>3, Zenon DEF Hand, FBecame
<1>6. DataInv'
  <2>1. wire \in Seq(Nat) /\ count \in Nat /\ Flow(wire, <<>>, buf, count)
        /\ (Whole => Gapless(wire, <<>>, buf, count))
    BY <1>0, <1>5, Zenon DEF Types, DataInv
  <2>2. Flow(wire, buf, <<>>, count) /\ (Gapless(wire, <<>>, buf, count) => Gapless(wire, buf, <<>>, count))
    BY <1>4, <2>1, FlowAll, Zenon
  <2> QED BY <1>5, <2>1, <2>2, Zenon DEF DataInv, Out, Whole
<1>7. Types'
  BY <1>0, <1>2, <1>4, Zenon DEF Types, FBecame, Out, Conn
<1>8. LockInv'
  BY <1>0, <1>1, <1>2, <1>3, Zenon DEF LockInv, FBecame
<1>9. SegInv'
  <2>1. Len(buf) \in 1 .. Seg
    BY <1>4, SMTT(30)
  <2> QED BY <1>0, <1>1, <1>2, <2>1, Zenon DEF SegInv, FBecame, Out
<1>10. RoomInv'
  BY <1>0, <1>4, SMTT(30) DEF RoomInv, Conn, Sizes
<1>11. FinInv'
  BY <1>0, Zenon DEF FinInv, FinAfterData, Conn, Out
<1> QED BY <1>6, <1>7, <1>8, <1>9, <1>10, <1>11, Zenon DEF IInv

(* and sends it.                                                           *)
LEMMA FlusherSendsInv ==
  ASSUME Sizes, IInv, NEW f \in Flusher, FlusherSends(f) PROVE IInv'
<1>0. Types /\ LockInv /\ DataInv /\ RoomInv /\ FinInv /\ SegInv
  BY Zenon DEF IInv
<1>1. /\ fl[f].pc = "send" /\ transmitSegment(fl[f].seg) /\ SetF(f, Asleep)
      /\ wire' = wire \o fl[f].seg /\ fl[f].seg \in Seq(Nat)
      /\ UNCHANGED <<buf, count, writeMu, tailFlusher, nagleCh, windowCh, wr, Conn>>
  BY <1>0, Zenon DEF FlusherSends, FAt, transmitSegment, Types, FlusherType
<1>2. Asleep \in FlusherType /\ Asleep.pc = "off" /\ Asleep.seg = <<>>
  BY SMTT(30) DEF Asleep, FlusherType
<1>3. FBecame(f, Asleep)
  BY <1>0, <1>1, <1>2, SetFlusher, Zenon
<1>4. sendMu = f /\ f \notin Writer /\ sendMu' = Nobody /\ f # Nobody /\ Nobody \notin Writer \cup Flusher
  BY <1>0, <1>1, Zenon DEF LockInv, Sizes, FlusherSends
<1>5. Hand = fl[f].seg /\ Hand' = <<>>
  BY <1>1, <1>4, Zenon DEF Hand
<1>6. wire' \in Seq(Nat) /\ DataInv' /\ Len(wire') = Len(wire) + Len(fl[f].seg)
  <2>1. wire \in Seq(Nat) /\ buf \in Seq(Nat) /\ count \in Nat /\ Flow(wire, fl[f].seg, buf, count)
        /\ (Whole => Gapless(wire, fl[f].seg, buf, count))
    BY <1>0, <1>5, Zenon DEF Types, DataInv
  <2>2. /\ wire' \in Seq(Nat) /\ Flow(wire', <<>>, buf, count) /\ Len(wire') = Len(wire) + Len(fl[f].seg)
        /\ Gapless(wire, fl[f].seg, buf, count) => Gapless(wire', <<>>, buf, count)
    BY <1>1, <2>1, FlowSends, Zenon
  <2> QED BY <1>1, <1>5, <2>1, <2>2, Zenon DEF DataInv, Whole
<1>7. Types'
  BY <1>0, <1>1, <1>3, <1>4, <1>6, Zenon DEF Types, FBecame, Conn
<1>8. LockInv'
  <2>1. \A w \in Writer : sendMu # w /\ sendMu' # w
    BY <1>4, Zenon
  <2>2. \A g \in Flusher : sendMu' # g /\ (g # f => fl'[g] = fl[g] /\ sendMu # g)
    BY <1>3, <1>4, Zenon DEF FBecame
  <2> QED BY <1>0, <1>1, <1>2, <1>3, <2>1, <2>2, Zenon DEF LockInv, FBecame
<1>9. SegInv'
  <2>1. unacked' \in Seq([n : 1 .. Seg, sacked : BOOLEAN])
    BY <1>0, <1>1, InFlight, Zenon DEF SegInv
  <2> QED BY <1>0, <1>1, <1>2, <1>3, <2>1, Zenon DEF SegInv, FBecame
<1>10. RoomInv'
  BY <1>0, <1>1, Zenon DEF RoomInv, Conn
<1>11. FinInv'
  <2>1. ASSUME Len(wire) = count PROVE Len(wire') = count
    <3>1. Len(wire) \in Nat /\ Len(fl[f].seg) \in Nat /\ Len(buf) \in Nat /\ count \in Nat
          /\ Len(wire) + Len(fl[f].seg) + Len(buf) <= count
      BY <1>0, <1>1, <1>5, SMTT(30) DEF Types, DataInv, Flow
    <3> QED BY <1>6, <2>1, <3>1, SMTT(30)
  <2> QED BY <1>0, <1>1, <2>1, Zenon DEF FinInv, FinAfterData, Conn
<1> QED BY <1>6, <1>7, <1>8, <1>9, <1>10, <1>11, Zenon DEF IInv

(* Every step of a flusher.                                                *)
LEMMA FlusherInv ==
  ASSUME Sizes, IInv, NEW f \in Flusher, FlusherStep(f) PROVE IInv'
<1>0. Types /\ LockInv /\ RoomInv /\ SegInv
  BY Zenon DEF IInv
<1>1. fl[f] \in FlusherType /\ tailFlusher \in BOOLEAN /\ nagleCh \in BOOLEAN
  BY <1>0, Zenon DEF Types
<1>2. Asleep \in FlusherType /\ Asleep.pc = "off" /\ Asleep.seg = <<>>
  BY SMTT(30) DEF Asleep, FlusherType
<1> DEFINE To(pc) == [fl[f] EXCEPT !.pc = pc]
           Forced == [fl[f] EXCEPT !.pc = "lock", !.force = TRUE]
<1>3. \A pc \in {"sleep", "lock", "look"} : To(pc) \in FlusherType /\ To(pc).pc = pc /\ To(pc).seg = fl[f].seg
  BY <1>1, Zenon DEF FlusherType
<1>4. Forced \in FlusherType /\ Forced.pc = "lock" /\ Forced.seg = fl[f].seg
  BY <1>1, Zenon DEF FlusherType
<1> HIDE DEF To, Forced
<1>5. ASSUME NEW q \in FlusherType, SetF(f, q) PROVE FBecame(f, q)
  BY <1>0, <1>5, SetFlusher, Zenon
<1>6. ASSUME FlusherWakes(f) PROVE IInv'
  <2>1. fl[f].pc = "sleep" /\ UNCHANGED <<buf, count, Locks, windowCh, unacked, wire, wr, Conn>>
    BY <1>6, Zenon DEF FlusherWakes, FAt
  <2>2. PICK q \in {To("lock"), Forced, Asleep} : SetF(f, q) /\ tailFlusher' \in BOOLEAN /\ nagleCh' \in BOOLEAN
    BY <1>1, <1>6, Zenon DEF FlusherWakes, To, Forced
  <2>3. q \in FlusherType /\ q.pc \in {"lock", "off"} /\ q.seg \in {fl[f].seg, <<>>}
    BY <1>2, <1>3, <1>4, Zenon
  <2>4. FlusherMoves(f, q)
    BY <1>5, <2>1, <2>2, <2>3, Zenon DEF FlusherMoves, Locks, Conn
  <2> QED BY <2>4, FlusherMovesInv, Zenon
<1>7. ASSUME FlusherLocks(f) PROVE IInv'
  <2>1. fl[f].pc = "lock" /\ sendMu = Nobody /\ sendMu' = f /\ SetF(f, To("look"))
        /\ UNCHANGED <<buf, count, writeMu, tailFlusher, Out, wr, Conn>>
    BY <1>7, Zenon DEF FlusherLocks, FAt, To
  <2>2. FlusherMoves(f, To("look"))
    BY <1>1, <1>3, <1>5, <2>1, Zenon DEF FlusherMoves, Out, Conn
  <2> QED BY <2>2, FlusherMovesInv, Zenon
<1>8. ASSUME FlusherLooks(f) PROVE IInv'
  <2>1. fl[f].pc = "look" /\ UNCHANGED <<count, writeMu, Out, wr, Conn>>
    BY <1>8, Zenon DEF FlusherLooks, FAt
  <2>2. CASE tailFlusher' = FALSE /\ sendMu' = Nobody /\ SetF(f, Asleep) /\ UNCHANGED buf
    <3>1. FlusherMoves(f, Asleep)
      BY <1>1, <1>2, <1>5, <2>1, <2>2, Zenon DEF FlusherMoves, Out, Conn
    <3> QED BY <3>1, FlusherMovesInv, Zenon
  <2>3. CASE sendMu' = Nobody /\ SetF(f, To("sleep")) /\ UNCHANGED <<buf, tailFlusher>>
    <3>1. FlusherMoves(f, To("sleep"))
      BY <1>1, <1>3, <1>5, <2>1, <2>3, Zenon DEF FlusherMoves, Out, Conn
    <3> QED BY <3>1, FlusherMovesInv, Zenon
  <2>4. CASE /\ Len(buf) \in 1 .. Seg - 1 /\ tailFlusher' = FALSE /\ buf' = <<>>
             /\ SetF(f, [fl[f] EXCEPT !.pc = "send", !.seg = buf]) /\ UNCHANGED sendMu
    BY <2>1, <2>4, FlusherPicksInv, Zenon
  <2> QED BY <1>8, <2>2, <2>3, <2>4, Zenon DEF FlusherLooks, To
<1> QED BY <1>6, <1>7, <1>8, FlusherSendsInv, Zenon DEF FlusherStep

(* The peer's ACKs and SACKs.                                              *)
LEMMA PeerInv == ASSUME Sizes, IInv, ProcessAck \/ ProcessSACK PROVE IInv'
<1> DEFINE R == [n : 1 .. Seg, sacked : BOOLEAN]
<1>0. Types /\ LockInv /\ DataInv /\ RoomInv /\ FinInv /\ SegInv /\ unacked \in Seq(R)
  BY Zenon DEF IInv, SegInv
<1>1. UNCHANGED <<state, removed, buf, count, Locks, tailFlusher, wire, wr, fl, closer, fin>>
  BY Zenon DEF ProcessAck, ProcessSACK
<1>2. nagleCh' \in BOOLEAN /\ windowCh' \in BOOLEAN
  <2>1. nagleCh' = (nagleCh \/ ~nagleHoldsTail(unacked')) => nagleCh' \in BOOLEAN
    BY Zenon
  <2>2. windowCh' = (windowCh \/ WindowAvailable(unacked')) => windowCh' \in BOOLEAN
    BY Zenon
  <2> QED BY <2>1, <2>2, Zenon DEF ProcessAck, ProcessSACK
<1>3. unacked' \in Seq(R)
  <2>1. CASE ProcessAck
    <3>1. PICK k \in DOMAIN unacked : unacked' = SubSeq(unacked, k + 1, Len(unacked))
      BY <2>1, Zenon DEF ProcessAck
    <3> HIDE DEF R
    <3> QED BY <1>0, <3>1, SMTT(30)
  <2>2. CASE ProcessSACK
    <3>1. PICK k \in DOMAIN unacked : unacked' = [unacked EXCEPT ![k].sacked = TRUE]
      BY <2>2, Zenon DEF ProcessSACK
    <3> DEFINE x == [unacked[k] EXCEPT !.sacked = TRUE]
    <3>2. unacked' = [unacked EXCEPT ![k] = x]
      BY <3>1, Zenon
    <3>3. x \in R
      <4>1. unacked[k] \in R
        <5> HIDE DEF R
        <5> QED BY <1>0, SMTT(30)
      <4> QED BY <4>1, Zenon
    <3> HIDE DEF R, x
    <3> QED BY <1>0, <3>2, <3>3, SMTT(30)
  <2> QED BY <2>1, <2>2, Zenon
<1>4. Types'
  BY <1>0, <1>1, <1>2, Zenon DEF Types, Locks
<1>5. LockInv'
  BY <1>0, <1>1, Zenon DEF LockInv, Locks
<1>6. SegInv'
  BY <1>0, <1>1, <1>3, Zenon DEF SegInv
<1>7. Hand' = Hand
  BY <1>1, Zenon DEF Hand, Locks
<1>8. DataInv'
  BY <1>0, <1>1, <1>7, DataSame, Zenon DEF Whole
<1>9. RoomInv'
  BY <1>0, <1>1, Zenon DEF RoomInv, Locks
<1>10. FinInv'
  BY <1>0, <1>1, Zenon DEF FinInv, FinAfterData
<1> QED BY <1>4, <1>5, <1>6, <1>8, <1>9, <1>10, Zenon DEF IInv

(* The close begins, takes the FIN's number, and the connection goes.      *)
LEMMA EndInv == ASSUME Sizes, IInv, Close \/ CloseConnection \/ RemoveConnection PROVE IInv'
<1>0. Types /\ LockInv /\ DataInv /\ RoomInv /\ FinInv /\ SegInv
  BY Zenon DEF IInv
<1>1. UNCHANGED <<buf, count, Locks, tailFlusher, Out, wr, fl>>
  BY Zenon DEF Close, CloseConnection, RemoveConnection
<1>2. state' \in {state, "finwait", "closed"} /\ closer' \in {"off", "tail", "fin", "done"}
      /\ removed' \in BOOLEAN /\ (removed' => state' # "est")
  <2>1. state \in {"est", "finwait", "closed"} /\ removed \in BOOLEAN /\ (removed => state # "est")
        /\ closer \in {"off", "tail", "fin", "done"}
    BY <1>0, Zenon DEF Types, RoomInv
  <2>2. CASE Close
    BY <2>1, <2>2, Zenon DEF Close
  <2>3. CASE CloseConnection
    BY <2>1, <2>3, Zenon DEF CloseConnection
  <2>4. CASE RemoveConnection
    BY <2>1, <2>4, Zenon DEF RemoveConnection
  <2> QED BY <2>2, <2>3, <2>4, Zenon
<1>3. fin' \in FinType
  <2>1. CASE Close
    <3> DEFINE x == \E w \in Writer : ~At(w, "idle")
    <3>1. x \in BOOLEAN /\ fin' = [fin EXCEPT !.busy = x]
      BY <2>1, Zenon DEF Close
    <3> HIDE DEF x
    <3> QED BY <1>0, <3>1, Zenon DEF Types, FinType
  <2>2. CASE CloseConnection
    <3>1. Len(wire) \in Nat /\ count \in Nat
      BY <1>0, SMTT(30) DEF Types
    <3> QED BY <1>0, <2>2, <3>1, Zenon DEF Types, FinType, CloseConnection
  <2>3. CASE RemoveConnection
    BY <1>0, <2>3, Zenon DEF Types, RemoveConnection
  <2> QED BY <2>1, <2>2, <2>3, Zenon
<1>4. Types'
  BY <1>0, <1>1, <1>2, <1>3, Zenon DEF Types, Locks, Out
<1>5. LockInv'
  BY <1>0, <1>1, Zenon DEF LockInv, Locks
<1>6. SegInv'
  BY <1>0, <1>1, Zenon DEF SegInv, Out
<1>7. Hand' = Hand
  BY <1>1, Zenon DEF Hand, Locks
<1>8. DataInv'
  BY <1>0, <1>1, <1>7, DataSame, Zenon DEF Whole, Out
<1>9. RoomInv'
  BY <1>0, <1>1, <1>2, Zenon DEF RoomInv, Locks
<1>10. FinInv'
  <2>1. CASE Close
    <3>1. closer' = "tail" /\ fin'.done = fin.done /\ fin'.sent = fin.sent /\ fin'.taken = fin.taken
          /\ ~fin.done
          /\ (fin'.busy <=> \E w \in Writer : wr[w].pc # "idle")
      <4> DEFINE x == \E w \in Writer : wr[w].pc # "idle"
      <4>1. fin \in FinType /\ closer = "off" /\ ~fin.done /\ closer' = "tail"
        BY <1>0, <2>1, Zenon DEF Close, Types, FinInv
      <4>2. fin' = [fin EXCEPT !.busy = x] /\ x \in BOOLEAN
        BY <2>1, Zenon DEF Close, At
      <4> HIDE DEF x
      <4>3. fin'.done = fin.done /\ fin'.sent = fin.sent /\ fin'.taken = fin.taken /\ fin'.busy = x
        BY <4>1, <4>2, Zenon DEF FinType
      <4> QED BY <4>1, <4>3, Zenon DEF x
    <3> QED BY <1>0, <1>1, <2>1, <3>1, Zenon DEF FinInv, FinAfterData
  <2>2. CASE CloseConnection
    <3>1. closer = "fin" /\ closer' = "done"
      BY <2>2, Zenon DEF CloseConnection
    <3>2. CASE state = "est"
      <4>1. fin'.sent = Len(wire) /\ fin'.taken = count /\ fin'.busy = fin.busy
        BY <1>0, <2>2, <3>2, Zenon DEF CloseConnection, Types, FinType
      <4> QED BY <1>0, <3>1, <3>2, <4>1, Zenon DEF FinInv, FinAfterData
    <3>3. CASE state # "est"
      BY <1>0, <2>2, <3>1, <3>3, Zenon DEF FinInv, FinAfterData, CloseConnection
    <3> QED BY <3>2, <3>3, Zenon
  <2>3. CASE RemoveConnection
    BY <1>0, <1>1, <2>3, Zenon DEF FinInv, FinAfterData, RemoveConnection
  <2> QED BY <2>1, <2>2, <2>3, Zenon
<1> QED BY <1>4, <1>5, <1>6, <1>8, <1>9, <1>10, Zenon DEF IInv

(* A function on 1 .. n is a sequence.                                     *)
LEMMA FunSeq == ASSUME NEW S, NEW n \in Nat, NEW f \in [1 .. n -> S] PROVE f \in Seq(S)
  BY SMTT(30)

(* The bytes before a close are cut into segments.                         *)
LEMMA CutFits ==
  ASSUME Seg \in Nat \ {0}, NEW b \in Seq(Nat) PROVE Cut(b) \in Seq([n : 1 .. Seg, sacked : BOOLEAN])
<1> DEFINE m == (Len(b) + Seg - 1) \div Seg
           R == [n : 1 .. Seg, sacked : BOOLEAN]
<1>1. Len(b) \in Nat /\ Seg \in Nat /\ Seg >= 1
  BY SMTT(30)
<1>2. m \in Nat /\ Seg * m <= Len(b) + Seg - 1
  BY <1>1, SMTT(30)
<1> HIDE DEF m
<1>3. ASSUME NEW i \in 1 .. m PROVE Smaller(Seg, Len(b) - (i - 1) * Seg) \in 1 .. Seg
  <2>1. i * Seg <= m * Seg /\ (i - 1) * Seg = i * Seg - Seg /\ (i - 1) * Seg \in Int
    BY <1>1, <1>2, SMTT(30)
  <2>2. Len(b) - (i - 1) * Seg \in Int /\ Len(b) - (i - 1) * Seg >= 1
    BY <1>1, <1>2, <2>1, SMTT(30)
  <2> HIDE DEF m
  <2> QED BY <1>1, <2>2, SMTT(30) DEF Smaller
<1>4. Cut(b) = [i \in 1 .. m |-> [n |-> Smaller(Seg, Len(b) - (i - 1) * Seg), sacked |-> FALSE]]
  BY Zenon DEF Cut, m
<1>5. \A i \in 1 .. m : [n |-> Smaller(Seg, Len(b) - (i - 1) * Seg), sacked |-> FALSE] \in R
  BY <1>3, Zenon
<1>6. Cut(b) \in [1 .. m -> R]
  BY <1>4, <1>5, Zenon
<1> HIDE DEF R
<1>7. Cut(b) \in Seq(R)
  BY <1>2, <1>6, FunSeq, Zenon
<1> QED BY <1>7, Zenon DEF R

(* The close sends a held remainder, or leaves it to a writer.             *)
LEMMA TailInv == ASSUME Sizes, IInv, CloseSendsTail PROVE IInv'
<1> DEFINE R == [n : 1 .. Seg, sacked : BOOLEAN]
<1>0. Types /\ LockInv /\ DataInv /\ RoomInv /\ FinInv /\ SegInv /\ unacked \in Seq(R)
  BY Zenon DEF IInv, SegInv
<1>1. closer = "tail" /\ closer' = "fin"
      /\ UNCHANGED <<state, removed, count, Locks, tailFlusher, nagleCh, windowCh, wr, fl, fin>>
  BY Zenon DEF CloseSendsTail
<1>2. Hand' = Hand /\ (Whole' <=> Whole)
  BY <1>1, Zenon DEF Hand, Locks, Whole
<1>3. CASE UNCHANGED <<wire, unacked, buf>> /\ (state # "est" \/ sendMu \in Writer)
  <2>1. Types'
    BY <1>0, <1>1, <1>3, Zenon DEF Types, Locks
  <2>2. LockInv'
    BY <1>0, <1>1, Zenon DEF LockInv, Locks
  <2>3. SegInv'
    BY <1>0, <1>1, <1>3, Zenon DEF SegInv
  <2>4. DataInv'
    BY <1>0, <1>1, <1>2, <1>3, DataSame, Zenon
  <2>5. RoomInv'
    BY <1>0, <1>1, <1>3, Zenon DEF RoomInv, Locks
  <2>6. ASSUME sendMu \in Writer PROVE wr[sendMu].pc # "idle"
    BY <1>0, <2>6, Zenon DEF LockInv
  <2>7. FinInv'
    BY <1>0, <1>1, <1>3, <2>6, Zenon DEF FinInv, FinAfterData
  <2> QED BY <2>1, <2>2, <2>3, <2>4, <2>5, <2>7, Zenon DEF IInv
<1>4. CASE /\ state = "est" /\ sendMu = Nobody
           /\ wire' = wire \o buf /\ unacked' = unacked \o Cut(buf) /\ buf' = <<>>
  <2>1. Hand = <<>> /\ <<>> \in Seq(Nat) /\ Len(<<>>) = 0
    BY <1>0, <1>4, HandFacts, Zenon
  <2>2. wire \in Seq(Nat) /\ buf \in Seq(Nat) /\ count \in Nat /\ Flow(wire, <<>>, buf, count)
        /\ (Whole => Gapless(wire, <<>>, buf, count))
    BY <1>0, <2>1, Zenon DEF Types, DataInv
  <2>3. Flow(wire, buf, <<>>, count) /\ (Gapless(wire, <<>>, buf, count) => Gapless(wire, buf, <<>>, count))
    BY <2>2, FlowAll, Zenon
  <2>4. /\ wire' \in Seq(Nat) /\ Flow(wire', <<>>, <<>>, count)
        /\ Gapless(wire, buf, <<>>, count) => Gapless(wire', <<>>, <<>>, count)
    BY <1>4, <2>1, <2>2, <2>3, FlowSends, Zenon
  <2>5. DataInv'
    BY <1>1, <1>2, <1>4, <2>1, <2>2, <2>3, <2>4, Zenon DEF DataInv
  <2>6. Types'
    BY <1>0, <1>1, <1>4, <2>1, <2>4, Zenon DEF Types, Locks
  <2>7. LockInv'
    BY <1>0, <1>1, Zenon DEF LockInv, Locks
  <2>8. SegInv'
    <3>1. Cut(buf) \in Seq(R)
      BY <2>2, CutFits, Zenon DEF Sizes
    <3>2. unacked' \in Seq(R)
      <4> HIDE DEF R
      <4> QED BY <1>0, <1>4, <3>1, SMTT(30)
    <3> QED BY <1>0, <1>1, <3>2, Zenon DEF SegInv
  <2>9. RoomInv'
    BY <1>0, <1>1, <1>4, <2>1, SMTT(30) DEF RoomInv, Locks, Sizes
  <2>10. Whole
    BY <1>0, <1>4, Zenon DEF RoomInv, Whole
  <2>11. Len(wire') = count
    <3>1. Gapless(wire', <<>>, <<>>, count) /\ Len(wire') \in Nat
      BY <2>2, <2>3, <2>4, <2>10, SMTT(30)
    <3> QED BY <2>1, <3>1, SMTT(30) DEF Gapless
  <2>12. FinInv'
    BY <1>0, <1>1, <1>4, <2>11, Zenon DEF FinInv, FinAfterData
  <2> QED BY <2>5, <2>6, <2>7, <2>8, <2>9, <2>12, Zenon DEF IInv
<1> QED BY <1>3, <1>4, Zenon DEF CloseSendsTail, sendHeldTailBeforeClose

-----------------------------------------------------------------------------
(* The theorem.                                                            *)

(* The invariant is inductive.                                             *)
LEMMA InvNext == ASSUME Sizes, IInv, [Next]_vars PROVE IInv'
<1>1. CASE UNCHANGED vars
  <2>1. UNCHANGED <<state, removed, buf, count, writeMu, sendMu, tailFlusher, nagleCh, windowCh, unacked,
                    wire, wr, fl, closer, fin>>
    BY <1>1, Zenon DEF vars, senderVars
  <2>2. Hand' = Hand /\ (Whole' => Whole)
    BY <2>1, Zenon DEF Hand, Whole
  <2>3. DataInv'
    BY <2>1, <2>2, DataSame, Zenon DEF IInv
  <2>4. Types' /\ SegInv' /\ LockInv'
    BY <2>1, SMTT(30) DEF IInv, Types, SegInv, LockInv
  <2>5. RoomInv' /\ FinInv'
    BY <2>1, Zenon DEF IInv, RoomInv, FinInv, FinAfterData
  <2> QED BY <2>3, <2>4, <2>5, Zenon DEF IInv
<1>2. CASE Next
  BY <1>2, PeerInv, EndInv, TailInv, WriterInv, FlusherInv, Zenon DEF Next
<1> QED BY <1>1, <1>2, Zenon

(* It holds at the start.                                                  *)
LEMMA InvInit == ASSUME Sizes, Init PROVE IInv
<1>0. <<>> \in Seq(Nat) /\ Len(<<>>) = 0 /\ <<>> \in Seq([n : 1 .. Seg, sacked : BOOLEAN])
  BY SMTT(30)
<1>1. \A w \in Writer : wr[w].pc = "idle" /\ ~wr[w].refused /\ ~wr[w].gaveUp
  BY Zenon DEF Init
<1>2. wr \in [Writer -> WriterType]
  <2>1. \A w \in Writer : sc.writes[w] \in Seq(Nat)
    BY Zenon DEF Init, Sizes
  <2> QED BY <1>0, <2>1, Zenon DEF Init, WriterType
<1>3. fl \in [Flusher -> FlusherType] /\ \A f \in Flusher : fl[f].pc = "off" /\ fl[f].seg = <<>>
  BY <1>0, Zenon DEF Init, Asleep, FlusherType
<1>4. Types
  <2>1. fin \in FinType
    BY Zenon DEF Init, FinType
  <2> QED BY <1>0, <1>2, <1>3, <2>1, Zenon DEF Init, Types
<1>5. SegInv /\ LockInv
  BY <1>0, <1>1, <1>3, Zenon DEF Init, SegInv, LockInv, Sizes
<1>6. Hand = <<>>
  BY Zenon DEF Init, Hand, Sizes
<1>7. DataInv
  <2>1. wire = <<>> /\ buf = <<>> /\ count = 0
    BY Zenon DEF Init
  <2> QED BY <1>0, <1>6, <2>1, SMTT(30) DEF DataInv, Flow, Gapless
<1>8. RoomInv
  <2>1. ~removed /\ Len(buf) < Seg
    BY <1>0, SMTT(30) DEF Init, Sizes
  <2> QED BY <1>1, <2>1, Zenon DEF RoomInv
<1>9. FinInv
  <2>1. closer = "off" /\ ~fin.done
    BY Zenon DEF Init
  <2> QED BY <2>1, Zenon DEF FinInv, FinAfterData
<1> QED BY <1>4, <1>5, <1>7, <1>8, <1>9, Zenon DEF IInv

(* And it says what is promised.                                           *)
LEMMA InvSound == ASSUME Sizes, IInv PROVE SenderSound
<1>0. Types /\ LockInv /\ DataInv /\ RoomInv /\ FinInv /\ SegInv
  BY Zenon DEF IInv
<1>1. wire \in Seq(Nat) /\ buf \in Seq(Nat) /\ Hand \in Seq(Nat) /\ count \in Nat
  BY <1>0, HandFacts, Zenon DEF Types
<1>2. Len(wire) \in Nat /\ Len(buf) \in Nat /\ Len(Hand) \in Nat
      /\ Len(wire) + Len(Hand) + Len(buf) <= count
  BY <1>0, <1>1, SMTT(30) DEF DataInv, Flow
<1>3. ASSUME NEW x \in Seq(Nat), \A i \in 1 .. Len(x) : x[i] \in 1 .. count
      PROVE  x \in Seq(1 .. count)
  <2>1. x \in [1 .. Len(x) -> 1 .. count] /\ Len(x) \in Nat
    BY <1>3, SMTT(30)
  <2> DEFINE S == 1 .. count
  <2> HIDE DEF S
  <2>2. x \in [1 .. Len(x) -> S]
    BY <2>1, Zenon DEF S
  <2>3. x \in Seq(S)
    BY <2>1, <2>2, FunSeq, Zenon
  <2> QED BY <2>3, Zenon DEF S
<1>4. buf \in Seq(1 .. count)
  <2>1. ASSUME NEW i \in 1 .. Len(buf) PROVE buf[i] \in 1 .. count
    <3>1. buf[i] = count - Len(buf) + i
      BY <1>0, Zenon DEF DataInv, Flow
    <3> QED BY <1>1, <1>2, <3>1, SMTT(30)
  <2> QED BY <1>1, <1>3, <2>1, Zenon
<1>5. wire \in Seq(1 .. count)
  <2>1. ASSUME NEW i \in 1 .. Len(wire) PROVE wire[i] \in 1 .. count
    <3>1. 1 <= wire[i] /\ wire[i] <= count - Len(buf) - Len(Hand) /\ wire[i] \in Nat
      BY <1>0, <1>1, SMTT(30) DEF DataInv, Flow
    <3> QED BY <1>1, <1>2, <3>1, SMTT(30)
  <2> QED BY <1>1, <1>3, <2>1, Zenon
<1>6. Hand \in Seq(1 .. count)
  <2>1. ASSUME NEW i \in 1 .. Len(Hand) PROVE Hand[i] \in 1 .. count
    <3>1. Hand[i] = count - Len(buf) - Len(Hand) + i
      BY <1>0, Zenon DEF DataInv, Flow
    <3> QED BY <1>1, <1>2, <3>1, SMTT(30)
  <2> QED BY <1>1, <1>3, <2>1, Zenon
<1>7. ASSUME NEW f \in Flusher PROVE fl[f].seg \in Seq(1 .. count)
  <2>1. <<>> \in Seq(1 .. count)
    BY SMTT(30)
  <2> QED BY <1>0, <1>6, <2>1, HandFacts, Zenon DEF SegInv
<1>8. TypeOK
  <2>1. fl \in [Flusher -> [pc : {"off", "sleep", "lock", "look", "send"}, force : BOOLEAN, seg : Seq(1 .. count)]]
    <3> DEFINE S == Seq(1 .. count)
    <3>1. \A f \in Flusher : fl[f].seg \in S /\ fl[f] \in FlusherType
      BY <1>0, <1>7, Zenon DEF Types
    <3>2. DOMAIN fl = Flusher /\ fl = [f \in Flusher |-> fl[f]]
      BY <1>0, Zenon DEF Types
    <3> HIDE DEF S
    <3>3. \A f \in Flusher : fl[f] \in [pc : {"off", "sleep", "lock", "look", "send"}, force : BOOLEAN, seg : S]
      BY <3>1, Zenon DEF FlusherType
    <3> QED BY <3>2, <3>3, Zenon DEF S
  <2> QED BY <1>0, <1>4, <1>5, <2>1, Zenon DEF TypeOK, Types, SegInv
<1>9. SentInOrder
  <2>1. DOMAIN wire = 1 .. Len(wire)
    BY <1>1, SMTT(30)
  <2> QED BY <1>0, <2>1, Zenon DEF SentInOrder, DataInv, Flow, Gapless, Whole
<1>10. NeverRefused /\ FinAfterData
  BY <1>0, Zenon DEF NeverRefused, RoomInv, FinInv
<1> QED BY <1>8, <1>9, <1>10, Zenon DEF SenderSound

(* Bytes leave a connection in the order written, whoever sends them; a    *)
(* write is never refused for want of room; and a close with no write      *)
(* under way sends everything before its FIN (SendData, flushNagle,        *)
(* flushHeldTail, sendHeldTailBeforeClose).                                *)
THEOREM SenderIsSound == Sizes /\ Spec => []SenderSound
<1> DEFINE J == Sizes /\ IInv
<1>1. Sizes /\ Init => J
  BY InvInit, Zenon
<1>2. J /\ [Next]_vars => J'
  <2> SUFFICES ASSUME J, [Next]_vars PROVE J'
    BY Zenon
  <2>1. IInv'
    BY InvNext, Zenon
  <2> QED BY <2>1, Zenon DEF Sizes
<1>3. J => SenderSound
  BY InvSound, Zenon
<1> HIDE DEF J
<1> QED BY <1>1, <1>2, <1>3, PTL DEF Spec

=============================================================================
