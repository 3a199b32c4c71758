---------------------------- MODULE StreamProofs ----------------------------
(***************************************************************************)
(* What Stream promises for every choice of its constants: its types; the  *)
(* safety of the two byte streams (what is delivered is a prefix of what   *)
(* was written, what is acknowledged was delivered, what is SACKed is      *)
(* held, and a clean end comes after everything sent before the FIN); what *)
(* a sequence number stands for; and that the connection implements        *)
(* ReliablePipe.                                                           *)
(*                                                                         *)
(* The argument for safety: first what any step does to the sender, the    *)
(* receiver, the retransmission buffer and the wire (one case per action); *)
(* then the inductive invariant follows from these without looking at the  *)
(* actions again.                                                          *)
(***************************************************************************)
EXTENDS Stream, TLAPS

(* Type correctness.                                                       *)

(* The two endpoints are each other's peer.                                *)
LEMMA PeerFacts ==
  ASSUME NEW e \in Endpoint
  PROVE  /\ Peer(e) \in Endpoint
         /\ Peer(Peer(e)) = e
         /\ Peer(e) # e
BY EndpointAssumption, SMTT(30) DEF Endpoint, Peer

(* The packets and entries the actions build have their types.             *)
LEMMA PacketTypes ==
  ASSUME TypeOK, NEW e \in Endpoint, NEW s \in Nat, NEW S \in SUBSET Nat
  PROVE  /\ \A u \in Entry : Seg(e, u) \in Packet /\ Again(e, u) \in Packet
         /\ Fin(e, s) \in Packet
         /\ FinAck(e) \in Packet
         /\ Rst(e) \in Packet
         /\ Ack(e, s, S) \in Packet
BY PeerFacts, Zenon DEF TypeOK, Seg, Again, Fin, FinAck, Rst, Ack, Packet, Entry

(* The entries of the retransmission buffer have their type.               *)
LEMMA EntryTypes ==
  ASSUME NEW s \in Nat, NEW v \in Nat, NEW S, NEW U \in SUBSET Entry
  PROVE  /\ DataEntry(s, v) \in Entry
         /\ FinEntry(s) \in Entry
         /\ \A u \in Entry : Retried(u) \in Entry
         /\ Mark(U, S) \in SUBSET Entry
         /\ Forget(U) \in SUBSET Entry
<1>1. DataEntry(s, v) \in Entry /\ FinEntry(s) \in Entry
  BY Zenon DEF DataEntry, FinEntry, Entry
<1>2. \A u \in Entry : Retried(u) \in Entry
  BY SMTT(30) DEF Retried, Entry
<1>3. ASSUME NEW u \in Entry, NEW b \in BOOLEAN
      PROVE  [u EXCEPT !.sacked = b] \in Entry
  BY <1>3, Zenon DEF Entry
<1>4. \A u \in U : (u.sacked \/ u.seq \in S) \in BOOLEAN
  BY Zenon
<1>5. Mark(U, S) \in SUBSET Entry
  BY <1>3, <1>4, Zenon DEF Mark
<1>6. Forget(U) \in SUBSET Entry
  BY <1>3, Zenon DEF Forget
<1> QED BY <1>1, <1>2, <1>5, <1>6, Zenon

(* A delayed ACK SACKs only what the reorder buffer holds.                 *)
LEMMA SackedSubset ==
  ASSUME NEW held PROVE SACKBlocks(held) \subseteq held
BY Zenon DEF SACKBlocks

(* The initial state has the types.                                        *)
LEMMA TypeInit == Init => TypeOK
BY SMTT(30) DEF Init, TypeOK, State

(* The packet loop's part of the state.                                    *)
LoopType == [Endpoint -> [pc : {"idle", "push", "accept"}, todo : Seq(Nat), done : Nat]]

(* What the packet loop has in hand is a run of values and a count.        *)
LEMMA LoopTypes ==
  ASSUME TypeOK, NEW e \in Endpoint, NEW pc \in {"idle", "push", "accept"}, NEW n \in Nat
  PROVE  /\ rl[e].todo \in Seq(Nat) /\ rl[e].done \in Nat
         /\ [rl EXCEPT ![e].pc = pc] \in LoopType
         /\ [rl EXCEPT ![e].done = n] \in LoopType
<1>1. rl \in LoopType
  BY Zenon DEF TypeOK, LoopType
<1>2. rl[e] \in [pc : {"idle", "push", "accept"}, todo : Seq(Nat), done : Nat]
  BY <1>1, Zenon DEF LoopType
<1>3. [rl[e] EXCEPT !.pc = pc] \in [pc : {"idle", "push", "accept"}, todo : Seq(Nat), done : Nat]
  BY <1>2, Zenon
<1>4. [rl[e] EXCEPT !.done = n] \in [pc : {"idle", "push", "accept"}, todo : Seq(Nat), done : Nat]
  BY <1>2, Zenon
<1>5. [rl EXCEPT ![e] = [rl[e] EXCEPT !.pc = pc]] \in LoopType
  BY <1>1, <1>3, Zenon DEF LoopType
<1>6. [rl EXCEPT ![e] = [rl[e] EXCEPT !.done = n]] \in LoopType
  BY <1>1, <1>4, Zenon DEF LoopType
<1> QED BY <1>2, <1>5, <1>6, Zenon

(* What the shared parts of several actions do to the types.               *)
LEMMA ProcessAckType ==
  ASSUME TypeOK, NEW e \in Endpoint, NEW p \in net, ProcessAck(e, p)
  PROVE  /\ unacked' \in [Endpoint -> SUBSET Entry]
         /\ lastAck' \in [Endpoint -> Nat]
         /\ heldFin' \in [Endpoint -> Nat]
         /\ net' \subseteq Packet
<1> DEFINE new  == p.ack > lastAck[e]
           left == IF new THEN {u \in unacked[e] : u.seq >= p.ack} ELSE unacked[e]
           dup  == p.kind = "ack" /\ p.ack = lastAck[e]
           cand == {u \in FirstUnsacked(left) : (new \/ dup) /\ u.tries < MaxRetxAttempts}
           free == heldFin[e] # 0 /\ ~HasData(left)
           fin  == IF free /\ FinGoes(e) THEN {heldFin[e]} ELSE {}
<1>1. PICK fast \in {{}, cand} :
        /\ unacked' = [unacked EXCEPT ![e] =
             Mark((left \ fast) \cup {Retried(u) : u \in fast}
                                \cup {FinEntry(s) : s \in fin}, p.sack)]
        /\ lastAck' = [lastAck EXCEPT ![e] = IF new THEN p.ack ELSE @]
        /\ heldFin' = [heldFin EXCEPT ![e] = IF free THEN 0 ELSE @]
        /\ net' = (net \ Taken(p)) \cup {Again(e, u) : u \in fast}
                                   \cup {Fin(e, s) : s \in fin}
  BY Zenon DEF ProcessAck
<1>2. p \in Packet /\ p.ack \in Nat /\ p.sack \in SUBSET Nat
  BY Zenon DEF TypeOK, Packet
<1>3. left \subseteq Entry
  BY Zenon DEF TypeOK
<1>4. fast \subseteq Entry
  BY <1>3, Zenon DEF FirstUnsacked
<1>5. fin \subseteq Nat
  BY SMTT(30) DEF TypeOK
<1> HIDE DEF new, left, dup, cand, free, fin
<1>6. {Retried(u) : u \in fast} \subseteq Entry
  BY <1>4, EntryTypes, Zenon
<1>7. {FinEntry(s) : s \in fin} \subseteq Entry
  BY <1>5, EntryTypes, Zenon
<1>8. Mark((left \ fast) \cup {Retried(u) : u \in fast}
                       \cup {FinEntry(s) : s \in fin}, p.sack) \in SUBSET Entry
  BY <1>3, <1>6, <1>7, EntryTypes, Zenon
<1>9. {Again(e, u) : u \in fast} \subseteq Packet /\ {Fin(e, s) : s \in fin} \subseteq Packet
  BY <1>4, <1>5, PacketTypes, Zenon
<1>10. unacked' \in [Endpoint -> SUBSET Entry]
  BY <1>1, <1>8, Zenon DEF TypeOK
<1>11. lastAck' \in [Endpoint -> Nat] /\ heldFin' \in [Endpoint -> Nat]
  BY <1>1, <1>2, Zenon DEF TypeOK
<1>12. net' \subseteq Packet
  BY <1>1, <1>9, Zenon DEF TypeOK
<1> QED BY <1>10, <1>11, <1>12, Zenon

(* A delayed ACK is a packet.                                              *)
LEMMA DelayedACKType ==
  ASSUME TypeOK, NEW e \in Endpoint, NEW n \in Nat, NEW buf, DOMAIN buf \subseteq Nat
  PROVE  DelayedACK(e, n, buf) \in Packet
BY PacketTypes, SackedSubset, Zenon DEF DelayedACK

(* acceptFIN keeps the types of what it changes.                           *)
LEMMA AcceptFINType ==
  ASSUME TypeOK, NEW e \in Endpoint, AcceptFIN(e)
  PROVE  /\ st' \in [Endpoint -> State]
         /\ unacked' \in [Endpoint -> SUBSET Entry]
         /\ net' \subseteq Packet
         /\ finAcks' \in [Endpoint -> Nat]
         /\ finSeq' \in [Endpoint -> Nat]
<1>1. FinAck(e) \in Packet
  BY PacketTypes, Zenon
<1>2. /\ st \in [Endpoint -> State] /\ finAcks \in [Endpoint -> Nat]
      /\ unacked \in [Endpoint -> SUBSET Entry] /\ finSeq \in [Endpoint -> Nat]
      /\ net \subseteq Packet
  BY Zenon DEF TypeOK
<1>3. st' \in [Endpoint -> State]
  BY <1>2, Zenon DEF AcceptFIN, State
<1>4. unacked' \in [Endpoint -> SUBSET Entry] /\ finSeq' \in [Endpoint -> Nat]
  <2>1. sendSeq[e] \in Nat
    BY Zenon DEF TypeOK
  <2>2. unacked' = [unacked EXCEPT ![e] = IF st[e] = "FinWait" THEN {} ELSE @]
    BY Zenon DEF AcceptFIN
  <2>3. finSeq' = [finSeq EXCEPT ![e] = IF st[e] # "TimeWait" /\ @ = 0 THEN sendSeq[e] ELSE @]
    BY Zenon DEF AcceptFIN
  <2>4. finSeq' \in [Endpoint -> Nat]
    BY <1>2, <2>1, <2>3, Zenon
  <2> QED BY <1>2, <2>2, <2>4, Zenon
<1>5. net' \subseteq Packet
  BY <1>1, <1>2, Zenon DEF AcceptFIN
<1>6. finAcks' \in [Endpoint -> Nat]
  BY <1>2, SMTT(30) DEF AcceptFIN
<1> QED BY <1>3, <1>4, <1>5, <1>6, Zenon

(* So does sending a FIN,                                                  *)
LEMMA SendFINType ==
  ASSUME TypeOK, NEW e \in Endpoint, NEW F \in SUBSET Nat, SendFIN(e, F)
  PROVE  unacked' \in [Endpoint -> SUBSET Entry] /\ net' \subseteq Packet
<1>1. {FinEntry(s) : s \in F} \subseteq Entry
  BY EntryTypes, Zenon
<1>2. {Fin(e, s) : s \in F} \subseteq Packet
  BY PacketTypes, Zenon
<1> QED BY <1>1, <1>2, Zenon DEF SendFIN, TypeOK

(* and releasing a held one.                                               *)
LEMMA ReleaseHeldFINType ==
  ASSUME TypeOK, NEW e \in Endpoint, ReleaseHeldFIN(e)
  PROVE  /\ unacked' \in [Endpoint -> SUBSET Entry]
         /\ net' \subseteq Packet
         /\ heldFin' \in [Endpoint -> Nat]
<1>1. (IF FinGoes(e) THEN {heldFin[e]} ELSE {}) \in SUBSET Nat
  BY SMTT(30) DEF TypeOK
<1>2. unacked' \in [Endpoint -> SUBSET Entry] /\ net' \subseteq Packet
  BY <1>1, SendFINType, Zenon DEF ReleaseHeldFIN
<1>3. heldFin' \in [Endpoint -> Nat]
  BY Zenon DEF ReleaseHeldFIN, TypeOK
<1> QED BY <1>2, <1>3, Zenon

(* What a packet does to the variables of the receiving half.              *)
LEMMA RecvSegType ==
  ASSUME TypeOK, NEW e \in Endpoint, NEW p \in net, RecvSeg(e, p)
  PROVE  TypeOK'
<1>1. p.seq \in Nat /\ p.val \in Nat
  BY Zenon DEF TypeOK, Packet
<1>2. rl \in [Endpoint -> [pc : {"idle", "push", "accept"}, todo : Seq(Nat), done : Nat]]
  BY Zenon DEF TypeOK
<1>3. /\ DOMAIN ooo = Endpoint
      /\ \A f \in Endpoint : DOMAIN ooo[f] \subseteq Nat /\ ooo[f] \in [DOMAIN ooo[f] -> Nat]
  BY Zenon DEF TypeOK
<1> DEFINE Good(b) == /\ b = [f \in Endpoint |-> b[f]]
                      /\ \A f \in Endpoint : DOMAIN b[f] \subseteq Nat /\ b[f] \in [DOMAIN b[f] -> Nat]
           RL == [Endpoint -> [pc : {"idle", "push", "accept"}, todo : Seq(Nat), done : Nat]]
<1>4. ASSUME NEW D \in SUBSET Nat, NEW b \in [D -> Nat] PROVE Good([ooo EXCEPT ![e] = b])
  BY <1>3, <1>4, Zenon
<1>5. ASSUME InSequence(e, p) PROVE rl' \in RL /\ Good(ooo')
  <2>1. PICK k \in 0 .. MaxOOOBuf :
       /\ \A i \in 1 .. k : p.seq + i \in DOMAIN ooo[e]
       /\ rl' = [rl EXCEPT ![e] =
            [pc |-> "push", done |-> 0,
             todo |-> [i \in 1 .. k + 1 |-> IF i = 1 THEN p.val
                                                    ELSE ooo[e][p.seq + i - 1]]]]
       /\ ooo' = [ooo EXCEPT ![e] =
            [n \in DOMAIN ooo[e] \ (p.seq + 1 .. p.seq + k) |-> ooo[e][n]]]
    BY <1>5, Zenon DEF InSequence
  <2> DEFINE todo == [i \in 1 .. k + 1 |-> IF i = 1 THEN p.val ELSE ooo[e][p.seq + i - 1]]
             D == DOMAIN ooo[e] \ (p.seq + 1 .. p.seq + k)
             b == [n \in D |-> ooo[e][n]]
  <2>2. k \in Nat
    BY BoundAssumption, SMTT(30)
  <2>3. \A i \in 2 .. k + 1 : p.seq + i - 1 \in DOMAIN ooo[e]
    <3> TAKE i \in 2 .. k + 1
    <3>1. i - 1 \in 1 .. k /\ p.seq + (i - 1) = p.seq + i - 1
      BY <1>1, <2>2, SMTT(30)
    <3> QED BY <2>1, <3>1, Zenon
  <2>4. todo \in [1 .. k + 1 -> Nat]
    BY <1>1, <1>3, <2>2, <2>3, SMTT(30)
  <2>5. todo \in Seq(Nat)
    <3> HIDE DEF todo
    <3> QED BY <2>2, <2>4, SMTT(30)
  <2>6. rl' \in RL
    <3> HIDE DEF todo
    <3>1. rl' = [rl EXCEPT ![e] = [pc |-> "push", done |-> 0, todo |-> todo]]
      BY <2>1, Zenon DEF todo
    <3> QED BY <1>2, <2>5, <3>1, Zenon
  <2>7. D \in SUBSET Nat /\ b \in [D -> Nat]
    BY <1>3, Zenon
  <2>8. Good(ooo')
    <3> HIDE DEF Good
    <3> QED BY <1>4, <2>1, <2>7, Zenon
  <2> QED BY <2>6, <2>8, Zenon
<1>6. ASSUME OutOfSequence(e, p) PROVE rl' \in RL /\ Good(ooo')
  <2>1. rl' \in RL
    BY <1>2, <1>6, SMTT(30) DEF OutOfSequence
  <2> DEFINE b == [n \in DOMAIN ooo[e] \cup {p.seq} |-> IF n = p.seq THEN p.val ELSE ooo[e][n]]
  <2>2. DOMAIN ooo[e] \cup {p.seq} \in SUBSET Nat /\ b \in [DOMAIN ooo[e] \cup {p.seq} -> Nat]
    BY <1>1, <1>3, Zenon
  <2>3. Good([ooo EXCEPT ![e] = b])
    <3> HIDE DEF Good
    <3> QED BY <1>4, <2>2, Zenon
  <2>4. Good(ooo)
    BY Zenon DEF TypeOK
  <2>5. ooo' = ooo \/ ooo' = [ooo EXCEPT ![e] = b]
    BY <1>6, Zenon DEF OutOfSequence
  <2>6. Good(ooo')
    <3> HIDE DEF Good, b
    <3> QED BY <2>3, <2>4, <2>5, Zenon
  <2> QED BY <2>1, <2>6, Zenon
<1>7. ASSUME UNCHANGED <<rl, ooo>> PROVE rl' \in RL /\ Good(ooo')
  BY <1>7, Zenon DEF TypeOK
<1>8. rl' \in RL /\ Good(ooo')
  <2> HIDE DEF RL, Good
  <2>1. InSequence(e, p) \/ OutOfSequence(e, p) \/ UNCHANGED <<rl, ooo>>
    BY Zenon DEF RecvSeg
  <2> QED BY <1>5, <1>6, <1>7, <2>1, Zenon
<1>9. /\ unacked' \in [Endpoint -> SUBSET Entry]
      /\ lastAck' \in [Endpoint -> Nat]
      /\ heldFin' \in [Endpoint -> Nat]
      /\ net' \subseteq Packet
  BY ProcessAckType, Zenon DEF RecvSeg
<1>10. UNCHANGED <<st, up, retx, wr, sendSeq, written, finSeq, finAcks, expected,
                   recv, nread, eof, finPending, ackDue, ht, cl>>
  BY Zenon DEF RecvSeg
<1> QED BY <1>8, <1>9, <1>10, Zenon DEF TypeOK

(* Phase 3 of DeliverInOrder keeps the types of the receiver.              *)
LEMMA CommitType ==
  ASSUME TypeOK, NEW e \in Endpoint, Commit(e)
  PROVE  TypeOK'
<1> DEFINE next == expected[e] + rl[e].done
           D == {m \in DOMAIN ooo[e] \cup Undelivered(e) : m >= next}
<1>1. /\ next \in Nat /\ expected[e] \in Nat /\ rl[e].done \in Nat
      /\ rl[e].todo \in Seq(Nat) /\ rl[e] \in [pc : {"idle", "push", "accept"}, todo : Seq(Nat), done : Nat]
  BY SMTT(30) DEF TypeOK
<1>2. /\ DOMAIN ooo = Endpoint
      /\ \A f \in Endpoint : DOMAIN ooo[f] \subseteq Nat /\ ooo[f] \in [DOMAIN ooo[f] -> Nat]
  BY Zenon DEF TypeOK
<1>3. \A n \in Undelivered(e) : n \in Nat /\ n - expected[e] + 1 \in 1 .. Len(rl[e].todo)
  <2> TAKE n \in Undelivered(e)
  <2>1. Len(rl[e].todo) \in Nat
    BY <1>1, SMTT(30)
  <2>2. PICK i \in 2 .. Len(rl[e].todo) : n = expected[e] + i - 1
    BY Zenon DEF Undelivered
  <2>3. expected[e] \in Nat /\ i \in Nat /\ 2 <= i /\ i <= Len(rl[e].todo)
    BY <1>1, <2>1, <2>2, SMTT(30)
  <2> HIDE DEF next, D
  <2>4. n \in Nat /\ n - expected[e] + 1 = i
    BY <2>2, <2>3, SMTT(30)
  <2> QED BY <2>1, <2>3, <2>4, SMTT(30)
<1>4. \A i \in 1 .. Len(rl[e].todo) : rl[e].todo[i] \in Nat
  BY <1>1, SMTT(30)
<1>5. D \subseteq Nat /\ Rebuffered(e) \in [D -> Nat]
  BY <1>2, <1>3, <1>4, Zenon DEF Rebuffered
<1>6. DelayedACK(e, next, Rebuffered(e)) \in Packet
  <2> HIDE DEF next, D
  <2> QED BY <1>1, <1>5, DelayedACKType, Zenon
<1>7. net' \subseteq Packet
  BY <1>6, Zenon DEF Commit, TypeOK
<1>8. /\ ooo' = [f \in Endpoint |-> ooo'[f]]
      /\ \A f \in Endpoint : DOMAIN ooo'[f] \subseteq Nat /\ ooo'[f] \in [DOMAIN ooo'[f] -> Nat]
  <2>1. ooo' = [ooo EXCEPT ![e] = Rebuffered(e)]
    BY Zenon DEF Commit
  <2> HIDE DEF D
  <2> QED BY <1>2, <1>5, <2>1, Zenon
<1>9. /\ expected' \in [Endpoint -> Nat]
      /\ finPending' \in [Endpoint -> Nat]
      /\ eof' \in [Endpoint -> {"open", "fin", "expired", "cut"}]
  BY <1>1, Zenon DEF Commit, TypeOK
<1>10. ackDue' \in [Endpoint -> BOOLEAN]
  BY Zenon DEF Commit, TypeOK
<1>11. rl' \in [Endpoint -> [pc : {"idle", "push", "accept"}, todo : Seq(Nat), done : Nat]]
  BY SMTT(30) DEF Commit, TypeOK
<1>12. UNCHANGED <<st, up, retx, sendVars, finAcks, recv, nread, ht, cl>>
  BY Zenon DEF Commit
<1> QED BY <1>7, <1>8, <1>9, <1>10, <1>11, <1>12, Zenon DEF TypeOK, sendVars

(* A FIN or FIN-ACK keeps the types.                                       *)
LEMMA RecvFinType ==
  ASSUME TypeOK, NEW e \in Endpoint, NEW p \in net, RecvFin(e, p)
  PROVE  TypeOK'
<1>1. p.seq \in Nat
  BY Zenon DEF TypeOK, Packet
<1>2. CASE HoldFin(e, p)
  <2>1. expected[e] \in Nat /\ DOMAIN ooo[e] \subseteq Nat
    BY Zenon DEF TypeOK
  <2>2. DelayedACK(e, expected[e], ooo[e]) \in Packet
    BY <2>1, DelayedACKType, Zenon
  <2> QED BY <1>1, <1>2, <2>2, Zenon DEF RecvFin, HoldFin, TypeOK, sendVars
<1>3. CASE TakeFin(e, p)
  <2>1. rl' \in LoopType
    BY <1>1, <1>3, LoopTypes, Zenon DEF TakeFin
  <2>2. /\ finPending' \in [Endpoint -> Nat]
        /\ eof' \in [Endpoint -> {"open", "fin", "expired", "cut"}]
        /\ net' \subseteq Packet
    BY <1>3, Zenon DEF TakeFin, TypeOK
  <2> QED BY <1>3, <2>1, <2>2, Zenon DEF RecvFin, TakeFin, TypeOK, sendVars, LoopType
<1> QED BY <1>2, <1>3, Zenon DEF RecvFin

(* A retransmission, and the RST after the last one, keep the types.       *)
LEMMA RetxResendsType ==
  ASSUME TypeOK, NEW e \in Endpoint, RetxResends(e)
  PROVE  TypeOK'
<1>1. PICK U \in {unacked[e]} \cup
                  IF HeadSacked(unacked[e]) THEN {Forget(unacked[e])} ELSE {} :
      \E u \in {v \in U : ~v.sacked} :
        IF u.tries >= MaxRetxAttempts
        THEN /\ st' = [st EXCEPT ![e] = "Closed"]
             /\ unacked' = [unacked EXCEPT ![e] = U]
             /\ net' = net \cup {Rst(e)}
        ELSE /\ unacked' = [unacked EXCEPT ![e] = (U \ {u}) \cup {Retried(u)}]
             /\ net' = net \cup {Again(e, u)}
             /\ UNCHANGED st
  BY Zenon DEF RetxResends, RetransmitUnacked
<1>2. U \subseteq Entry
  <2>1. unacked[e] \subseteq Entry
    BY Zenon DEF TypeOK
  <2> QED BY <2>1, <1>1, EntryTypes, Zenon
<1>3. \A u \in U : Retried(u) \in Entry /\ Again(e, u) \in Packet
  BY <1>2, EntryTypes, PacketTypes, Zenon
<1>4. Rst(e) \in Packet
  BY PacketTypes, Zenon
<1>5. /\ st' \in [Endpoint -> State]
      /\ unacked' \in [Endpoint -> SUBSET Entry]
      /\ net' \subseteq Packet
  <2>1. PICK u \in U :
        \/ /\ st' = [st EXCEPT ![e] = "Closed"]
           /\ unacked' = [unacked EXCEPT ![e] = U]
           /\ net' = net \cup {Rst(e)}
        \/ /\ unacked' = [unacked EXCEPT ![e] = (U \ {u}) \cup {Retried(u)}]
           /\ net' = net \cup {Again(e, u)}
           /\ UNCHANGED st
    BY <1>1, Zenon
  <2>2. (U \ {u}) \cup {Retried(u)} \subseteq Entry /\ Again(e, u) \in Packet
    BY <1>2, <1>3, Zenon
  <2>3. CASE /\ st' = [st EXCEPT ![e] = "Closed"]
             /\ unacked' = [unacked EXCEPT ![e] = U]
             /\ net' = net \cup {Rst(e)}
    BY <1>2, <1>4, <2>3, Zenon DEF TypeOK, State
  <2>4. CASE /\ unacked' = [unacked EXCEPT ![e] = (U \ {u}) \cup {Retried(u)}]
             /\ net' = net \cup {Again(e, u)}
             /\ UNCHANGED st
    <3> DEFINE W == (U \ {u}) \cup {Retried(u)}
    <3>1. unacked' = [unacked EXCEPT ![e] = W] /\ W \in SUBSET Entry
      BY <2>2, <2>4, Zenon
    <3> HIDE DEF W
    <3> QED BY <2>2, <2>4, <3>1, Zenon DEF TypeOK
  <2> QED BY <2>1, <2>3, <2>4, Zenon
<1> QED BY <1>5, Zenon DEF RetxResends, TypeOK, recvVars

(* Every step preserves the types, action by action.                       *)
LEMMA TypeNext == TypeOK /\ [Next]_vars => TypeOK'
<1> SUFFICES ASSUME TypeOK, [Next]_vars PROVE TypeOK'
  BY Zenon
<1>1. ASSUME NEW e \in Endpoint, Writer(e) PROVE TypeOK'
  <2>1. CASE SendData(e)
    BY <2>1, Zenon DEF SendData, TypeOK, recvVars
  <2>2. CASE TransmitSegment(e)
    <3> DEFINE u == DataEntry(sendSeq[e], written[e] + 1)
    <3>1. sendSeq[e] \in Nat /\ written[e] + 1 \in Nat
      BY <1>1, SMTT(30) DEF TypeOK
    <3>2. u \in Entry
      BY <3>1, EntryTypes, Zenon
    <3>3. Seg(e, u) \in Packet
      BY <3>2, <3>1, <1>1, PacketTypes, Zenon
    <3> HIDE DEF u
    <3>4. /\ unacked' = [unacked EXCEPT ![e] = @ \cup {u}]
          /\ net' = net \cup {Seg(e, u)}
      BY <2>2, Zenon DEF TransmitSegment, u
    <3>5. wr' \in [Endpoint -> BOOLEAN]
      BY <1>1, <2>2, Zenon DEF TransmitSegment, TypeOK
    <3>6. unacked' \in [Endpoint -> SUBSET Entry] /\ net' \subseteq Packet
      BY <1>1, <3>2, <3>3, <3>4, Zenon DEF TypeOK
    <3>7. /\ sendSeq' \in [Endpoint -> Nat] /\ written' \in [Endpoint -> Nat]
          /\ ackDue' \in [Endpoint -> BOOLEAN]
      <4>1. /\ sendSeq \in [Endpoint -> Nat] /\ written \in [Endpoint -> Nat]
            /\ ackDue \in [Endpoint -> BOOLEAN]
        BY Zenon DEF TypeOK
      <4>2. /\ sendSeq' = [sendSeq EXCEPT ![e] = @ + 1]
            /\ written' = [written EXCEPT ![e] = @ + 1]
            /\ ackDue' = [ackDue EXCEPT ![e] = FALSE]
        BY <2>2, Zenon DEF TransmitSegment
      <4> QED BY <1>1, <4>1, <4>2, SMTT(30)
    <3>8. UNCHANGED <<st, up, retx, lastAck, heldFin, finSeq, finAcks, expected, ooo,
                      recv, nread, eof, finPending, rl, ht, cl>>
      BY <2>2, Zenon DEF TransmitSegment
    <3> QED BY <3>5, <3>6, <3>7, <3>8, Zenon DEF TypeOK
  <2>3. CASE WriteAborted(e)
    BY <2>3, Zenon DEF WriteAborted, TypeOK, recvVars
  <2>4. CASE ProbeLimit(e)
    <3>1. Rst(e) \in Packet
      BY <1>1, PacketTypes, Zenon
    <3> QED BY <2>4, <3>1, Zenon DEF ProbeLimit, TypeOK, recvVars, State
  <2> QED BY <1>1, <2>1, <2>2, <2>3, <2>4, Zenon DEF Writer
<1>2. ASSUME NEW e \in Endpoint, Timers(e) PROVE TypeOK'
  <2>1. CASE SendDelayedACK(e)
    <3>1. expected[e] \in Nat /\ DOMAIN ooo[e] \subseteq Nat
      BY <1>2, Zenon DEF TypeOK
    <3>2. DelayedACK(e, expected[e], ooo[e]) \in Packet
      BY <1>2, <3>1, DelayedACKType, Zenon
    <3> QED BY <1>2, <2>1, <3>2, Zenon DEF SendDelayedACK, TypeOK, sendVars
  <2>2. CASE ExpireHeldFIN(e)
    BY <1>2, <2>2, Zenon DEF ExpireHeldFIN, TypeOK, sendVars
  <2>3. CASE HoldTimerAccepts(e)
    BY <1>2, <2>3, AcceptFINType, Zenon DEF HoldTimerAccepts, TypeOK
  <2>4. CASE Linger(e)
    BY <1>2, <2>4, ReleaseHeldFINType, Zenon DEF Linger, TypeOK, recvVars
  <2> QED BY <1>2, <2>1, <2>2, <2>3, <2>4, Zenon DEF Timers
<1>3. ASSUME NEW e \in Endpoint, PacketLoop(e) PROVE TypeOK'
  <2>1. CASE HandlePacket(e)
    <3>1. PICK p \in net : RecvSeg(e, p) \/ RecvAck(e, p) \/ RecvFin(e, p) \/ RecvRst(e, p)
      BY <2>1, Zenon DEF HandlePacket
    <3>2. CASE RecvSeg(e, p)
      BY <1>3, <3>2, RecvSegType, Zenon
    <3>3. CASE RecvAck(e, p)
      <4>1. ProcessAck(e, p)
        BY <3>3, Zenon DEF RecvAck
      <4>2. /\ unacked' \in [Endpoint -> SUBSET Entry]
            /\ lastAck' \in [Endpoint -> Nat]
            /\ heldFin' \in [Endpoint -> Nat]
            /\ net' \subseteq Packet
        BY <1>3, <4>1, ProcessAckType, Zenon
      <4>3. UNCHANGED <<st, up, retx, wr, sendSeq, written, finSeq, finAcks, recvVars, cl>>
        BY <3>3, Zenon DEF RecvAck
      <4> QED BY <4>2, <4>3, Zenon DEF TypeOK, recvVars
    <3>4. CASE RecvFin(e, p)
      BY <1>3, <3>4, RecvFinType, Zenon
    <3>5. CASE RecvRst(e, p)
      BY <1>3, <3>5, Zenon DEF RecvRst, Cut, Remove, TypeOK, State, sendVars
    <3> QED BY <3>1, <3>2, <3>3, <3>4, <3>5, Zenon
  <2>2. CASE Push(e)
    <3>1. recv' = [recv EXCEPT ![e] = Append(@, rl[e].todo[rl[e].done + 1])]
      BY <2>2, Zenon DEF Push
    <3>2. rl[e].todo[rl[e].done + 1] \in Nat /\ recv[e] \in Seq(Nat)
      <4>1. rl[e].todo \in Seq(Nat) /\ rl[e].done \in Nat
        BY <1>3, LoopTypes, Zenon
      <4>2. rl[e].done + 1 \in 1 .. Len(rl[e].todo)
        BY <4>1, <2>2, SMTT(30) DEF Push
      <4>3. recv \in [Endpoint -> Seq(Nat)]
        BY Zenon DEF TypeOK
      <4>4. rl[e].todo[rl[e].done + 1] \in Nat
        <5> DEFINE todo == rl[e].todo
                   i == rl[e].done + 1
        <5>1. todo \in Seq(Nat) /\ i \in 1 .. Len(todo)
          BY <4>1, <4>2, Zenon
        <5> HIDE DEF todo, i
        <5>2. todo[i] \in Nat
          BY <5>1, SMTT(30)
        <5> QED BY <5>2, Zenon DEF todo, i
      <4> QED BY <1>3, <4>3, <4>4, Zenon
    <3>3. recv' \in [Endpoint -> Seq(Nat)]
      BY <1>3, <3>1, <3>2, SMTT(30) DEF TypeOK
    <3>4. \A f \in Endpoint : Len(recv'[f]) >= Len(recv[f])
      BY <1>3, <3>1, <3>2, SMTT(30) DEF TypeOK
    <3>5. rl' \in LoopType
      <4>1. rl[e].done + 1 \in Nat
        <5>1. rl[e].done \in Nat
          BY <1>3, LoopTypes, Zenon
        <5> QED BY <5>1, SMTT(30)
      <4> QED BY <1>3, <2>2, <4>1, LoopTypes, Zenon DEF Push
    <3>6. UNCHANGED <<st, up, retx, sendVars, finAcks, expected, ooo, nread, eof,
                      finPending, ackDue, ht, cl, net>>
      BY <2>2, Zenon DEF Push
    <3>7. \A f \in Endpoint : nread'[f] <= Len(recv'[f])
      <4> TAKE f \in Endpoint
      <4>1. nread'[f] = nread[f] /\ nread[f] \in Nat /\ nread[f] <= Len(recv[f])
        BY <3>6, Zenon DEF TypeOK
      <4>2. Len(recv[f]) \in Nat /\ Len(recv'[f]) \in Nat
        <5>1. recv[f] \in Seq(Nat)
          BY Zenon DEF TypeOK
        <5>2. recv'[f] \in Seq(Nat)
          BY <3>3, Zenon
        <5>3. Len(recv[f]) \in Nat
          BY <5>1, SMTT(30)
        <5>4. Len(recv'[f]) \in Nat
          BY <5>2, SMTT(30)
        <5> QED BY <5>3, <5>4, Zenon
      <4> QED BY <3>4, <4>1, <4>2, SMTT(30)
    <3> QED BY <3>3, <3>5, <3>6, <3>7, Zenon DEF TypeOK, sendVars, LoopType
  <2>3. CASE Commit(e)
    BY <1>3, <2>3, CommitType, Zenon
  <2>4. CASE PacketLoopAccepts(e)
    <3>1. rl' \in LoopType
      BY <1>3, <2>4, 0 \in Nat, LoopTypes, Zenon DEF PacketLoopAccepts
    <3> QED BY <1>3, <2>4, <3>1, AcceptFINType, Zenon DEF PacketLoopAccepts, TypeOK, LoopType
  <2> QED BY <1>3, <2>1, <2>2, <2>3, <2>4, Zenon DEF PacketLoop
<1>4. ASSUME NEW e \in Endpoint, RetxLoop(e) PROVE TypeOK'
  <2>1. CASE RetxResends(e)
    BY <1>4, <2>1, RetxResendsType, Zenon
  <2>2. CASE RetxExits(e)
    BY <1>4, <2>2, Zenon DEF RetxExits, TypeOK, sendVars, recvVars
  <2>3. CASE RetxCleansUp(e)
    BY <1>4, <2>3, Zenon DEF RetxCleansUp, Cut, Remove, TypeOK, sendVars
  <2> QED BY <1>4, <2>1, <2>2, <2>3, Zenon DEF RetxLoop
<1>5. ASSUME NEW e \in Endpoint, Probe(e) PROVE TypeOK'
  <2>1. Ack(e, expected[e], {}) \in Packet
    BY <1>5, PacketTypes, Zenon DEF TypeOK
  <2> QED BY <1>5, <2>1, Zenon DEF Probe, TypeOK, sendVars, recvVars
<1>6. ASSUME NEW e \in Endpoint, Read(e) PROVE TypeOK'
  <2>1. /\ nread[e] \in Nat /\ Len(recv[e]) \in Nat /\ nread[e] < Len(recv[e])
        /\ nread' = [nread EXCEPT ![e] = @ + 1] /\ recv' = recv
    BY <1>6, SMTT(30) DEF Read, TypeOK
  <2>2. nread \in [Endpoint -> Nat] /\ \A f \in Endpoint : nread[f] <= Len(recv[f])
    BY Zenon DEF TypeOK
  <2>3. nread' \in [Endpoint -> Nat]
    BY <1>6, <2>1, <2>2, SMTT(30)
  <2>4. \A f \in Endpoint : nread'[f] <= Len(recv'[f])
    BY <1>6, <2>1, <2>2, SMTT(30)
  <2> QED BY <1>6, <2>3, <2>4, Zenon DEF Read, TypeOK, sendVars
<1>7. ASSUME NEW e \in Endpoint, Reap(e) PROVE TypeOK'
  BY <1>7, ReleaseHeldFINType, Zenon DEF Reap, Cut, Remove, TypeOK
<1>8. ASSUME NEW e \in Endpoint, Stop(e) PROVE TypeOK'
  <2>1. StopFin(e) \subseteq Nat
    BY <1>8, SMTT(30) DEF StopFin, TypeOK
  <2>2. {Fin(e, s) : s \in StopFin(e)} \subseteq Packet
    BY <1>8, <2>1, PacketTypes, Zenon
  <2> QED BY <1>8, <2>2, Zenon DEF Stop, Cut, Remove, TypeOK, State
<1>9. ASSUME NEW e \in Endpoint, NEW c \in Closer, Close(e, c) PROVE TypeOK'
  <2>1. CASE CloseBegins(e, c)
    BY <1>9, <2>1, Zenon DEF CloseBegins, Goto, TypeOK, sendVars, recvVars
  <2>2. CASE CloseReserves(e, c)
    <3>1. /\ heldFin' \in [Endpoint -> Nat]
          /\ sendSeq' \in [Endpoint -> Nat]
          /\ finSeq' \in [Endpoint -> Nat]
      <4>0. /\ sendSeq \in [Endpoint -> Nat] /\ finSeq \in [Endpoint -> Nat]
            /\ heldFin \in [Endpoint -> Nat]
        BY Zenon DEF TypeOK
      <4>1. sendSeq[e] \in Nat
        BY <1>9, <4>0, Zenon
      <4>2. sendSeq' = sendSeq \/ sendSeq' = [sendSeq EXCEPT ![e] = @ + 1]
        BY <2>2, Zenon DEF CloseReserves
      <4>3. finSeq' = finSeq \/ finSeq' = [finSeq EXCEPT ![e] = IF @ = 0 THEN sendSeq[e] ELSE @]
        BY <2>2, Zenon DEF CloseReserves
      <4>4. heldFin' = heldFin \/ heldFin' = [heldFin EXCEPT ![e] = IF st[e] = "Established" THEN sendSeq[e] ELSE @]
        BY <2>2, Zenon DEF CloseReserves
      <4>5. sendSeq' \in [Endpoint -> Nat]
        BY <4>0, <4>1, <4>2, SMTT(30)
      <4>6. finSeq' \in [Endpoint -> Nat]
        BY <4>0, <4>1, <4>3, Zenon
      <4>7. heldFin' \in [Endpoint -> Nat]
        BY <4>0, <4>1, <4>4, Zenon
      <4> QED BY <4>5, <4>6, <4>7, Zenon
    <3>2. \E pc \in {"release", "fin", "shut"} : \E n \in Nat :
             cl' = [cl EXCEPT ![e][c] = [pc |-> pc, fin |-> n]]
      BY <1>9, <2>2, Zenon DEF CloseReserves, Goto, TypeOK
    <3>3. cl' \in [Endpoint -> [Closer ->
            [pc : {"idle", "hold", "send", "release", "fin", "shut", "wait", "done"},
             fin : Nat]]]
      BY <1>9, <3>2, SMTT(30) DEF TypeOK
    <3> QED BY <2>2, <3>1, <3>3, Zenon DEF CloseReserves, TypeOK, recvVars
  <2>3. CASE CloseSends(e, c)
    <3>1. cl' \in [Endpoint -> [Closer ->
            [pc : {"idle", "hold", "send", "release", "fin", "shut", "wait", "done"},
             fin : Nat]]]
      BY <1>9, <2>3, Zenon DEF CloseSends, Goto, TypeOK
    <3>2. {cl[e][c].fin} \in SUBSET Nat
      BY <1>9, SMTT(30) DEF TypeOK
    <3>3. /\ unacked' \in [Endpoint -> SUBSET Entry]
          /\ net' \subseteq Packet
          /\ heldFin' \in [Endpoint -> Nat]
      <4>1. CASE SendFIN(e, {cl[e][c].fin}) /\ UNCHANGED heldFin
        BY <1>9, <4>1, <3>2, SendFINType, Zenon DEF TypeOK
      <4>2. CASE ReleaseHeldFIN(e)
        BY <1>9, <4>2, ReleaseHeldFINType, Zenon
      <4>3. CASE UNCHANGED <<unacked, net, heldFin>>
        BY <4>3, Zenon DEF TypeOK
      <4> QED BY <2>3, <4>1, <4>2, <4>3, Zenon DEF CloseSends
    <3> QED BY <2>3, <3>1, <3>3, Zenon DEF CloseSends, TypeOK, recvVars
  <2>4. CASE CloseShuts(e, c)
    BY <1>9, <2>4, Zenon DEF CloseShuts, Goto, Cut, TypeOK, sendVars
  <2>5. CASE CloseEnds(e, c)
    BY <1>9, <2>5, Zenon DEF CloseEnds, Goto, TypeOK, State, sendVars, recvVars
  <2> QED BY <1>9, <2>1, <2>2, <2>3, <2>4, <2>5, Zenon DEF Close
<1>10. CASE Lose
  BY <1>10, Zenon DEF Lose, TypeOK, sendVars, recvVars
<1>11. CASE UNCHANGED vars
  BY <1>11, Zenon DEF TypeOK, vars, sendVars, recvVars
<1> QED
  BY <1>1, <1>2, <1>3, <1>4, <1>5, <1>6, <1>7, <1>8, <1>9, <1>10, <1>11, Zenon DEF Next

(* The state of both endpoints and every packet keep their types, in every *)
(* behaviour of the connection (Connection, retxEntry, protocol.Packet).   *)
THEOREM TypeCorrect == Spec => []TypeOK
BY TypeInit, TypeNext, PTL DEF Spec

-----------------------------------------------------------------------------
(* The inductive invariant.                                                *)

(* CloseConnection has taken sequence numbers for FINs.                    *)
Reserved(e) == sendSeq[e] > written[e] + 1

(* The sequence space of a sender: data and FINs take one number each, and *)
(* the first FIN's is known once one is taken.                             *)
SendInv ==
  \A e \in Endpoint :
    /\ written[e] + 1 <= sendSeq[e]
    /\ finSeq[e] <= sendSeq[e]
    /\ Reserved(e) => finSeq[e] # 0 /\ finSeq[e] < sendSeq[e]
    /\ st[e] = "Established" /\ ~Reserved(e) => finSeq[e] = 0

(* Segment s of e carries value v: before the first FIN the two agree.     *)
GoodSeg(e, s, v) ==
  /\ 1 <= s /\ s < sendSeq[e]
  /\ 1 <= v /\ v <= written[e]
  /\ ~Reserved(e) => v = s
  /\ Reserved(e) => s # finSeq[e] /\ (s < finSeq[e] => v = s)

(* Every copy of a segment, wherever it is, is the segment that was sent.  *)
SegInv ==
  /\ \A p \in net : p.kind = "seg" => GoodSeg(Peer(p.to), p.seq, p.val)
  /\ \A e \in Endpoint :
       /\ \A u \in unacked[e] : u.val # 0 => GoodSeg(e, u.seq, u.val)
       /\ \A n \in DOMAIN ooo[e] : GoodSeg(Peer(e), n, ooo[e][n])
       /\ \A i \in 1 .. Len(rl[e].todo) :
            GoodSeg(Peer(e), expected[e] + i - 1, rl[e].todo[i])

(* The receiver: expected lags what is in RecvBuf by what phase 2 has      *)
(* pushed, and delivery never passes the peer's FIN.                       *)
RecvInv ==
  \A e \in Endpoint :
    /\ expected[e] + rl[e].done = Len(recv[e]) + 1
    /\ rl[e].done <= Len(rl[e].todo)
    /\ rl[e].pc # "push" => rl[e].todo = <<>> /\ rl[e].done = 0
    /\ Len(recv[e]) <= written[Peer(e)]
    /\ \A i \in 1 .. Len(recv[e]) : recv[e][i] = i
    /\ Reserved(Peer(e)) => Len(recv[e]) + 1 <= finSeq[Peer(e)]

(* No acknowledgement, on the wire or taken, runs ahead of delivery.       *)
AckInv ==
  /\ \A p \in net : p.ack <= expected[Peer(p.to)]
  /\ \A e \in Endpoint : lastAck[e] <= expected[Peer(e)]

(* A FIN of e, wherever it is, is at or after e's first.                   *)
GoodFin(e, s) == finSeq[e] # 0 /\ finSeq[e] <= s

FinInv ==
  /\ \A p \in net : p.kind \in {"fin", "finack"} => GoodFin(Peer(p.to), p.seq)
  /\ \A e \in Endpoint :
       /\ heldFin[e] # 0 => GoodFin(e, heldFin[e])
       /\ finPending[e] # 0 => GoodFin(Peer(e), finPending[e])
       /\ \A u \in unacked[e] : u.val = 0 => GoodFin(e, u.seq)
       /\ \A c \in Closer : cl[e][c].pc = "fin" => GoodFin(e, cl[e][c].fin)

(* The receiver holds segment n where no later step can lose it.           *)
Held(e, n) ==
  \/ n < expected[e]
  \/ n \in DOMAIN ooo[e]
  \/ expected[e] < n /\ n < expected[e] + Len(rl[e].todo)

SackInv ==
  /\ \A p \in net : \A n \in p.sack : Held(Peer(p.to), n)
  /\ \A e \in Endpoint : \A u \in unacked[e] : u.sacked => Held(Peer(e), u.seq)

-----------------------------------------------------------------------------
(* What a step does to the sequence space of the senders.                  *)

Sends(e) ==
  /\ sendSeq' = [sendSeq EXCEPT ![e] = @ + 1]
  /\ written' = [written EXCEPT ![e] = @ + 1]
  /\ UNCHANGED <<st, finSeq>>

Marks(e) == finSeq' = [finSeq EXCEPT ![e] = IF @ = 0 THEN sendSeq[e] ELSE @]

Reserves(e) ==
  /\ st[e] = "Established"
  /\ sendSeq' = [sendSeq EXCEPT ![e] = @ + 1]
  /\ Marks(e)
  /\ UNCHANGED <<st, written>>

Ends(e) ==
  /\ \E s \in State \ {"Established"} : st' = [st EXCEPT ![e] = s]
  /\ Marks(e) \/ UNCHANGED finSeq
  /\ UNCHANGED <<sendSeq, written>>

SenderStep ==
  \/ \E e \in Endpoint : Sends(e) \/ Reserves(e) \/ Ends(e)
  \/ UNCHANGED <<st, sendSeq, written, finSeq>>

(* acceptFIN leaves ESTABLISHED and may mark the first FIN.                *)
LEMMA AcceptEnds ==
  ASSUME TypeOK, NEW e \in Endpoint, AcceptFIN(e), UNCHANGED <<sendSeq, written>>
  PROVE  Ends(e)
<1>1. st' = [st EXCEPT ![e] = "TimeWait"]
  BY Zenon DEF AcceptFIN
<1>2. Marks(e) \/ UNCHANGED finSeq
  <2>1. CASE st[e] # "TimeWait"
    BY <2>1, Zenon DEF AcceptFIN, Marks
  <2>2. CASE st[e] = "TimeWait"
    <3>1. finSeq' = [finSeq EXCEPT ![e] = @]
      BY <2>2, Zenon DEF AcceptFIN
    <3> QED BY <3>1, Zenon DEF TypeOK
  <2> QED BY <2>1, <2>2, Zenon
<1> QED BY <1>1, <1>2, Zenon DEF Ends, State

(* Every step is one of these for the senders.                             *)
LEMMA SenderSteps == TypeOK /\ [Next]_vars => SenderStep
<1> SUFFICES ASSUME TypeOK, [Next]_vars PROVE SenderStep
  BY Zenon
<1>1. ASSUME NEW e \in Endpoint, Writer(e) PROVE SenderStep
  <2>1. CASE TransmitSegment(e)
    BY <1>1, <2>1, Zenon DEF TransmitSegment, SenderStep, Sends
  <2>2. CASE ProbeLimit(e)
    BY <1>1, <2>2, Zenon DEF ProbeLimit, SenderStep, Ends, State
  <2>3. CASE SendData(e) \/ WriteAborted(e)
    BY <2>3, Zenon DEF SendData, WriteAborted, SenderStep
  <2> QED BY <1>1, <2>1, <2>2, <2>3, Zenon DEF Writer
<1>2. ASSUME NEW e \in Endpoint, Timers(e) PROVE SenderStep
  <2>1. CASE SendDelayedACK(e) \/ ExpireHeldFIN(e) \/ Linger(e)
    BY <2>1, Zenon DEF SendDelayedACK, ExpireHeldFIN, Linger, SenderStep, sendVars
  <2>2. CASE HoldTimerAccepts(e)
    BY <1>2, <2>2, AcceptEnds, Zenon DEF HoldTimerAccepts, SenderStep
  <2> QED BY <1>2, <2>1, <2>2, Zenon DEF Timers
<1>3. ASSUME NEW e \in Endpoint, PacketLoop(e) PROVE SenderStep
  <2>1. ASSUME NEW p \in net, RecvSeg(e, p) \/ RecvAck(e, p) \/ RecvFin(e, p) PROVE SenderStep
    BY <2>1, Zenon DEF RecvSeg, RecvAck, RecvFin, SenderStep, sendVars
  <2>2. ASSUME NEW p \in net, RecvRst(e, p) PROVE SenderStep
    BY <1>3, <2>2, Zenon DEF RecvRst, SenderStep, Ends, State, sendVars
  <2>3. CASE HandlePacket(e)
    BY <2>1, <2>2, <2>3, Zenon DEF HandlePacket
  <2>4. CASE Push(e) \/ Commit(e)
    BY <2>4, Zenon DEF Push, Commit, SenderStep, sendVars
  <2>5. CASE PacketLoopAccepts(e)
    BY <1>3, <2>5, AcceptEnds, Zenon DEF PacketLoopAccepts, SenderStep
  <2> QED BY <1>3, <2>3, <2>4, <2>5, Zenon DEF PacketLoop
<1>4. ASSUME NEW e \in Endpoint, RetxLoop(e) PROVE SenderStep
  <2>1. CASE RetxResends(e)
    <3>1. st' = [st EXCEPT ![e] = "Closed"] \/ UNCHANGED st
      BY <2>1, Zenon DEF RetxResends, RetransmitUnacked
    <3>2. UNCHANGED <<sendSeq, written, finSeq>>
      BY <2>1, Zenon DEF RetxResends
    <3> QED BY <1>4, <3>1, <3>2, Zenon DEF SenderStep, Ends, State
  <2>2. CASE RetxExits(e) \/ RetxCleansUp(e)
    BY <2>2, Zenon DEF RetxExits, RetxCleansUp, SenderStep, sendVars
  <2> QED BY <1>4, <2>1, <2>2, Zenon DEF RetxLoop
<1>5. ASSUME NEW e \in Endpoint, Probe(e) \/ Read(e) \/ Reap(e) PROVE SenderStep
  BY <1>5, Zenon DEF Probe, Read, Reap, SenderStep, sendVars
<1>6. ASSUME NEW e \in Endpoint, Stop(e) PROVE SenderStep
  <2>1. Marks(e) \/ UNCHANGED finSeq
    <3>1. CASE st[e] = "Established"
      BY <1>6, <3>1, Zenon DEF Stop, Marks
    <3>2. CASE st[e] # "Established"
      <4>1. finSeq' = [finSeq EXCEPT ![e] = @]
        BY <1>6, <3>2, Zenon DEF Stop
      <4> QED BY <4>1, Zenon DEF TypeOK
    <3> QED BY <3>1, <3>2, Zenon
  <2> QED BY <1>6, <2>1, Zenon DEF Stop, SenderStep, Ends, State
<1>7. ASSUME NEW e \in Endpoint, NEW c \in Closer, Close(e, c) PROVE SenderStep
  <2>1. CASE CloseReserves(e, c)
    BY <1>7, <2>1, Zenon DEF CloseReserves, SenderStep, Reserves, Marks
  <2>2. CASE CloseEnds(e, c)
    BY <1>7, <2>2, Zenon DEF CloseEnds, SenderStep, Ends, State, sendVars
  <2>3. CASE CloseBegins(e, c) \/ CloseSends(e, c) \/ CloseShuts(e, c)
    BY <2>3, Zenon DEF CloseBegins, CloseSends, CloseShuts, SenderStep, sendVars
  <2> QED BY <1>7, <2>1, <2>2, <2>3, Zenon DEF Close
<1>8. CASE Lose \/ UNCHANGED vars
  BY <1>8, Zenon DEF Lose, SenderStep, vars, sendVars
<1> QED
  BY <1>1, <1>2, <1>3, <1>4, <1>5, <1>6, <1>7, <1>8, Zenon DEF Next

(* The sequence space stays in order, and what is good stays good.         *)
LEMMA SenderTypes ==
  ASSUME TypeOK
  PROVE  /\ st \in [Endpoint -> State]
         /\ sendSeq \in [Endpoint -> Nat] /\ written \in [Endpoint -> Nat]
         /\ finSeq \in [Endpoint -> Nat]
BY Zenon DEF TypeOK

(* The order of the sequence space is kept.                                *)
LEMMA SendInvNext ==
  ASSUME TypeOK, SendInv, SenderStep PROVE SendInv'
<1>1. ASSUME NEW e \in Endpoint, Sends(e) PROVE SendInv'
  BY <1>1, SenderTypes, SMTT(30) DEF SendInv, Sends, Reserved
<1>2. ASSUME NEW e \in Endpoint, Reserves(e) PROVE SendInv'
  BY <1>2, SenderTypes, SMTT(30) DEF SendInv, Reserves, Marks, Reserved
<1>3. ASSUME NEW e \in Endpoint, Ends(e) PROVE SendInv'
  <2>1. st' \in [Endpoint -> State] /\ st'[e] # "Established" /\ \A f \in Endpoint \ {e} : st'[f] = st[f]
    BY <1>3, SenderTypes, Zenon DEF Ends
  <2>2. /\ \A f \in Endpoint \ {e} : finSeq'[f] = finSeq[f]
        /\ finSeq'[e] = finSeq[e] \/ (finSeq[e] = 0 /\ finSeq'[e] = sendSeq[e])
    BY <1>3, SenderTypes, Zenon DEF Ends, Marks
  <2>3. UNCHANGED <<sendSeq, written>>
    BY <1>3, Zenon DEF Ends
  <2> QED BY <2>1, <2>2, <2>3, SenderTypes, SMTT(30) DEF SendInv, Reserved
<1>4. CASE UNCHANGED <<st, sendSeq, written, finSeq>>
  BY <1>4, Zenon DEF SendInv, Reserved
<1> QED BY <1>1, <1>2, <1>3, <1>4, Zenon DEF SenderStep

(* A segment that was sent stays the segment that was sent.                *)
LEMMA SegStable ==
  ASSUME TypeOK, SendInv, SenderStep,
         NEW e \in Endpoint, NEW s \in Nat, NEW v \in Nat, GoodSeg(e, s, v)
  PROVE  GoodSeg(e, s, v)'
<1>1. ASSUME NEW f \in Endpoint, Sends(f) PROVE GoodSeg(e, s, v)'
  BY <1>1, SenderTypes, SMTT(30) DEF SendInv, Sends, Reserved, GoodSeg
<1>2. ASSUME NEW f \in Endpoint, Reserves(f) PROVE GoodSeg(e, s, v)'
  BY <1>2, SenderTypes, SMTT(30) DEF SendInv, Reserves, Marks, Reserved, GoodSeg
<1>3. ASSUME NEW f \in Endpoint, Ends(f) PROVE GoodSeg(e, s, v)'
  BY <1>3, SenderTypes, Zenon DEF SendInv, Ends, Marks, Reserved, GoodSeg
<1>4. CASE UNCHANGED <<st, sendSeq, written, finSeq>>
  BY <1>4, Zenon DEF GoodSeg, Reserved
<1> QED BY <1>1, <1>2, <1>3, <1>4, Zenon DEF SenderStep

(* The place of the first FIN does not move.                               *)
LEMMA FinStable ==
  ASSUME TypeOK, SenderStep,
         NEW e \in Endpoint, finSeq[e] # 0
  PROVE  finSeq'[e] = finSeq[e]
BY SenderTypes, Zenon DEF SenderStep, Sends, Reserves, Ends, Marks

-----------------------------------------------------------------------------
(* What a step does to the receivers.                                      *)

Arrives(e) ==
  /\ rl[e].pc = "idle"
  /\ \E p \in net : /\ p.to = e /\ p.kind = "seg"
                    /\ InSequence(e, p) \/ OutOfSequence(e, p)
  /\ UNCHANGED <<expected, recv>>

Pushes(e) ==
  /\ rl[e].pc = "push"
  /\ rl[e].done < Len(rl[e].todo)
  /\ recv' = [recv EXCEPT ![e] = Append(@, rl[e].todo[rl[e].done + 1])]
  /\ rl' = [rl EXCEPT ![e].done = @ + 1]
  /\ UNCHANGED <<expected, ooo>>

Commits(e) ==
  /\ rl[e].pc = "push"
  /\ expected' = [expected EXCEPT ![e] = expected[e] + rl[e].done]
  /\ ooo' = [ooo EXCEPT ![e] = Rebuffered(e)]
  /\ \E pc \in {"idle", "accept"} : rl' = [rl EXCEPT ![e] = [pc |-> pc, todo |-> <<>>, done |-> 0]]
  /\ UNCHANGED recv

Turns(e) ==
  /\ rl[e].pc # "push"
  /\ \E pc \in {"idle", "accept"} : rl' = [rl EXCEPT ![e].pc = pc]
  /\ UNCHANGED <<expected, ooo, recv>>

ReceiverStep ==
  \/ \E e \in Endpoint : Arrives(e) \/ Pushes(e) \/ Commits(e) \/ Turns(e)
  \/ UNCHANGED <<expected, ooo, recv, rl>>

(* Every step is one of these for the receivers.                           *)
LEMMA ReceiverSteps == TypeOK /\ [Next]_vars => ReceiverStep
<1> SUFFICES ASSUME TypeOK, [Next]_vars PROVE ReceiverStep
  BY Zenon
<1>1. ASSUME NEW e \in Endpoint, Writer(e) \/ RetxLoop(e) PROVE ReceiverStep
  BY <1>1, Zenon DEF Writer, SendData, TransmitSegment, WriteAborted, ProbeLimit,
              RetxLoop, RetxResends, RetxExits, RetxCleansUp, ReceiverStep, recvVars
<1>2. ASSUME NEW e \in Endpoint, Timers(e) PROVE ReceiverStep
  BY <1>2, Zenon DEF Timers, SendDelayedACK, ExpireHeldFIN, HoldTimerAccepts, Linger,
              ReceiverStep, recvVars
<1>3. ASSUME NEW e \in Endpoint, PacketLoop(e) PROVE ReceiverStep
  <2>1. ASSUME NEW p \in net, p.to = e, rl[e].pc = "idle", RecvSeg(e, p) PROVE ReceiverStep
    <3>1. CASE st[e] = "Established"
      BY <1>3, <2>1, <3>1, Zenon DEF RecvSeg, ReceiverStep, Arrives
    <3>2. CASE st[e] # "Established"
      BY <2>1, <3>2, Zenon DEF RecvSeg, ReceiverStep
    <3> QED BY <3>1, <3>2, Zenon
  <2>2. ASSUME NEW p \in net, RecvAck(e, p) \/ RecvRst(e, p) PROVE ReceiverStep
    BY <2>2, Zenon DEF RecvAck, RecvRst, ReceiverStep, recvVars
  <2>3. ASSUME NEW p \in net, rl[e].pc = "idle", RecvFin(e, p) PROVE ReceiverStep
    BY <1>3, <2>3, Zenon DEF RecvFin, HoldFin, TakeFin, ReceiverStep, Turns
  <2>4. CASE HandlePacket(e)
    BY <2>1, <2>2, <2>3, <2>4, Zenon DEF HandlePacket
  <2>5. CASE Push(e)
    BY <1>3, <2>5, Zenon DEF Push, ReceiverStep, Pushes
  <2>6. CASE Commit(e)
    BY <1>3, <2>6, Zenon DEF Commit, ReceiverStep, Commits
  <2>7. CASE PacketLoopAccepts(e)
    BY <1>3, <2>7, Zenon DEF PacketLoopAccepts, ReceiverStep, Turns
  <2> QED BY <1>3, <2>4, <2>5, <2>6, <2>7, Zenon DEF PacketLoop
<1>4. ASSUME NEW e \in Endpoint, Probe(e) \/ Read(e) \/ Reap(e) \/ Stop(e) PROVE ReceiverStep
  BY <1>4, Zenon DEF Probe, Read, Reap, Stop, ReceiverStep, recvVars
<1>5. ASSUME NEW e \in Endpoint, NEW c \in Closer, Close(e, c) PROVE ReceiverStep
  BY <1>5, Zenon DEF Close, CloseBegins, CloseReserves, CloseSends, CloseShuts, CloseEnds,
              ReceiverStep, recvVars
<1>6. CASE Lose \/ UNCHANGED vars
  BY <1>6, Zenon DEF Lose, ReceiverStep, vars, recvVars
<1> QED
  BY <1>1, <1>2, <1>3, <1>4, <1>5, <1>6, Zenon DEF Next

(* The types of a receiver, taken apart.                                   *)
LEMMA ReceiverTypes ==
  ASSUME TypeOK, NEW e \in Endpoint
  PROVE  /\ expected \in [Endpoint -> Nat] /\ expected[e] \in Nat
         /\ recv \in [Endpoint -> Seq(Nat)] /\ recv[e] \in Seq(Nat) /\ Len(recv[e]) \in Nat
         /\ rl \in LoopType
         /\ rl[e] \in [pc : {"idle", "push", "accept"}, todo : Seq(Nat), done : Nat]
         /\ rl[e].todo \in Seq(Nat) /\ Len(rl[e].todo) \in Nat /\ rl[e].done \in Nat
         /\ DOMAIN ooo = Endpoint
         /\ DOMAIN ooo[e] \subseteq Nat /\ ooo[e] \in [DOMAIN ooo[e] -> Nat]
<1>1. expected \in [Endpoint -> Nat] /\ recv \in [Endpoint -> Seq(Nat)]
  BY Zenon DEF TypeOK
<1>2. rl \in LoopType
  BY Zenon DEF TypeOK, LoopType
<1>3. rl[e] \in [pc : {"idle", "push", "accept"}, todo : Seq(Nat), done : Nat]
  BY <1>2, Zenon DEF LoopType
<1>4. /\ DOMAIN ooo = Endpoint
      /\ DOMAIN ooo[e] \subseteq Nat /\ ooo[e] \in [DOMAIN ooo[e] -> Nat]
  BY Zenon DEF TypeOK
<1>5. recv[e] \in Seq(Nat) /\ rl[e].todo \in Seq(Nat)
  BY <1>1, <1>3, Zenon
<1> QED BY <1>1, <1>2, <1>3, <1>4, <1>5, SMTT(30)

(* The segments the packet loop has in hand after phase 1: the one that    *)
(* came in and the buffered ones after it, each at its place.              *)
InHand(e, p, k) ==
  /\ p.seq = expected[e] /\ p.seq \in Nat /\ p.val \in Nat
  /\ rl'[e].pc = "push" /\ rl'[e].done = 0 /\ Len(rl'[e].todo) = k + 1
  /\ rl'[e].todo[1] = p.val
  /\ \A i \in 2 .. k + 1 : /\ expected[e] + i - 1 \in DOMAIN ooo[e]
                          /\ rl'[e].todo[i] = ooo[e][expected[e] + i - 1]
  /\ DOMAIN ooo'[e] = DOMAIN ooo[e] \ (expected[e] + 1 .. expected[e] + k)
  /\ \A n \in DOMAIN ooo'[e] : ooo'[e][n] = ooo[e][n]

Others(e) == \A f \in Endpoint \ {e} : rl'[f] = rl[f] /\ ooo'[f] = ooo[f]

(* Phase 1 on the expected segment takes it and the run after it.          *)
LEMMA InSequenceTakes ==
  ASSUME TypeOK, NEW e \in Endpoint, NEW p \in net, InSequence(e, p)
  PROVE  (\E k \in Nat : InHand(e, p, k)) /\ Others(e)
<1>1. p.seq \in Nat /\ p.val \in Nat
  BY Zenon DEF TypeOK, Packet
<1>2. PICK k \in 0 .. MaxOOOBuf :
       /\ \A i \in 1 .. k : p.seq + i \in DOMAIN ooo[e]
       /\ rl' = [rl EXCEPT ![e] =
            [pc |-> "push", done |-> 0,
             todo |-> [i \in 1 .. k + 1 |-> IF i = 1 THEN p.val
                                                    ELSE ooo[e][p.seq + i - 1]]]]
       /\ ooo' = [ooo EXCEPT ![e] =
            [n \in DOMAIN ooo[e] \ (p.seq + 1 .. p.seq + k) |-> ooo[e][n]]]
  BY Zenon DEF InSequence
<1> DEFINE todo == [i \in 1 .. k + 1 |-> IF i = 1 THEN p.val ELSE ooo[e][p.seq + i - 1]]
<1>3. k \in Nat
  BY BoundAssumption, SMTT(30)
<1>4. \A i \in 2 .. k + 1 : p.seq + i - 1 \in DOMAIN ooo[e]
  <2> TAKE i \in 2 .. k + 1
  <2>1. i - 1 \in 1 .. k /\ p.seq + (i - 1) = p.seq + i - 1
    BY <1>1, <1>3, SMTT(30)
  <2> QED BY <1>2, <2>1, Zenon
<1>5. todo \in [1 .. k + 1 -> Nat]
  <2>1. ooo[e] \in [DOMAIN ooo[e] -> Nat]
    BY ReceiverTypes, Zenon
  <2>2. ASSUME NEW i \in 1 .. k + 1
        PROVE  (IF i = 1 THEN p.val ELSE ooo[e][p.seq + i - 1]) \in Nat
    <3>1. CASE i = 1
      BY <1>1, <3>1, Zenon
    <3>2. CASE i # 1
      <4>1. i \in 2 .. k + 1
        BY <1>3, <3>2, SMTT(30)
      <4>2. p.seq + i - 1 \in DOMAIN ooo[e]
        BY <1>4, <4>1, Zenon
      <4> QED BY <2>1, <3>2, <4>2, Zenon
    <3> QED BY <3>1, <3>2, Zenon
  <2> QED BY <2>2, Zenon
<1>6. Len(todo) = k + 1
  <2> HIDE DEF todo
  <2>1. todo \in Seq(Nat)
    BY <1>3, <1>5, SMTT(30)
  <2>2. DOMAIN todo = 1 .. k + 1 /\ DOMAIN todo = 1 .. Len(todo)
    BY <1>5, <2>1, SMTT(30)
  <2> QED BY <1>3, <2>1, <2>2, SMTT(30)
<1>7. todo[1] = p.val /\ \A i \in 2 .. k + 1 : todo[i] = ooo[e][p.seq + i - 1]
  BY <1>3, SMTT(30)
<1> HIDE DEF todo
<1>8. rl'[e] = [pc |-> "push", done |-> 0, todo |-> todo]
  BY <1>2, ReceiverTypes, Zenon DEF todo, LoopType
<1>9. /\ DOMAIN ooo'[e] = DOMAIN ooo[e] \ (p.seq + 1 .. p.seq + k)
      /\ \A n \in DOMAIN ooo'[e] : ooo'[e][n] = ooo[e][n]
      /\ \A f \in Endpoint \ {e} : ooo'[f] = ooo[f]
  BY <1>2, ReceiverTypes, Zenon
<1>10. \A f \in Endpoint \ {e} : rl'[f] = rl[f]
  BY <1>2, ReceiverTypes, Zenon DEF LoopType
<1>11. p.seq = expected[e]
  BY Zenon DEF InSequence
<1>12. InHand(e, p, k)
  <2>1. rl'[e].pc = "push" /\ rl'[e].done = 0 /\ rl'[e].todo = todo
    BY <1>8, SMTT(30)
  <2> QED BY <1>1, <1>4, <1>6, <1>7, <1>9, <1>11, <2>1, Zenon DEF InHand
<1>13. Others(e)
  BY <1>9, <1>10, Zenon DEF Others
<1> QED BY <1>3, <1>12, <1>13, Zenon

Kept(e, p) ==
  /\ rl'[e].pc = "push" /\ rl'[e].done = 0 /\ rl'[e].todo = <<>>
  /\ DOMAIN ooo[e] \subseteq DOMAIN ooo'[e]
  /\ \A n \in DOMAIN ooo'[e] : \/ n \in DOMAIN ooo[e] /\ ooo'[e][n] = ooo[e][n]
                               \/ n = p.seq /\ ooo'[e][n] = p.val

(* Phase 1 on a later segment buffers it or drops it.                      *)
LEMMA OutOfSequenceKeeps ==
  ASSUME TypeOK, NEW e \in Endpoint, NEW p \in net, OutOfSequence(e, p)
  PROVE  Kept(e, p) /\ Others(e)
<1>2. rl' = [rl EXCEPT ![e] = [pc |-> "push", done |-> 0, todo |-> <<>>]]
  BY Zenon DEF OutOfSequence
<1>3. rl'[e] = [pc |-> "push", done |-> 0, todo |-> <<>>] /\ \A f \in Endpoint \ {e} : rl'[f] = rl[f]
  BY <1>2, ReceiverTypes, Zenon DEF LoopType
<1>4. \/ ooo' = ooo
      \/ ooo' = [ooo EXCEPT ![e] = [n \in DOMAIN ooo[e] \cup {p.seq} |->
                                      IF n = p.seq THEN p.val ELSE ooo[e][n]]]
  BY Zenon DEF OutOfSequence
<1>5. /\ DOMAIN ooo[e] \subseteq DOMAIN ooo'[e]
      /\ \A n \in DOMAIN ooo'[e] : \/ n \in DOMAIN ooo[e] /\ ooo'[e][n] = ooo[e][n]
                                   \/ n = p.seq /\ ooo'[e][n] = p.val
      /\ \A f \in Endpoint \ {e} : ooo'[f] = ooo[f]
  BY <1>4, ReceiverTypes, SMTT(30)
<1>6. rl'[e].pc = "push" /\ rl'[e].done = 0 /\ rl'[e].todo = <<>>
  BY <1>3, SMTT(30)
<1> QED BY <1>3, <1>5, <1>6, Zenon DEF Kept, Others

(* Phase 3 puts back what it could not deliver, each at its place.         *)
PutBack(e) ==
  /\ \A n \in DOMAIN ooo'[e] :
       \/ n \in DOMAIN ooo[e] /\ ooo'[e][n] = ooo[e][n]
       \/ \E i \in 1 .. Len(rl[e].todo) : /\ n = expected[e] + i - 1
                                        /\ ooo'[e][n] = rl[e].todo[i]
  /\ \A n \in DOMAIN ooo[e] : n < expected'[e] \/ n \in DOMAIN ooo'[e]
  /\ \A n \in Nat : expected[e] < n /\ n < expected[e] + Len(rl[e].todo)
                    => n < expected'[e] \/ n \in DOMAIN ooo'[e]

(* Phase 3 moves expected over what was pushed and keeps the rest.         *)
LEMMA CommitKeeps ==
  ASSUME TypeOK, NEW e \in Endpoint, Commits(e)
  PROVE  /\ rl'[e].todo = <<>> /\ rl'[e].done = 0 /\ rl'[e].pc # "push"
         /\ expected'[e] = expected[e] + rl[e].done
         /\ PutBack(e) /\ Others(e)
         /\ \A f \in Endpoint \ {e} : expected'[f] = expected[f]
<1>1. /\ rl'[e].todo = <<>> /\ rl'[e].done = 0 /\ rl'[e].pc # "push"
      /\ \A f \in Endpoint \ {e} : rl'[f] = rl[f]
  BY ReceiverTypes, SMTT(30) DEF Commits, LoopType
<1>2. expected'[e] = expected[e] + rl[e].done /\ \A f \in Endpoint \ {e} : expected'[f] = expected[f]
  BY ReceiverTypes, Zenon DEF Commits
<1>3. ooo'[e] = Rebuffered(e) /\ \A f \in Endpoint \ {e} : ooo'[f] = ooo[f]
  BY ReceiverTypes, Zenon DEF Commits
<1> DEFINE N == Len(rl[e].todo)
           x == expected[e]
           d == rl[e].done
<1>4. N \in Nat /\ x \in Nat /\ d \in Nat
  BY ReceiverTypes, Zenon
<1>5. \A n : n \in Undelivered(e) => \E i \in 2 .. N : n = x + i - 1
  BY Zenon DEF Undelivered
<1>6. DOMAIN ooo'[e] = {m \in DOMAIN ooo[e] \cup Undelivered(e) : m >= x + d}
  BY <1>3, Zenon DEF Rebuffered
<1>7. \A n \in DOMAIN ooo'[e] :
        ooo'[e][n] = IF n \in Undelivered(e) THEN rl[e].todo[n - x + 1] ELSE ooo[e][n]
  BY <1>3, <1>6, Zenon DEF Rebuffered
<1>8. ASSUME NEW n \in DOMAIN ooo'[e]
      PROVE  \/ n \in DOMAIN ooo[e] /\ ooo'[e][n] = ooo[e][n]
             \/ \E i \in 1 .. N : n = x + i - 1 /\ ooo'[e][n] = rl[e].todo[i]
  <2>1. CASE n \in Undelivered(e)
    <3>1. PICK i \in 2 .. N : n = x + i - 1
      BY <1>5, <2>1, Zenon
    <3> HIDE DEF N, x
    <3>2. i \in 1 .. N /\ n - x + 1 = i
      BY <1>4, <3>1, SMTT(30)
    <3> QED BY <1>7, <2>1, <3>1, <3>2, Zenon DEF x, N
  <2>2. CASE n \notin Undelivered(e)
    BY <1>6, <1>7, <1>8, <2>2, Zenon
  <2> QED BY <2>1, <2>2, Zenon
<1>9. ASSUME NEW n \in Nat, x < n, n < x + N, n >= x + d PROVE n \in Undelivered(e)
  <2> DEFINE i == n - x + 1
  <2> HIDE DEF N, x, d
  <2>1. i \in 2 .. N /\ i > d /\ n = x + i - 1
    BY <1>4, <1>9, SMTT(30)
  <2> HIDE DEF i
  <2> QED BY <2>1, Zenon DEF Undelivered, N, x, d
<1>10. \A n \in DOMAIN ooo[e] : n < expected'[e] \/ n \in DOMAIN ooo'[e]
  BY <1>2, <1>4, <1>6, ReceiverTypes, SMTT(30)
<1>11. \A n \in Nat : expected[e] < n /\ n < expected[e] + Len(rl[e].todo)
                          => n < expected'[e] \/ n \in DOMAIN ooo'[e]
  <2> SUFFICES ASSUME NEW n \in Nat, x < n, n < x + N, ~(n < x + d)
               PROVE  n \in DOMAIN ooo'[e]
    BY <1>2, Zenon
  <2> HIDE DEF N, x, d
  <2>1. n >= x + d
    BY <1>4, SMTT(30)
  <2> QED BY <2>1, <1>6, <1>9, Zenon
<1>12. PutBack(e)
  BY <1>8, <1>10, <1>11, Zenon DEF PutBack
<1>13. Others(e)
  BY <1>1, <1>3, Zenon DEF Others
<1> QED BY <1>1, <1>2, <1>12, <1>13, Zenon

(* Starting or finishing an accept leaves the run in hand alone.           *)
LEMMA TurnsKeeps ==
  ASSUME TypeOK, NEW e \in Endpoint, Turns(e)
  PROVE  /\ rl'[e].pc # "push" /\ rl[e].pc # "push"
         /\ \A f \in Endpoint : rl'[f].todo = rl[f].todo /\ rl'[f].done = rl[f].done
         /\ \A f \in Endpoint \ {e} : rl'[f] = rl[f]
<1>1. PICK pc \in {"idle", "accept"} : rl' = [rl EXCEPT ![e] = [rl[e] EXCEPT !.pc = pc]]
  BY Zenon DEF Turns
<1>2. rl \in LoopType
  BY ReceiverTypes, Zenon
<1>3. rl'[e] = [rl[e] EXCEPT !.pc = pc] /\ \A f \in Endpoint \ {e} : rl'[f] = rl[f]
  BY <1>1, <1>2, Zenon DEF LoopType
<1>4. rl'[e].pc = pc /\ rl'[e].todo = rl[e].todo /\ rl'[e].done = rl[e].done
  BY <1>3, ReceiverTypes, Zenon
<1> QED BY <1>3, <1>4, Zenon DEF Turns

(* A push moves one value of the run into RecvBuf.                         *)
LEMMA PushKeeps ==
  ASSUME TypeOK, NEW e \in Endpoint, Pushes(e)
  PROVE  /\ rl'[e].pc = "push" /\ rl'[e].done = rl[e].done + 1 /\ rl'[e].todo = rl[e].todo
         /\ recv'[e] = Append(recv[e], rl[e].todo[rl[e].done + 1])
         /\ \A f \in Endpoint \ {e} : rl'[f] = rl[f] /\ recv'[f] = recv[f]
<1>1. rl' = [rl EXCEPT ![e] = [rl[e] EXCEPT !.done = rl[e].done + 1]]
  BY Zenon DEF Pushes
<1>2. rl'[e] = [rl[e] EXCEPT !.done = rl[e].done + 1] /\ \A f \in Endpoint \ {e} : rl'[f] = rl[f]
  BY <1>1, ReceiverTypes, Zenon DEF LoopType
<1>3. rl'[e].pc = "push" /\ rl'[e].done = rl[e].done + 1 /\ rl'[e].todo = rl[e].todo
  BY <1>2, ReceiverTypes, SMTT(30) DEF Pushes
<1>4. recv'[e] = Append(recv[e], rl[e].todo[rl[e].done + 1]) /\ \A f \in Endpoint \ {e} : recv'[f] = recv[f]
  BY ReceiverTypes, Zenon DEF Pushes
<1> QED BY <1>2, <1>3, <1>4, Zenon

(* What the receiver holds of the peer's segments, in the old sequence     *)
(* space.                                                                  *)
HoldsGood(e) ==
  /\ \A n \in DOMAIN ooo[e] : GoodSeg(Peer(e), n, ooo[e][n])
  /\ \A i \in 1 .. Len(rl[e].todo) :
       GoodSeg(Peer(e), expected[e] + i - 1, rl[e].todo[i])

(* What a receiver holds stays what the peer sent.                         *)
LEMMA HoldsGoodNext ==
  ASSUME TypeOK, TypeOK', SendInv, SegInv, RecvInv, SenderStep, ReceiverStep,
         NEW f \in Endpoint
  PROVE  HoldsGood(f)'
<1>1. Peer(f) \in Endpoint
  BY PeerFacts, Zenon
<1>2. /\ \A n \in DOMAIN ooo[f] : GoodSeg(Peer(f), n, ooo[f][n])
      /\ \A i \in 1 .. Len(rl[f].todo) :
           GoodSeg(Peer(f), expected[f] + i - 1, rl[f].todo[i])
  BY Zenon DEF SegInv
(* It is enough that each value held afterwards is good in the old space.  *)
<1>3. SUFFICES /\ \A n \in DOMAIN ooo'[f] : GoodSeg(Peer(f), n, ooo'[f][n])
               /\ \A i \in 1 .. Len(rl'[f].todo) :
                    GoodSeg(Peer(f), expected'[f] + i - 1, rl'[f].todo[i])
  <2>1. ASSUME NEW s \in Nat, NEW v \in Nat, GoodSeg(Peer(f), s, v)
        PROVE  GoodSeg(Peer(f), s, v)'
    BY <1>1, <2>1, SegStable, Zenon
  <2>2. ASSUME NEW n \in DOMAIN ooo'[f] PROVE GoodSeg(Peer(f), n, ooo[f][n])'
    <3>1. n \in Nat /\ ooo'[f][n] \in Nat
      <4>1. DOMAIN ooo'[f] \subseteq Nat /\ ooo'[f] \in [DOMAIN ooo'[f] -> Nat]
        BY Zenon DEF TypeOK
      <4> QED BY <2>2, <4>1, Zenon
    <3>2. GoodSeg(Peer(f), n, ooo'[f][n])
      BY <1>3, <2>2, Zenon
    <3> DEFINE v == ooo'[f][n]
    <3> QED BY <2>1, <3>1, <3>2, Zenon DEF GoodSeg, Reserved
  <2>3. ASSUME NEW i \in 1 .. Len(rl'[f].todo)
        PROVE  GoodSeg(Peer(f), expected[f] + i - 1, rl[f].todo[i])'
    <3>0. rl'[f] \in [pc : {"idle", "push", "accept"}, todo : Seq(Nat), done : Nat]
      BY Zenon DEF TypeOK
    <3>1. expected'[f] + i - 1 \in Nat /\ rl'[f].todo[i] \in Nat
      <4>1. rl'[f].todo \in Seq(Nat)
        BY <3>0, Zenon
      <4>2. rl'[f].todo[i] \in Nat /\ i \in Nat /\ i >= 1
        BY <2>3, <4>1, SMTT(30)
      <4> DEFINE x == expected'[f]
      <4>3. x \in Nat
        BY Zenon DEF TypeOK
      <4> HIDE DEF x
      <4>4. x + i - 1 \in Nat
        BY <4>2, <4>3, SMTT(30)
      <4> QED BY <4>2, <4>4, Zenon DEF x
    <3>2. GoodSeg(Peer(f), expected'[f] + i - 1, rl'[f].todo[i])
      BY <1>3, <2>3, Zenon
    <3>3. PICK s \in Nat, v \in Nat : s = expected'[f] + i - 1 /\ v = rl'[f].todo[i]
      BY <3>1, Zenon
    <3>4. GoodSeg(Peer(f), s, v)'
      BY <2>1, <3>2, <3>3, Zenon
    <3> QED BY <3>3, <3>4, Zenon DEF GoodSeg
  <2> QED BY <2>2, <2>3, Zenon DEF HoldsGood
<1>4. ASSUME NEW e \in Endpoint, Arrives(e)
      PROVE  /\ \A n \in DOMAIN ooo'[f] : GoodSeg(Peer(f), n, ooo'[f][n])
             /\ \A i \in 1 .. Len(rl'[f].todo) :
                  GoodSeg(Peer(f), expected'[f] + i - 1, rl'[f].todo[i])
  <2>1. PICK p \in net : /\ p.to = e /\ p.kind = "seg"
                         /\ InSequence(e, p) \/ OutOfSequence(e, p)
    BY <1>4, Zenon DEF Arrives
  <2>2. GoodSeg(Peer(e), p.seq, p.val)
    BY <2>1, Zenon DEF SegInv
  <2>3. expected' = expected
    BY <1>4, Zenon DEF Arrives
  <2>4. CASE InSequence(e, p) /\ f = e
    <3>1. PICK k \in Nat : InHand(e, p, k)
      BY <1>4, <2>4, InSequenceTakes, Zenon
    <3>2. expected[e] \in Nat
      BY <1>4, ReceiverTypes, Zenon
    <3>3. ASSUME NEW n \in DOMAIN ooo'[e] PROVE GoodSeg(Peer(e), n, ooo'[e][n])
      <4>1. n \in DOMAIN ooo[e] /\ ooo'[e][n] = ooo[e][n]
        BY <3>1, <3>3, Zenon DEF InHand
      <4> QED BY <1>2, <2>4, <4>1, Zenon
    <3>4. ASSUME NEW i \in 1 .. Len(rl'[e].todo)
          PROVE  GoodSeg(Peer(e), expected[e] + i - 1, rl'[e].todo[i])
      <4>1. CASE i = 1
        <5>1. expected[e] + i - 1 = p.seq /\ rl'[e].todo[i] = p.val
          BY <3>1, <3>2, <4>1, SMTT(30) DEF InHand
        <5> QED BY <2>2, <5>1, Zenon
      <4>2. CASE i # 1
        <5>1. i \in 2 .. k + 1
          BY <3>1, <3>4, <4>2, SMTT(30) DEF InHand
        <5>2. /\ expected[e] + i - 1 \in DOMAIN ooo[e]
              /\ rl'[e].todo[i] = ooo[e][expected[e] + i - 1]
          BY <3>1, <5>1, Zenon DEF InHand
        <5> QED BY <1>2, <2>4, <5>2, Zenon
      <4> QED BY <4>1, <4>2, Zenon
    <3> QED BY <2>3, <2>4, <3>3, <3>4, Zenon
  <2>5. CASE OutOfSequence(e, p) /\ f = e
    <3>1. Kept(e, p)
      BY <1>4, <2>5, OutOfSequenceKeeps, Zenon
    <3>2. rl'[e].todo = <<>>
      BY <3>1, Zenon DEF Kept
    <3>3. ASSUME NEW n \in DOMAIN ooo'[e] PROVE GoodSeg(Peer(e), n, ooo'[e][n])
      <4>1. \/ n \in DOMAIN ooo[e] /\ ooo'[e][n] = ooo[e][n]
            \/ n = p.seq /\ ooo'[e][n] = p.val
        BY <3>1, <3>3, Zenon DEF Kept
      <4> QED BY <1>2, <2>2, <2>5, <4>1, Zenon
    <3> QED BY <2>5, <3>2, <3>3, SMTT(30)
  <2>6. CASE f # e
    <3>1. Others(e)
      BY <1>4, <2>1, InSequenceTakes, OutOfSequenceKeeps, Zenon
    <3>2. rl'[f] = rl[f] /\ ooo'[f] = ooo[f]
      BY <2>6, <3>1, Zenon DEF Others
    <3> QED BY <1>2, <2>3, <3>2, Zenon
  <2> QED BY <2>1, <2>4, <2>5, <2>6, Zenon
<1>5. ASSUME NEW e \in Endpoint, Commits(e)
      PROVE  /\ \A n \in DOMAIN ooo'[f] : GoodSeg(Peer(f), n, ooo'[f][n])
             /\ \A i \in 1 .. Len(rl'[f].todo) :
                  GoodSeg(Peer(f), expected'[f] + i - 1, rl'[f].todo[i])
  <2>0. /\ rl'[e].todo = <<>> /\ PutBack(e) /\ Others(e)
        /\ \A g \in Endpoint \ {e} : expected'[g] = expected[g]
    BY <1>5, CommitKeeps, Zenon
  <2>1. CASE f = e
    <3>1. ASSUME NEW n \in DOMAIN ooo'[e] PROVE GoodSeg(Peer(e), n, ooo'[e][n])
      <4>1. \/ n \in DOMAIN ooo[e] /\ ooo'[e][n] = ooo[e][n]
            \/ \E i \in 1 .. Len(rl[e].todo) : /\ n = expected[e] + i - 1
                                             /\ ooo'[e][n] = rl[e].todo[i]
        BY <2>0, <3>1, Zenon DEF PutBack
      <4> QED BY <1>2, <2>1, <4>1, Zenon
    <3> QED BY <2>0, <2>1, <3>1, SMTT(30)
  <2>2. CASE f # e
    <3>1. rl'[f] = rl[f] /\ ooo'[f] = ooo[f] /\ expected'[f] = expected[f]
      BY <2>0, <2>2, Zenon DEF Others
    <3> QED BY <1>2, <3>1, Zenon
  <2> QED BY <2>1, <2>2, Zenon
<1>6. ASSUME NEW e \in Endpoint, Pushes(e) \/ Turns(e)
      PROVE  /\ \A n \in DOMAIN ooo'[f] : GoodSeg(Peer(f), n, ooo'[f][n])
             /\ \A i \in 1 .. Len(rl'[f].todo) :
                  GoodSeg(Peer(f), expected'[f] + i - 1, rl'[f].todo[i])
  <2>1. rl'[f].todo = rl[f].todo
    BY <1>6, PushKeeps, TurnsKeeps, Zenon
  <2>2. expected' = expected /\ ooo' = ooo
    BY <1>6, Zenon DEF Pushes, Turns
  <2> QED BY <1>2, <2>1, <2>2, Zenon
<1>7. CASE UNCHANGED <<expected, ooo, recv, rl>>
  BY <1>2, <1>7, Zenon
<1> QED BY <1>4, <1>5, <1>6, <1>7, Zenon DEF ReceiverStep

(* A number of segments delivered stays within what the sender wrote and   *)
(* before its first FIN.                                                   *)
LEMMA DeliveredBound ==
  ASSUME TypeOK, SendInv, SenderStep, NEW q \in Endpoint, NEW L \in Nat,
         L <= written[q], Reserved(q) => L + 1 <= finSeq[q]
  PROVE  L <= written'[q] /\ (Reserved(q)' => L + 1 <= finSeq'[q])
<1> USE SenderTypes DEF SendInv, Reserved
<1>1. ASSUME NEW e \in Endpoint, Sends(e)
      PROVE  L <= written'[q] /\ (Reserved(q)' => L + 1 <= finSeq'[q])
  BY <1>1, SMTT(30) DEF Sends
<1>2. ASSUME NEW e \in Endpoint, Reserves(e)
      PROVE  L <= written'[q] /\ (Reserved(q)' => L + 1 <= finSeq'[q])
  BY <1>2, SMTT(30) DEF Reserves, Marks
<1>3. ASSUME NEW e \in Endpoint, Ends(e)
      PROVE  L <= written'[q] /\ (Reserved(q)' => L + 1 <= finSeq'[q])
  BY <1>3, Zenon DEF Ends, Marks
<1>4. CASE UNCHANGED <<st, sendSeq, written, finSeq>>
  BY <1>4, Zenon
<1> QED BY <1>1, <1>2, <1>3, <1>4, Zenon DEF SenderStep

(* A step keeps RecvInv; only a push has to look at the segments.          *)
LEMMA RecvInvNext ==
  ASSUME TypeOK, TypeOK', SendInv, SegInv, RecvInv, SenderStep, ReceiverStep
  PROVE  RecvInv'
(* The sender's side of the bounds only grows.                             *)
<1>1. ASSUME NEW f \in Endpoint
      PROVE  /\ Len(recv[f]) <= written'[Peer(f)]
             /\ Reserved(Peer(f))' => Len(recv[f]) + 1 <= finSeq'[Peer(f)]
  <2> DEFINE q == Peer(f)
             L == Len(recv[f])
  <2>1. q \in Endpoint /\ L \in Nat
    BY <1>1, PeerFacts, ReceiverTypes, Zenon
  <2>2. L <= written[q] /\ (Reserved(q) => L + 1 <= finSeq[q])
    BY <1>1, Zenon DEF RecvInv
  <2> HIDE DEF q, L
  <2>3. L <= written'[q] /\ (Reserved(q)' => L + 1 <= finSeq'[q])
    BY <2>1, <2>2, DeliveredBound, Zenon
  <2> QED BY <2>3, Zenon DEF q, L
<1> DEFINE Own(f) == /\ expected[f] + rl[f].done = Len(recv[f]) + 1
                     /\ rl[f].done <= Len(rl[f].todo)
                     /\ rl[f].pc # "push" => rl[f].todo = <<>> /\ rl[f].done = 0
                     /\ \A i \in 1 .. Len(recv[f]) : recv[f][i] = i
<1>2. \A f \in Endpoint : Own(f)
  BY Zenon DEF RecvInv
(* Unless it is a push, recv does not change.                              *)
<1>3. ASSUME recv' = recv, \A f \in Endpoint : Own(f)' PROVE RecvInv'
  BY <1>1, <1>3, Zenon DEF RecvInv
<1>4. ASSUME NEW e \in Endpoint, Arrives(e) PROVE RecvInv'
  <2>1. PICK p \in net : InSequence(e, p) \/ OutOfSequence(e, p)
    BY <1>4, Zenon DEF Arrives
  <2>2. UNCHANGED <<expected, recv>> /\ rl[e].pc = "idle"
    BY <1>4, Zenon DEF Arrives
  <2>3. rl'[e].done = 0 /\ 0 <= Len(rl'[e].todo) /\ rl'[e].pc = "push" /\ \A f \in Endpoint \ {e} : rl'[f] = rl[f]
    <3>1. CASE InSequence(e, p)
      <4>1. Others(e) /\ \E k \in Nat : InHand(e, p, k)
        BY <1>4, <3>1, InSequenceTakes, Zenon
      <4> QED BY <4>1, SMTT(30) DEF Others, InHand
    <3>2. CASE OutOfSequence(e, p)
      <4>1. Others(e) /\ Kept(e, p)
        BY <1>4, <3>2, OutOfSequenceKeeps, Zenon
      <4> QED BY <4>1, SMTT(30) DEF Others, Kept
    <3> QED BY <2>1, <3>1, <3>2, Zenon
  <2>4. rl[e].done = 0
    BY <1>2, <1>4, <2>2, Zenon
  <2>5. \A f \in Endpoint : Own(f)'
    BY <1>2, <2>2, <2>3, <2>4, Zenon
  <2> QED BY <1>3, <2>2, <2>5, Zenon
<1>5. ASSUME NEW e \in Endpoint, Commits(e) PROVE RecvInv'
  <2>1. recv' = recv
    BY <1>5, Zenon DEF Commits
  <2>0. /\ rl'[e].todo = <<>> /\ rl'[e].done = 0
        /\ expected'[e] = expected[e] + rl[e].done
        /\ \A f \in Endpoint \ {e} : expected'[f] = expected[f] /\ rl'[f] = rl[f]
    BY <1>5, CommitKeeps, Zenon DEF Others
  <2>2. Own(e)'
    <3>1. expected[e] \in Nat /\ rl[e].done \in Nat
      BY <1>5, ReceiverTypes, Zenon
    <3>2. expected'[e] + rl'[e].done = Len(recv'[e]) + 1
      BY <1>2, <1>5, <2>0, <2>1, <3>1, SMTT(30)
    <3>3. Len(rl'[e].todo) = 0
      BY <2>0, Zenon
    <3> QED BY <1>2, <1>5, <2>0, <2>1, <3>2, <3>3, SMTT(30)
  <2>3. \A f \in Endpoint \ {e} : Own(f)'
    BY <1>2, <2>0, <2>1, Zenon
  <2> QED BY <1>3, <2>1, <2>2, <2>3, Zenon
<1>6. ASSUME NEW e \in Endpoint, Turns(e) PROVE RecvInv'
  <2>1. UNCHANGED <<expected, recv>>
    BY <1>6, Zenon DEF Turns
  <2>2. Own(e)'
    BY <1>2, <1>6, <2>1, TurnsKeeps, Zenon
  <2>3. \A f \in Endpoint \ {e} : Own(f)'
    BY <1>2, <1>6, <2>1, TurnsKeeps, Zenon
  <2> QED BY <1>3, <2>1, <2>2, <2>3, Zenon
<1>7. CASE UNCHANGED <<expected, ooo, recv, rl>>
  BY <1>2, <1>3, <1>7, Zenon
(* A push: the next segment is the next value, and is not the FIN's place. *)
<1>8. ASSUME NEW e \in Endpoint, Pushes(e) PROVE RecvInv'
  <2> DEFINE q == Peer(e)
             L == Len(recv[e])
             d == rl[e].done
             v == rl[e].todo[d + 1]
  <2>1. q \in Endpoint /\ L \in Nat /\ d \in Nat /\ expected[e] \in Nat /\ Len(rl[e].todo) \in Nat
    BY <1>8, PeerFacts, ReceiverTypes, Zenon
  <2>2. d + 1 \in 1 .. Len(rl[e].todo) /\ expected[e] + d = L + 1
    BY <1>2, <1>8, <2>1, SMTT(30) DEF Pushes
  <2>3. GoodSeg(q, expected[e] + (d + 1) - 1, v)
    BY <1>8, <2>2, Zenon DEF SegInv
  <2>4. GoodSeg(q, L + 1, v)
    <3>1. expected[e] + (d + 1) - 1 = L + 1
      BY <2>1, <2>2, SMTT(30)
    <3> QED BY <2>3, <3>1, Zenon
  <2>5. Reserved(q) => L + 1 <= finSeq[q]
    BY <1>8, Zenon DEF RecvInv
  <2>6. v = L + 1 /\ v <= written[q] /\ (Reserved(q) => v + 1 <= finSeq[q])
    <3> HIDE DEF q, L, v, d
    <3> QED BY <2>1, <2>4, <2>5, SenderTypes, SMTT(30) DEF GoodSeg
  <2>7. recv'[e] = Append(recv[e], v) /\ recv[e] \in Seq(Nat) /\ v \in Nat
    <3>1. recv'[e] = Append(recv[e], v)
      BY <1>8, PushKeeps, Zenon
    <3>2. recv[e] \in Seq(Nat)
      BY <1>8, ReceiverTypes, Zenon
    <3>3. v \in Nat
      <4> HIDE DEF v, L
      <4> QED BY <2>1, <2>6, SMTT(30)
    <3> QED BY <3>1, <3>2, <3>3, Zenon
  <2>8. Len(recv'[e]) = L + 1 /\ \A i \in 1 .. L + 1 : recv'[e][i] = i
    <3> DEFINE s == recv[e]
               t == recv'[e]
    <3>1. \A i \in 1 .. L : s[i] = i
      BY <1>2, <1>8, Zenon
    <3>2. t = Append(s, v) /\ s \in Seq(Nat) /\ v \in Nat /\ L = Len(s)
      BY <2>7, Zenon
    <3> HIDE DEF v, s, t, L
    <3>3. /\ Len(t) = L + 1 /\ t[L + 1] = v
          /\ \A i \in 1 .. L : t[i] = s[i]
      BY <3>2, SMTT(30)
    <3>4. \A i \in 1 .. L + 1 : i \in 1 .. L \/ i = L + 1
      BY <2>1, SMTT(30)
    <3>5. Len(t) = L + 1 /\ \A i \in 1 .. L + 1 : t[i] = i
      BY <2>6, <3>1, <3>3, <3>4, Zenon
    <3> QED BY <3>5, Zenon DEF t
  <2>9. Own(e)'
    <3>1. expected' = expected /\ rl'[e].done = d + 1 /\ rl'[e].todo = rl[e].todo /\ rl'[e].pc = "push"
      BY <1>8, PushKeeps, Zenon DEF Pushes
    <3>2. expected'[e] + rl'[e].done = Len(recv'[e]) + 1 /\ rl'[e].done <= Len(rl'[e].todo)
      <4> HIDE DEF L, d
      <4>1. expected'[e] = expected[e] /\ Len(rl'[e].todo) = Len(rl[e].todo)
        BY <3>1, Zenon
      <4>2. expected[e] + (d + 1) = (L + 1) + 1 /\ d + 1 <= Len(rl[e].todo)
        BY <2>1, <2>2, SMTT(30)
      <4> QED BY <2>8, <3>1, <4>1, <4>2, Zenon
    <3> QED BY <2>8, <3>1, <3>2, Zenon
  <2>10. \A f \in Endpoint \ {e} : Own(f)' /\ recv'[f] = recv[f]
    <3>1. expected' = expected /\ \A f \in Endpoint \ {e} : rl'[f] = rl[f] /\ recv'[f] = recv[f]
      BY <1>8, PushKeeps, Zenon DEF Pushes
    <3> QED BY <1>2, <3>1, Zenon
  <2>11. Len(recv'[e]) <= written'[q] /\ (Reserved(q)' => Len(recv'[e]) + 1 <= finSeq'[q])
    <3> DEFINE M == L + 1
    <3>1. M \in Nat /\ M <= written[q] /\ (Reserved(q) => M + 1 <= finSeq[q])
      BY <2>1, <2>6, SMTT(30)
    <3> HIDE DEF M, q
    <3>2. M <= written'[q] /\ (Reserved(q)' => M + 1 <= finSeq'[q])
      BY <2>1, <3>1, DeliveredBound, Zenon
    <3> QED BY <2>8, <3>2, Zenon DEF M
  <2> QED BY <1>1, <2>9, <2>10, <2>11, Zenon DEF RecvInv
<1> QED BY <1>4, <1>5, <1>6, <1>7, <1>8, Zenon DEF ReceiverStep

(* Phase 3 never moves expected back.                                      *)
LEMMA CommitGrows ==
  ASSUME TypeOK, NEW e \in Endpoint, Commits(e)
  PROVE  expected[e] <= expected'[e] /\ expected'[e] \in Nat
<1>1. expected'[e] = expected[e] + rl[e].done
  BY CommitKeeps, Zenon
<1>2. expected[e] \in Nat /\ rl[e].done \in Nat
  BY ReceiverTypes, Zenon
<1> QED BY <1>1, <1>2, SMTT(30)

(* A segment the receiver holds stays held.                                *)
LEMMA HeldStable ==
  ASSUME TypeOK, RecvInv, ReceiverStep, NEW f \in Endpoint, NEW n \in Nat, Held(f, n)
  PROVE  Held(f, n)'
<1>1. ASSUME NEW e \in Endpoint, Arrives(e) PROVE Held(f, n)'
  <2>1. PICK p \in net : InSequence(e, p) \/ OutOfSequence(e, p)
    BY <1>1, Zenon DEF Arrives
  <2>2. expected' = expected /\ rl[e].pc = "idle"
    BY <1>1, Zenon DEF Arrives
  <2>3. rl[e].todo = <<>>
    BY <1>1, <2>2, Zenon DEF RecvInv
  <2>0. expected[e] \in Nat /\ Len(rl[e].todo) = 0
    BY <1>1, <2>3, ReceiverTypes, Zenon
  <2>00. ASSUME f = e PROVE n < expected[e] \/ n \in DOMAIN ooo[e]
    BY <2>0, <2>00, SMTT(30) DEF Held
  <2>4. CASE InSequence(e, p) /\ f = e
    <3>1. PICK k \in Nat : InHand(e, p, k)
      BY <1>1, <2>4, InSequenceTakes, Zenon
    <3>2. CASE n < expected[e]
      BY <2>2, <2>4, <3>2, Zenon DEF Held
    <3>3. CASE n \in DOMAIN ooo[e] /\ n \in expected[e] + 1 .. expected[e] + k
      <4>1. Len(rl'[e].todo) = k + 1
        BY <3>1, Zenon DEF InHand
      <4>2. expected[e] < n /\ n < expected[e] + Len(rl'[e].todo)
        BY <2>0, <3>3, <4>1, SMTT(30)
      <4> QED BY <2>2, <2>4, <4>2, Zenon DEF Held
    <3>4. CASE n \in DOMAIN ooo[e] /\ n \notin expected[e] + 1 .. expected[e] + k
      <4>1. n \in DOMAIN ooo'[e]
        BY <3>1, <3>4, Zenon DEF InHand
      <4> QED BY <2>4, <4>1, Zenon DEF Held
    <3> QED BY <2>00, <2>4, <3>2, <3>3, <3>4, Zenon
  <2>5. CASE OutOfSequence(e, p) /\ f = e
    <3>1. DOMAIN ooo[e] \subseteq DOMAIN ooo'[e]
      BY <1>1, <2>5, OutOfSequenceKeeps, Zenon DEF Kept
    <3> QED BY <2>00, <2>2, <2>5, <3>1, Zenon DEF Held
  <2>6. CASE f # e
    <3>1. Others(e)
      BY <1>1, <2>1, InSequenceTakes, OutOfSequenceKeeps, Zenon
    <3>2. rl'[f] = rl[f] /\ ooo'[f] = ooo[f]
      BY <2>6, <3>1, Zenon DEF Others
    <3> QED BY <2>2, <3>2, Zenon DEF Held
  <2> QED BY <2>1, <2>4, <2>5, <2>6, Zenon
<1>2. ASSUME NEW e \in Endpoint, Commits(e) PROVE Held(f, n)'
  <2>1. CASE f = e
    <3>1. expected[e] <= expected'[e] /\ expected'[e] \in Nat
      BY <1>2, CommitGrows, Zenon
    <3>3. CASE n < expected[f]
      <4> DEFINE x == expected[e]
                 y == expected'[e]
      <4>1. x \in Nat /\ y \in Nat /\ x <= y /\ n < x
        BY <1>2, <2>1, <3>1, <3>3, ReceiverTypes, Zenon
      <4> HIDE DEF x, y
      <4>2. n < y
        BY <4>1, SMTT(30)
      <4> QED BY <2>1, <4>2, Zenon DEF Held, y
    <3>4. CASE n \in DOMAIN ooo[f]
      <4>1. PutBack(e)
        BY <1>2, CommitKeeps, Zenon
      <4> QED BY <2>1, <3>4, <4>1, Zenon DEF Held, PutBack
    <3>5. CASE expected[f] < n /\ n < expected[f] + Len(rl[f].todo)
      <4>1. PutBack(e)
        BY <1>2, CommitKeeps, Zenon
      <4> QED BY <2>1, <3>5, <4>1, Zenon DEF Held, PutBack
    <3> QED BY <3>3, <3>4, <3>5, Zenon DEF Held
  <2>2. CASE f # e
    <3>1. Others(e) /\ \A g \in Endpoint \ {e} : expected'[g] = expected[g]
      BY <1>2, CommitKeeps, Zenon
    <3> QED BY <2>2, <3>1, Zenon DEF Held, Others
  <2> QED BY <2>1, <2>2, Zenon
<1>3. ASSUME NEW e \in Endpoint, Pushes(e) \/ Turns(e) PROVE Held(f, n)'
  <2>1. rl'[f].todo = rl[f].todo
    BY <1>3, PushKeeps, TurnsKeeps, Zenon
  <2>2. expected' = expected /\ ooo' = ooo
    BY <1>3, Zenon DEF Pushes, Turns
  <2> QED BY <2>1, <2>2, Zenon DEF Held
<1>4. CASE UNCHANGED <<expected, ooo, recv, rl>>
  BY <1>4, Zenon DEF Held
<1> QED BY <1>1, <1>2, <1>3, <1>4, Zenon DEF ReceiverStep

(* No step moves expected back.                                            *)
LEMMA ExpectedGrows ==
  ASSUME TypeOK, ReceiverStep, NEW f \in Endpoint
  PROVE  expected[f] <= expected'[f]
<1>1. ASSUME NEW e \in Endpoint, Commits(e) PROVE expected[f] <= expected'[f]
  <2>1. CASE f = e
    BY <1>1, <2>1, CommitGrows, Zenon
  <2>2. CASE f # e
    <3>1. \A g \in Endpoint \ {e} : expected'[g] = expected[g]
      BY <1>1, CommitKeeps, Zenon
    <3>2. expected[f] \in Nat
      BY ReceiverTypes, Zenon
    <3> QED BY <2>2, <3>1, <3>2, SMTT(30)
  <2> QED BY <2>1, <2>2, Zenon
<1>2. CASE expected' = expected
  BY <1>2, ReceiverTypes, SMTT(30)
<1> QED BY <1>1, <1>2, Zenon DEF ReceiverStep, Arrives, Pushes, Turns

-----------------------------------------------------------------------------
(* What a step does to the retransmission buffers.                         *)

(* The sequence number of a FIN that is about to go out.                   *)
FinOf(e, s) ==
  \/ heldFin[e] # 0 /\ s = heldFin[e]
  \/ \E c \in Closer : cl[e][c].pc = "fin" /\ s = cl[e][c].fin

SackedOnWire(e, s) == \E p \in net : p.to = e /\ s \in p.sack

Copied(e, w) ==
  \E u \in unacked[e] : /\ u.seq = w.seq /\ u.val = w.val
                        /\ w.sacked => u.sacked \/ SackedOnWire(e, w.seq)
NewData(e, w) == Sends(e) /\ w = DataEntry(sendSeq[e], written[e] + 1)
NewFin(e, w) == /\ w.val = 0 /\ FinOf(e, w.seq)
                /\ w.sacked => SackedOnWire(e, w.seq)

Tracked(e, w) == Copied(e, w) \/ NewData(e, w) \/ NewFin(e, w)

UnackedStep == \A e \in Endpoint : \A w \in unacked'[e] : Tracked(e, w)

(* An entry that is still there is a copy of itself.                       *)
LEMMA UnackedSame ==
  ASSUME NEW e \in Endpoint, unacked'[e] \subseteq unacked[e]
  PROVE  \A w \in unacked'[e] : Tracked(e, w)
BY Zenon DEF Tracked, Copied

(* It is enough to look at the endpoint whose buffer changes.              *)
LEMMA UnackedOthers ==
  ASSUME NEW e \in Endpoint, NEW U, unacked' = [unacked EXCEPT ![e] = U], TypeOK,
         \A w \in U : Tracked(e, w)
  PROVE  UnackedStep
<1>1. unacked'[e] = U /\ \A f \in Endpoint \ {e} : unacked'[f] = unacked[f]
  BY Zenon DEF TypeOK
<1> QED BY <1>1, UnackedSame, Zenon DEF UnackedStep

(* A step that leaves the buffers alone tracks nothing new.                *)
LEMMA UnackedUnchanged == ASSUME UNCHANGED unacked PROVE UnackedStep
BY UnackedSame, Zenon DEF UnackedStep

(* An ACK removes, marks or retries entries, and may add a held FIN.       *)
LEMMA AckUnacked ==
  ASSUME TypeOK, NEW e \in Endpoint, NEW p \in net, p.to = e, ProcessAck(e, p)
  PROVE  UnackedStep
<1> DEFINE new  == p.ack > lastAck[e]
           left == IF new THEN {u \in unacked[e] : u.seq >= p.ack} ELSE unacked[e]
           dup  == p.kind = "ack" /\ p.ack = lastAck[e]
           cand == {u \in FirstUnsacked(left) : (new \/ dup) /\ u.tries < MaxRetxAttempts}
           free == heldFin[e] # 0 /\ ~HasData(left)
           fin  == IF free /\ FinGoes(e) THEN {heldFin[e]} ELSE {}
<1>1. PICK fast \in {{}, cand} :
         unacked' = [unacked EXCEPT ![e] =
             Mark((left \ fast) \cup {Retried(u) : u \in fast}
                                \cup {FinEntry(s) : s \in fin}, p.sack)]
  BY ZenonT(60) DEF ProcessAck
<1> DEFINE U == (left \ fast) \cup {Retried(u) : u \in fast} \cup {FinEntry(s) : s \in fin}
<1>2. left \subseteq unacked[e] /\ unacked[e] \subseteq Entry
  BY Zenon DEF TypeOK
<1>3. fast \subseteq unacked[e]
  BY <1>2, Zenon DEF FirstUnsacked
<1>4. \A s \in fin : heldFin[e] # 0 /\ s = heldFin[e]
  BY Zenon
<1> HIDE DEF new, left, dup, cand, free, fin
<1>5. ASSUME NEW x \in U
      PROVE  \/ \E u \in unacked[e] : u.seq = x.seq /\ u.val = x.val /\ x.sacked = u.sacked
             \/ x.val = 0 /\ FinOf(e, x.seq) /\ ~x.sacked
  <2>1. CASE x \in left \ fast
    BY <1>2, <2>1, Zenon
  <2>2. CASE x \in {Retried(u) : u \in fast}
    BY <1>2, <1>3, <2>2, SMTT(30) DEF Retried, Entry
  <2>3. CASE x \in {FinEntry(s) : s \in fin}
    <3>1. PICK s \in fin : x = FinEntry(s)
      BY <2>3, Zenon
    <3>2. heldFin[e] # 0 /\ s = heldFin[e]
      BY <1>4, <3>1, Zenon
    <3>3. x.val = 0 /\ x.seq = s /\ ~x.sacked
      BY <3>1, Zenon DEF FinEntry
    <3> QED BY <3>2, <3>3, Zenon DEF FinOf
  <2> QED BY <1>5, <2>1, <2>2, <2>3, Zenon
<1>6. U \subseteq Entry
  <2>1. \A u \in fast : Retried(u) \in Entry
    BY <1>2, <1>3, SMTT(30) DEF Retried, Entry
  <2>2. \A s \in fin : FinEntry(s) \in Entry
    BY <1>4, Zenon DEF FinEntry, Entry, TypeOK
  <2> QED BY <1>2, <2>1, <2>2, Zenon
<1> HIDE DEF U
<1>7. ASSUME NEW w \in Mark(U, p.sack) PROVE Tracked(e, w)
  <2>1. PICK x \in U : w = [x EXCEPT !.sacked = x.sacked \/ x.seq \in p.sack]
    BY <1>7, Zenon DEF Mark
  <2>2. x \in Entry
    BY <1>6, Zenon
  <2>3. w.seq = x.seq /\ w.val = x.val
    BY <2>1, <2>2, Zenon DEF Entry
  <2>4. w.sacked => x.sacked \/ x.seq \in p.sack
    BY <2>1, <2>2, Zenon DEF Entry
  <2>5. w.sacked => x.sacked \/ SackedOnWire(e, w.seq)
    BY <2>3, <2>4, Zenon DEF SackedOnWire
  <2> QED BY <1>5, <2>3, <2>5, Zenon DEF Tracked, Copied, NewFin
<1> QED BY <1>1, <1>7, UnackedOthers, Zenon DEF U

(* Sending a FIN adds its entry,                                           *)
LEMMA FinUnacked ==
  ASSUME TypeOK, NEW e \in Endpoint, NEW F, SendFIN(e, F), \A s \in F : FinOf(e, s)
  PROVE  UnackedStep
<1>1. unacked' = [unacked EXCEPT ![e] = unacked[e] \cup {FinEntry(s) : s \in F}]
  BY Zenon DEF SendFIN
<1>2. \A s \in F : Tracked(e, FinEntry(s))
  BY Zenon DEF Tracked, NewFin, FinEntry
<1>3. \A u \in unacked[e] : Tracked(e, u)
  BY Zenon DEF Tracked, Copied
<1> QED BY <1>1, <1>2, <1>3, UnackedOthers, SMTT(30)

(* and so does releasing a held one.                                       *)
LEMMA ReleaseUnacked ==
  ASSUME TypeOK, NEW e \in Endpoint, ReleaseHeldFIN(e)
  PROVE  UnackedStep
<1>1. \A s \in IF FinGoes(e) THEN {heldFin[e]} ELSE {} : FinOf(e, s)
  BY Zenon DEF FinGoes, FinOf
<1> QED BY <1>1, FinUnacked, SMTT(30) DEF ReleaseHeldFIN

(* Every step is one of these for the retransmission buffers.              *)
LEMMA UnackedSteps == TypeOK /\ [Next]_vars => UnackedStep
<1> SUFFICES ASSUME TypeOK, [Next]_vars PROVE UnackedStep
  BY Zenon
<1>1. ASSUME NEW e \in Endpoint, Writer(e) PROVE UnackedStep
  <2>1. CASE TransmitSegment(e)
    <3> DEFINE u == DataEntry(sendSeq[e], written[e] + 1)
    <3>1. unacked' = [unacked EXCEPT ![e] = unacked[e] \cup {u}] /\ Sends(e)
      BY <2>1, Zenon DEF TransmitSegment, Sends
    <3>2. Tracked(e, u)
      BY <3>1, Zenon DEF Tracked, NewData
    <3>3. \A w \in unacked[e] : Tracked(e, w)
      BY Zenon DEF Tracked, Copied
    <3> HIDE DEF u
    <3> QED BY <1>1, <3>1, <3>2, <3>3, UnackedOthers, Zenon
  <2>2. CASE SendData(e) \/ WriteAborted(e) \/ ProbeLimit(e)
    BY <2>2, UnackedUnchanged, Zenon DEF SendData, WriteAborted, ProbeLimit
  <2> QED BY <1>1, <2>1, <2>2, Zenon DEF Writer
<1>2. ASSUME NEW e \in Endpoint, AcceptFIN(e) PROVE UnackedStep
  <2>1. /\ unacked'[e] \subseteq unacked[e]
        /\ \A f \in Endpoint \ {e} : unacked'[f] = unacked[f]
    BY <1>2, Zenon DEF AcceptFIN, TypeOK
  <2> QED BY <1>2, <2>1, UnackedSame, Zenon DEF UnackedStep
<1>3. ASSUME NEW e \in Endpoint, Timers(e) PROVE UnackedStep
  <2>1. CASE SendDelayedACK(e) \/ ExpireHeldFIN(e)
    BY <2>1, UnackedUnchanged, Zenon DEF SendDelayedACK, ExpireHeldFIN, sendVars
  <2>2. CASE Linger(e)
    BY <1>3, <2>2, ReleaseUnacked, Zenon DEF Linger
  <2>3. CASE HoldTimerAccepts(e)
    BY <1>2, <1>3, <2>3, Zenon DEF HoldTimerAccepts
  <2> QED BY <1>3, <2>1, <2>2, <2>3, Zenon DEF Timers
<1>4. ASSUME NEW e \in Endpoint, PacketLoop(e) PROVE UnackedStep
  <2>1. ASSUME NEW p \in net, p.to = e, RecvSeg(e, p) \/ RecvAck(e, p) PROVE UnackedStep
    BY <1>4, <2>1, AckUnacked, Zenon DEF RecvSeg, RecvAck
  <2>2. ASSUME NEW p \in net, RecvFin(e, p) \/ RecvRst(e, p) PROVE UnackedStep
    BY <2>2, UnackedUnchanged, Zenon DEF RecvFin, RecvRst, sendVars
  <2>3. CASE HandlePacket(e)
    BY <2>1, <2>2, <2>3, Zenon DEF HandlePacket
  <2>4. CASE Push(e) \/ Commit(e)
    BY <2>4, UnackedUnchanged, Zenon DEF Push, Commit, sendVars
  <2>5. CASE PacketLoopAccepts(e)
    BY <1>2, <1>4, <2>5, Zenon DEF PacketLoopAccepts
  <2> QED BY <1>4, <2>3, <2>4, <2>5, Zenon DEF PacketLoop
<1>5. ASSUME NEW e \in Endpoint, RetxLoop(e) PROVE UnackedStep
  <2>1. CASE RetxResends(e)
    <3>1. PICK U \in {unacked[e]} \cup
                      IF HeadSacked(unacked[e]) THEN {Forget(unacked[e])} ELSE {} :
          \E u \in {v \in U : ~v.sacked} :
            \/ unacked' = [unacked EXCEPT ![e] = U]
            \/ unacked' = [unacked EXCEPT ![e] = (U \ {u}) \cup {Retried(u)}]
      BY <2>1, Zenon DEF RetxResends, RetransmitUnacked
    <3>2. PICK u \in U : \/ unacked' = [unacked EXCEPT ![e] = U]
                         \/ unacked' = [unacked EXCEPT ![e] = (U \ {u}) \cup {Retried(u)}]
      BY <3>1, Zenon
    <3>3. unacked[e] \subseteq Entry
      BY <1>5, Zenon DEF TypeOK
    <3>4. ASSUME NEW w \in U PROVE w \in Entry /\ Copied(e, w)
      <4>1. CASE U = unacked[e]
        BY <3>3, <3>4, <4>1, Zenon DEF Copied
      <4>2. CASE U = Forget(unacked[e])
        <5>1. PICK v \in unacked[e] : w = [v EXCEPT !.sacked = FALSE]
          BY <3>4, <4>2, Zenon DEF Forget
        <5>2. w \in Entry /\ w.seq = v.seq /\ w.val = v.val /\ ~w.sacked
          BY <3>3, <5>1, Zenon DEF Entry
        <5> QED BY <5>2, Zenon DEF Copied
      <4> QED BY <3>1, <4>1, <4>2, Zenon
    <3>5. Copied(e, Retried(u))
      <4>1. u \in Entry /\ Copied(e, u)
        BY <3>4, Zenon
      <4>2. Retried(u).seq = u.seq /\ Retried(u).val = u.val /\ Retried(u).sacked = u.sacked
        BY <4>1, Zenon DEF Retried, Entry
      <4> QED BY <4>1, <4>2, Zenon DEF Copied
    <3>6. CASE unacked' = [unacked EXCEPT ![e] = U]
      BY <1>5, <3>4, <3>6, UnackedOthers, Zenon DEF Tracked
    <3>7. CASE unacked' = [unacked EXCEPT ![e] = (U \ {u}) \cup {Retried(u)}]
      BY <1>5, <3>4, <3>5, <3>7, UnackedOthers, Zenon DEF Tracked
    <3> QED BY <3>2, <3>6, <3>7, Zenon
  <2>2. CASE RetxExits(e) \/ RetxCleansUp(e)
    BY <2>2, UnackedUnchanged, Zenon DEF RetxExits, RetxCleansUp, sendVars
  <2> QED BY <1>5, <2>1, <2>2, Zenon DEF RetxLoop
<1>6. ASSUME NEW e \in Endpoint, Probe(e) \/ Read(e) \/ Reap(e) \/ Stop(e) PROVE UnackedStep
  BY <1>6, ReleaseUnacked, UnackedUnchanged, Zenon DEF Probe, Read, Reap, Stop, sendVars
<1>7. ASSUME NEW e \in Endpoint, NEW c \in Closer, Close(e, c) PROVE UnackedStep
  <2>1. CASE CloseSends(e, c)
    <3>1. CASE At(e, c, "fin") /\ SendFIN(e, {cl[e][c].fin})
      <4>1. FinOf(e, cl[e][c].fin)
        BY <1>7, <3>1, Zenon DEF At, FinOf
      <4> QED BY <1>7, <3>1, <4>1, FinUnacked, SMTT(30)
    <3>2. CASE ReleaseHeldFIN(e) \/ UNCHANGED unacked
      BY <1>7, <3>2, ReleaseUnacked, UnackedUnchanged, Zenon
    <3> QED BY <2>1, <3>1, <3>2, Zenon DEF CloseSends
  <2>2. CASE CloseBegins(e, c) \/ CloseReserves(e, c) \/ CloseShuts(e, c) \/ CloseEnds(e, c)
    BY <2>2, UnackedUnchanged, Zenon DEF CloseBegins, CloseReserves, CloseShuts, CloseEnds, sendVars
  <2> QED BY <1>7, <2>1, <2>2, Zenon DEF Close
<1>8. CASE Lose \/ UNCHANGED vars
  BY <1>8, UnackedUnchanged, Zenon DEF Lose, vars, sendVars
<1> QED
  BY <1>1, <1>3, <1>4, <1>5, <1>6, <1>7, <1>8, Zenon DEF Next

-----------------------------------------------------------------------------
(* What a step puts on the wire.                                           *)

NewSeg(e, q) ==
  /\ q.kind = "seg" /\ q.ack = expected[e] /\ q.sack = {}
  /\ \/ \E u \in unacked[e] : u.val # 0 /\ q.seq = u.seq /\ q.val = u.val
     \/ Sends(e) /\ q.seq = sendSeq[e] /\ q.val = written[e] + 1
NewAck(e, q) ==
  q.kind = "ack" /\ q.ack = expected'[e] /\ q.sack \subseteq DOMAIN ooo'[e]
NewFinPacket(e, q) ==
  /\ q.kind \in {"fin", "finack"} /\ q.val = 0 /\ q.ack = 0 /\ q.sack = {}
  /\ \/ FinOf(e, q.seq)
     \/ \E u \in unacked[e] : u.val = 0 /\ q.seq = u.seq
     \/ (q.kind = "finack" \/ Stop(e)) /\ Marks(e) /\ q.seq = sendSeq[e]
NewRst(q) == q.kind = "rst" /\ q.ack = 0 /\ q.sack = {}

Sent(e, q) ==
  q.to = Peer(e) /\ (NewSeg(e, q) \/ NewAck(e, q) \/ NewFinPacket(e, q) \/ NewRst(q))

PacketStep == \A q \in net' : q \in net \/ \E e \in Endpoint : Sent(e, q)

(* A retransmission is a packet e may send,                                *)
LEMMA AgainSent ==
  ASSUME NEW e \in Endpoint, NEW u, NEW v \in unacked[e], u.seq = v.seq, u.val = v.val
  PROVE  Sent(e, Again(e, u))
<1>1. CASE u.val = 0
  BY <1>1, Zenon DEF Sent, Again, Fin, NewFinPacket
<1>2. CASE u.val # 0
  BY <1>2, Zenon DEF Sent, Again, Seg, NewSeg
<1> QED BY <1>1, <1>2, Zenon

(* a FIN is one,                                                           *)
LEMMA FinSent ==
  ASSUME NEW e \in Endpoint, NEW s, FinOf(e, s)
  PROVE  Sent(e, Fin(e, s))
BY Zenon DEF Sent, Fin, NewFinPacket

(* an RST is one,                                                          *)
LEMMA RstSent == ASSUME NEW e \in Endpoint PROVE Sent(e, Rst(e))
BY Zenon DEF Sent, Rst, NewRst

(* a delayed ACK of the new state is one,                                  *)
LEMMA AckSent ==
  ASSUME NEW e \in Endpoint, NEW n, NEW buf, n = expected'[e], DOMAIN buf \subseteq DOMAIN ooo'[e]
  PROVE  Sent(e, DelayedACK(e, n, buf))
BY SackedSubset, Zenon DEF Sent, DelayedACK, Ack, NewAck

(* and so are the packets of acceptFIN,                                    *)
LEMMA AcceptSent ==
  ASSUME NEW e \in Endpoint, AcceptFIN(e) PROVE PacketStep
<1>1. CASE st[e] = "TimeWait"
  BY <1>1, Zenon DEF AcceptFIN, PacketStep
<1>2. CASE st[e] # "TimeWait"
  <2>1. Marks(e) /\ net' = net \cup {FinAck(e)}
    BY <1>2, Zenon DEF AcceptFIN, Marks
  <2>2. Sent(e, FinAck(e))
    BY <2>1, Zenon DEF Sent, FinAck, NewFinPacket
  <2> QED BY <2>1, <2>2, Zenon DEF PacketStep
<1> QED BY <1>1, <1>2, Zenon

(* of sending FINs,                                                        *)
LEMMA SendFINSent ==
  ASSUME NEW e \in Endpoint, NEW F, SendFIN(e, F), \A s \in F : FinOf(e, s)
  PROVE  PacketStep
<1>1. \A s \in F : Sent(e, Fin(e, s))
  BY FinSent, Zenon
<1>2. net' = net \cup {Fin(e, s) : s \in F}
  BY Zenon DEF SendFIN
<1> QED BY <1>1, <1>2, Zenon DEF PacketStep

(* of releasing a held FIN                                                 *)
LEMMA ReleaseSent ==
  ASSUME NEW e \in Endpoint, ReleaseHeldFIN(e) PROVE PacketStep
<1>1. \A s \in IF FinGoes(e) THEN {heldFin[e]} ELSE {} : FinOf(e, s)
  BY Zenon DEF FinGoes, FinOf
<1> QED BY <1>1, SendFINSent, SMTT(30) DEF ReleaseHeldFIN

(* and of handling an ACK.                                                 *)
LEMMA ProcessAckSent ==
  ASSUME TypeOK, NEW e \in Endpoint, NEW p \in net, ProcessAck(e, p) PROVE PacketStep
<1> DEFINE new  == p.ack > lastAck[e]
           left == IF new THEN {u \in unacked[e] : u.seq >= p.ack} ELSE unacked[e]
           dup  == p.kind = "ack" /\ p.ack = lastAck[e]
           cand == {u \in FirstUnsacked(left) : (new \/ dup) /\ u.tries < MaxRetxAttempts}
           free == heldFin[e] # 0 /\ ~HasData(left)
           fin  == IF free /\ FinGoes(e) THEN {heldFin[e]} ELSE {}
<1>1. PICK fast \in {{}, cand} :
        net' = (net \ Taken(p)) \cup {Again(e, u) : u \in fast} \cup {Fin(e, s) : s \in fin}
  BY Zenon DEF ProcessAck
<1>2. fast \subseteq unacked[e]
  BY Zenon DEF FirstUnsacked
<1>3. \A s \in fin : FinOf(e, s)
  BY Zenon DEF FinOf
<1> HIDE DEF new, left, dup, cand, free, fin
<1>4. \A u \in fast : Sent(e, Again(e, u))
  BY <1>2, AgainSent, Zenon
<1>5. \A s \in fin : Sent(e, Fin(e, s))
  BY <1>3, FinSent, Zenon
<1> QED BY <1>1, <1>4, <1>5, Zenon DEF PacketStep

(* Every packet on the wire after a step was there or was sent by it.      *)
LEMMA PacketSteps == TypeOK /\ [Next]_vars => PacketStep
<1> SUFFICES ASSUME TypeOK, [Next]_vars PROVE PacketStep
  BY Zenon
<1>0. ASSUME net' \subseteq net PROVE PacketStep
  BY <1>0, Zenon DEF PacketStep
<1>1. ASSUME NEW e \in Endpoint, Writer(e) PROVE PacketStep
  <2>1. CASE TransmitSegment(e)
    <3> DEFINE u == DataEntry(sendSeq[e], written[e] + 1)
    <3>1. net' = net \cup {Seg(e, u)} /\ Sends(e)
      BY <2>1, Zenon DEF TransmitSegment, Sends
    <3>2. Sent(e, Seg(e, u))
      BY <3>1, Zenon DEF Sent, NewSeg, Seg, DataEntry
    <3> QED BY <1>1, <3>1, <3>2, Zenon DEF PacketStep
  <2>2. CASE ProbeLimit(e)
    BY <1>1, <2>2, RstSent, Zenon DEF ProbeLimit, PacketStep
  <2>3. CASE SendData(e) \/ WriteAborted(e)
    BY <1>0, <2>3, Zenon DEF SendData, WriteAborted
  <2> QED BY <1>1, <2>1, <2>2, <2>3, Zenon DEF Writer
<1>2. ASSUME NEW e \in Endpoint, Timers(e) PROVE PacketStep
  <2>1. CASE SendDelayedACK(e)
    <3>1. Sent(e, DelayedACK(e, expected[e], ooo[e]))
      BY <1>2, <2>1, AckSent, Zenon DEF SendDelayedACK
    <3> QED BY <1>2, <2>1, <3>1, Zenon DEF SendDelayedACK, PacketStep
  <2>2. CASE ExpireHeldFIN(e)
    BY <1>0, <2>2, Zenon DEF ExpireHeldFIN
  <2>3. CASE HoldTimerAccepts(e)
    BY <1>2, <2>3, AcceptSent, Zenon DEF HoldTimerAccepts
  <2>4. CASE Linger(e)
    BY <1>2, <2>4, ReleaseSent, Zenon DEF Linger
  <2> QED BY <1>2, <2>1, <2>2, <2>3, <2>4, Zenon DEF Timers
<1>3. ASSUME NEW e \in Endpoint, PacketLoop(e) PROVE PacketStep
  <2>1. ASSUME NEW p \in net, RecvSeg(e, p) \/ RecvAck(e, p) PROVE PacketStep
    BY <1>3, <2>1, ProcessAckSent, Zenon DEF RecvSeg, RecvAck
  <2>2. ASSUME NEW p \in net, RecvFin(e, p) PROVE PacketStep
    <3>1. CASE HoldFin(e, p)
      <4>1. Sent(e, DelayedACK(e, expected[e], ooo[e]))
        BY <1>3, <2>2, AckSent, Zenon DEF RecvFin
      <4> QED BY <1>3, <3>1, <4>1, Zenon DEF HoldFin, PacketStep
    <3>2. CASE TakeFin(e, p)
      BY <1>0, <3>2, Zenon DEF TakeFin
    <3> QED BY <2>2, <3>1, <3>2, Zenon DEF RecvFin
  <2>3. ASSUME NEW p \in net, RecvRst(e, p) PROVE PacketStep
    BY <1>0, <2>3, Zenon DEF RecvRst
  <2>4. CASE HandlePacket(e)
    BY <2>1, <2>2, <2>3, <2>4, Zenon DEF HandlePacket
  <2>5. CASE Push(e)
    BY <1>0, <2>5, Zenon DEF Push
  <2>6. CASE Commit(e)
    <3> DEFINE q == DelayedACK(e, expected[e] + rl[e].done, Rebuffered(e))
    <3>1. net' \subseteq net \cup {q}
      BY <2>6, Zenon DEF Commit
    <3>2. expected'[e] = expected[e] + rl[e].done /\ ooo'[e] = Rebuffered(e)
      BY <1>3, <2>6, ReceiverTypes, Zenon DEF Commit
    <3>3. Sent(e, q)
      BY <1>3, <3>2, AckSent, Zenon
    <3> HIDE DEF q
    <3> QED BY <1>3, <3>1, <3>3, Zenon DEF PacketStep
  <2>7. CASE PacketLoopAccepts(e)
    BY <1>3, <2>7, AcceptSent, Zenon DEF PacketLoopAccepts
  <2> QED BY <1>3, <2>4, <2>5, <2>6, <2>7, Zenon DEF PacketLoop
<1>4. ASSUME NEW e \in Endpoint, RetxLoop(e) PROVE PacketStep
  <2>1. CASE RetxResends(e)
    <3>1. PICK U \in {unacked[e]} \cup
                      IF HeadSacked(unacked[e]) THEN {Forget(unacked[e])} ELSE {} :
          \E u \in {v \in U : ~v.sacked} :
            net' = net \cup {Rst(e)} \/ net' = net \cup {Again(e, u)}
      BY <2>1, Zenon DEF RetxResends, RetransmitUnacked
    <3>2. PICK u \in U : net' = net \cup {Rst(e)} \/ net' = net \cup {Again(e, u)}
      BY <3>1, Zenon
    <3>3. \E v \in unacked[e] : u.seq = v.seq /\ u.val = v.val
      <4>1. unacked[e] \subseteq Entry
        BY <1>4, Zenon DEF TypeOK
      <4> QED BY <3>1, <3>2, <4>1, SMTT(30) DEF Forget, Entry
    <3>4. Sent(e, Again(e, u))
      BY <1>4, <3>3, AgainSent, Zenon
    <3>5. Sent(e, Rst(e))
      BY <1>4, RstSent, Zenon
    <3>6. ASSUME NEW r \in net' PROVE r \in net \/ Sent(e, r)
      BY <3>2, <3>4, <3>5, <3>6, Zenon
    <3> QED BY <1>4, <3>6, Zenon DEF PacketStep
  <2>2. CASE RetxExits(e) \/ RetxCleansUp(e)
    BY <1>0, <2>2, Zenon DEF RetxExits, RetxCleansUp
  <2> QED BY <1>4, <2>1, <2>2, Zenon DEF RetxLoop
<1>5. ASSUME NEW e \in Endpoint, Probe(e) PROVE PacketStep
  <2>1. Sent(e, Ack(e, expected[e], {}))
    BY <1>5, Zenon DEF Probe, Sent, Ack, NewAck, recvVars
  <2> QED BY <1>5, <2>1, Zenon DEF Probe, PacketStep
<1>6. ASSUME NEW e \in Endpoint, Read(e) \/ Reap(e) PROVE PacketStep
  BY <1>0, <1>6, ReleaseSent, Zenon DEF Read, Reap
<1>7. ASSUME NEW e \in Endpoint, Stop(e) PROVE PacketStep
  <2>1. ASSUME NEW s \in StopFin(e) PROVE Sent(e, Fin(e, s))
    <3>1. CASE FinGoes(e)
      BY <1>7, <2>1, <3>1, FinSent, Zenon DEF StopFin, FinGoes, FinOf
    <3>2. CASE ~FinGoes(e)
      <4>1. st[e] = "Established" /\ s = sendSeq[e]
        BY <2>1, <3>2, Zenon DEF StopFin
      <4>2. Marks(e)
        BY <1>7, <4>1, Zenon DEF Stop, Marks
      <4> QED BY <1>7, <4>1, <4>2, Zenon DEF Sent, Fin, NewFinPacket
    <3> QED BY <3>1, <3>2, Zenon
  <2>2. net' = net \cup {Fin(e, s) : s \in StopFin(e)}
    BY <1>7, Zenon DEF Stop
  <2> QED BY <1>7, <2>1, <2>2, Zenon DEF PacketStep
<1>8. ASSUME NEW e \in Endpoint, NEW c \in Closer, Close(e, c) PROVE PacketStep
  <2>1. CASE CloseSends(e, c)
    <3>1. CASE At(e, c, "fin") /\ SendFIN(e, {cl[e][c].fin})
      <4>1. FinOf(e, cl[e][c].fin)
        BY <1>8, <3>1, Zenon DEF At, FinOf
      <4> QED BY <1>8, <3>1, <4>1, SendFINSent, SMTT(30)
    <3>2. CASE ReleaseHeldFIN(e) \/ UNCHANGED net
      BY <1>0, <1>8, <3>2, ReleaseSent, Zenon
    <3> QED BY <2>1, <3>1, <3>2, Zenon DEF CloseSends
  <2>2. CASE CloseBegins(e, c) \/ CloseReserves(e, c) \/ CloseShuts(e, c) \/ CloseEnds(e, c)
    BY <1>0, <2>2, Zenon DEF CloseBegins, CloseReserves, CloseShuts, CloseEnds
  <2> QED BY <1>8, <2>1, <2>2, Zenon DEF Close
<1>9. CASE Lose \/ UNCHANGED vars
  BY <1>0, <1>9, Zenon DEF Lose, vars
<1> QED
  BY <1>1, <1>2, <1>3, <1>4, <1>5, <1>6, <1>7, <1>8, <1>9, Zenon DEF Next

-----------------------------------------------------------------------------
(* What a step does to the cumulative ACK, to the FINs that wait and to    *)
(* the end of the stream.                                                  *)

AckTaken(e) == \/ lastAck'[e] = lastAck[e]
               \/ \E p \in net : p.to = e /\ lastAck'[e] = p.ack

FinKept(e) ==
  /\ heldFin'[e] \in {0, heldFin[e]} \/ (Reserves(e) /\ heldFin'[e] = sendSeq[e])
  /\ \A c \in Closer : cl'[e][c].pc = "fin" =>
       \/ cl[e][c].pc = "fin" /\ cl'[e][c].fin = cl[e][c].fin
       \/ Reserves(e) /\ cl'[e][c].fin = sendSeq[e]
  /\ \/ finPending'[e] \in {0, finPending[e]}
     \/ \E p \in net : p.to = e /\ p.kind \in {"fin", "finack"} /\ finPending'[e] = p.seq

CleanlyEnded(e) ==
  eof'[e] = "fin" =>
    \/ eof[e] = "fin"
    \/ finPending[e] # 0 /\ finPending[e] <= expected[e] + rl[e].done
    \/ \E p \in net : p.to = e /\ p.kind \in {"fin", "finack"} /\ p.seq <= expected[e]

EndStep == \A e \in Endpoint : AckTaken(e) /\ FinKept(e) /\ CleanlyEnded(e)

(* The types of the variables about ends and acknowledgements.             *)
LEMMA EndTypes ==
  ASSUME TypeOK
  PROVE  /\ lastAck \in [Endpoint -> Nat] /\ heldFin \in [Endpoint -> Nat]
         /\ finPending \in [Endpoint -> Nat]
         /\ eof \in [Endpoint -> {"open", "fin", "expired", "cut"}]
         /\ cl \in [Endpoint -> [Closer ->
              [pc : {"idle", "hold", "send", "release", "fin", "shut", "wait", "done"},
               fin : Nat]]]
BY Zenon DEF TypeOK

(* Most steps change few of these variables.                               *)
LEMMA EndFrame ==
  ASSUME TypeOK,
         \/ UNCHANGED lastAck
         \/ \A e \in Endpoint : AckTaken(e),
         \/ UNCHANGED heldFin
         \/ \E e \in Endpoint : heldFin' = [heldFin EXCEPT ![e] = 0],
         UNCHANGED cl,
         \/ UNCHANGED finPending
         \/ \E e \in Endpoint : finPending' = [finPending EXCEPT ![e] = 0],
         \/ UNCHANGED eof
         \/ \E e \in Endpoint : \E r \in {"expired", "cut"} :
              eof' = [eof EXCEPT ![e] = IF @ = "open" THEN r ELSE @]
  PROVE  EndStep
<1>1. ASSUME NEW f \in Endpoint PROVE AckTaken(f)
  BY <1>1, Zenon DEF AckTaken
<1>2. ASSUME NEW f \in Endpoint PROVE FinKept(f)
  BY <1>2, EndTypes, Zenon DEF FinKept
<1>3. ASSUME NEW f \in Endpoint PROVE CleanlyEnded(f)
  BY <1>3, EndTypes, Zenon DEF CleanlyEnded
<1> QED BY <1>1, <1>2, <1>3, Zenon DEF EndStep

(* An ACK takes its number and may release the held FIN.                   *)
LEMMA AckEnd ==
  ASSUME TypeOK, NEW e \in Endpoint, NEW p \in net, p.to = e, ProcessAck(e, p),
         UNCHANGED <<cl, finPending, eof>>
  PROVE  EndStep
<1>1. lastAck' = [lastAck EXCEPT ![e] = IF p.ack > lastAck[e] THEN p.ack ELSE @]
  BY Zenon DEF ProcessAck
<1>2. \A f \in Endpoint : AckTaken(f)
  BY <1>1, EndTypes, Zenon DEF AckTaken
<1>3. \/ heldFin' = [heldFin EXCEPT ![e] = 0]
      \/ heldFin' = [heldFin EXCEPT ![e] = @]
  BY Zenon DEF ProcessAck
<1>4. UNCHANGED heldFin \/ heldFin' = [heldFin EXCEPT ![e] = 0]
  BY <1>3, EndTypes, Zenon
<1> QED BY <1>2, <1>4, EndFrame, Zenon

(* Every step is one of these for ends and acknowledgements.               *)
LEMMA EndSteps == TypeOK /\ [Next]_vars => EndStep
<1> SUFFICES ASSUME TypeOK, [Next]_vars PROVE EndStep
  BY Zenon
<1>0. ASSUME UNCHANGED <<lastAck, heldFin, cl, finPending, eof>> PROVE EndStep
  BY <1>0, EndFrame, Zenon
<1>1. ASSUME NEW e \in Endpoint, Writer(e) \/ Probe(e) \/ Read(e) PROVE EndStep
  BY <1>0, <1>1, Zenon DEF Writer, SendData, TransmitSegment, WriteAborted, ProbeLimit, Probe,
                    Read, sendVars, recvVars
<1>2. ASSUME NEW e \in Endpoint, Timers(e) PROVE EndStep
  <2>1. CASE SendDelayedACK(e) \/ HoldTimerAccepts(e)
    BY <1>0, <2>1, Zenon DEF SendDelayedACK, HoldTimerAccepts, sendVars
  <2>2. CASE ExpireHeldFIN(e)
    BY <1>2, <2>2, EndFrame, Zenon DEF ExpireHeldFIN, sendVars
  <2>3. CASE Linger(e)
    BY <1>2, <2>3, EndFrame, Zenon DEF Linger, ReleaseHeldFIN, recvVars
  <2> QED BY <1>2, <2>1, <2>2, <2>3, Zenon DEF Timers
<1>3. ASSUME NEW e \in Endpoint, PacketLoop(e) PROVE EndStep
  <2>1. ASSUME NEW p \in net, p.to = e, RecvSeg(e, p) \/ RecvAck(e, p) PROVE EndStep
    BY <1>3, <2>1, AckEnd, Zenon DEF RecvSeg, RecvAck, recvVars
  <2>2. ASSUME NEW p \in net, p.to = e, RecvFin(e, p) PROVE EndStep
    <3>1. UNCHANGED <<lastAck, heldFin, cl>> /\ p.kind \in {"fin", "finack"} /\ p.seq \in Nat
      BY <2>2, Zenon DEF RecvFin, sendVars, TypeOK, Packet
    <3>2. \A f \in Endpoint : AckTaken(f)
      BY <3>1, Zenon DEF AckTaken
    <3>3. CASE HoldFin(e, p)
      <4>1. \A f \in Endpoint : FinKept(f)
        BY <1>3, <2>2, <3>1, <3>3, EndTypes, Zenon DEF HoldFin, FinKept
      <4>2. \A f \in Endpoint : CleanlyEnded(f)
        BY <3>3, Zenon DEF HoldFin, CleanlyEnded
      <4> QED BY <3>2, <4>1, <4>2, Zenon DEF EndStep
    <3>4. CASE TakeFin(e, p)
      <4>1. \A f \in Endpoint : FinKept(f)
        BY <1>3, <3>1, <3>4, EndTypes, Zenon DEF TakeFin, FinKept
      <4>2. ASSUME eof'[e] = "fin", eof[e] # "fin" PROVE p.seq <= expected[e]
        BY <1>3, <3>1, <3>4, <4>2, EndTypes, ReceiverTypes, SMTT(30) DEF TakeFin, EarlyFin
      <4>3. \A f \in Endpoint \ {e} : eof'[f] = eof[f]
        BY <3>4, EndTypes, Zenon DEF TakeFin
      <4>4. \A f \in Endpoint : CleanlyEnded(f)
        BY <2>2, <3>1, <4>2, <4>3, Zenon DEF CleanlyEnded
      <4> QED BY <3>2, <4>1, <4>4, Zenon DEF EndStep
    <3> QED BY <2>2, <3>3, <3>4, Zenon DEF RecvFin
  <2>3. ASSUME NEW p \in net, RecvRst(e, p) PROVE EndStep
    BY <1>3, <2>3, EndFrame, Zenon DEF RecvRst, Cut, sendVars
  <2>4. CASE HandlePacket(e)
    BY <2>1, <2>2, <2>3, <2>4, Zenon DEF HandlePacket
  <2>5. CASE Push(e) \/ PacketLoopAccepts(e)
    BY <1>0, <2>5, Zenon DEF Push, PacketLoopAccepts, sendVars
  <2>6. CASE Commit(e)
    <3> DEFINE next  == expected[e] + rl[e].done
               ready == finPending[e] # 0 /\ finPending[e] <= next
    <3>1. UNCHANGED <<lastAck, heldFin, cl>>
      BY <2>6, Zenon DEF Commit, sendVars
    <3>2. /\ finPending' = [finPending EXCEPT ![e] = IF ready THEN 0 ELSE @]
          /\ eof' = [eof EXCEPT ![e] = IF ready /\ @ = "open" THEN "fin" ELSE @]
      BY <2>6, Zenon DEF Commit
    <3>3. \A f \in Endpoint : AckTaken(f) /\ FinKept(f)
      BY <1>3, <3>1, <3>2, EndTypes, Zenon DEF AckTaken, FinKept
    <3>4. \A f \in Endpoint : CleanlyEnded(f)
      BY <1>3, <3>2, EndTypes, Zenon DEF CleanlyEnded
    <3> QED BY <3>3, <3>4, Zenon DEF EndStep
  <2> QED BY <1>3, <2>4, <2>5, <2>6, Zenon DEF PacketLoop
<1>4. ASSUME NEW e \in Endpoint, RetxLoop(e) PROVE EndStep
  <2>1. CASE RetxResends(e) \/ RetxExits(e)
    BY <1>0, <2>1, Zenon DEF RetxResends, RetxExits, sendVars, recvVars
  <2>2. CASE RetxCleansUp(e)
    BY <1>4, <2>2, EndFrame, Zenon DEF RetxCleansUp, Cut, sendVars
  <2> QED BY <1>4, <2>1, <2>2, Zenon DEF RetxLoop
<1>5. ASSUME NEW e \in Endpoint, Reap(e) \/ Stop(e) PROVE EndStep
  BY <1>5, EndFrame, Zenon DEF Reap, Stop, ReleaseHeldFIN, Cut
<1>6. ASSUME NEW e \in Endpoint, NEW c \in Closer, Close(e, c) PROVE EndStep
  <2>1. CASE CloseReserves(e, c)
    <3>1. UNCHANGED <<lastAck, finPending, eof>>
      BY <2>1, Zenon DEF CloseReserves, recvVars
    <3>2. CASE st[e] = "Established"
      <4>1. Reserves(e)
        BY <2>1, <3>2, Zenon DEF CloseReserves, Reserves, Marks
      <4>2. heldFin' = heldFin \/ heldFin' = [heldFin EXCEPT ![e] = sendSeq[e]]
        BY <2>1, <3>2, Zenon DEF CloseReserves
      <4>3. \E pc : cl' = [cl EXCEPT ![e][c] = [pc |-> pc, fin |-> sendSeq[e]]]
        BY <2>1, <3>2, Zenon DEF CloseReserves, Goto
      <4>4. ASSUME NEW f \in Endpoint PROVE FinKept(f)
        <5>1. heldFin'[f] = heldFin[f] \/ (f = e /\ heldFin'[f] = sendSeq[e])
          BY <1>6, <4>2, EndTypes, Zenon
        <5>2. ASSUME NEW d \in Closer, cl'[f][d].pc = "fin"
              PROVE  \/ cl[f][d].pc = "fin" /\ cl'[f][d].fin = cl[f][d].fin
                     \/ f = e /\ cl'[f][d].fin = sendSeq[e]
          BY <1>6, <4>3, <5>2, EndTypes, SMTT(30)
        <5>3. finPending'[f] = finPending[f]
          BY <3>1, Zenon
        <5> QED BY <4>1, <5>1, <5>2, <5>3, Zenon DEF FinKept
      <4> QED BY <3>1, <4>4, Zenon DEF EndStep, AckTaken, CleanlyEnded
    <3>3. CASE st[e] # "Established"
      <4>1. heldFin' = heldFin
        BY <2>1, <3>3, EndTypes, Zenon DEF CloseReserves
      <4>2. cl' = [cl EXCEPT ![e][c] = [pc |-> "shut", fin |-> 0]]
        BY <2>1, <3>3, Zenon DEF CloseReserves, Goto
      <4>3. \A f \in Endpoint : FinKept(f)
        BY <1>6, <3>1, <4>1, <4>2, EndTypes, Zenon DEF FinKept
      <4> QED BY <3>1, <4>3, Zenon DEF EndStep, AckTaken, CleanlyEnded
    <3> QED BY <3>2, <3>3, Zenon
  <2>2. CASE CloseBegins(e, c) \/ CloseSends(e, c) \/ CloseShuts(e, c) \/ CloseEnds(e, c)
    <3>1. \E pc \in {"hold", "send", "shut", "wait", "done"} :
             cl' = [cl EXCEPT ![e][c] = [pc |-> pc, fin |-> 0]]
      BY <2>2, Zenon DEF CloseBegins, CloseSends, CloseShuts, CloseEnds, Goto
    <3>2. heldFin' = heldFin \/ heldFin' = [heldFin EXCEPT ![e] = 0]
      BY <2>2, Zenon DEF CloseBegins, CloseSends, CloseShuts, CloseEnds, ReleaseHeldFIN, sendVars
    <3>3. finPending' = finPending \/ finPending' = [finPending EXCEPT ![e] = 0]
      BY <2>2, Zenon DEF CloseBegins, CloseSends, CloseShuts, CloseEnds, recvVars
    <3>4. eof' = eof \/ eof' = [eof EXCEPT ![e] = IF @ = "open" THEN "cut" ELSE @]
      BY <2>2, Zenon DEF CloseBegins, CloseSends, CloseShuts, CloseEnds, Cut, recvVars
    <3>5. UNCHANGED lastAck
      BY <2>2, Zenon DEF CloseBegins, CloseSends, CloseShuts, CloseEnds, sendVars
    <3>6. ASSUME NEW f \in Endpoint PROVE FinKept(f)
      <4>1. heldFin'[f] \in {0, heldFin[f]}
        BY <1>6, <3>2, EndTypes, Zenon
      <4>2. ASSUME NEW d \in Closer, cl'[f][d].pc = "fin"
            PROVE  cl[f][d].pc = "fin" /\ cl'[f][d].fin = cl[f][d].fin
        BY <1>6, <3>1, <4>2, EndTypes, SMTT(30)
      <4>3. finPending'[f] \in {0, finPending[f]}
        BY <1>6, <3>3, EndTypes, Zenon
      <4> QED BY <4>1, <4>2, <4>3, Zenon DEF FinKept
    <3>7. \A f \in Endpoint : CleanlyEnded(f)
      BY <1>6, <3>4, EndTypes, Zenon DEF CleanlyEnded
    <3> QED BY <3>5, <3>6, <3>7, Zenon DEF EndStep, AckTaken
  <2> QED BY <1>6, <2>1, <2>2, Zenon DEF Close
<1>7. CASE Lose \/ UNCHANGED vars
  BY <1>0, <1>7, Zenon DEF Lose, vars, sendVars, recvVars
<1> QED
  BY <1>1, <1>2, <1>3, <1>4, <1>5, <1>6, <1>7, Zenon DEF Next

-----------------------------------------------------------------------------
(* The inductive invariant is preserved.                                   *)

Step == SenderStep /\ ReceiverStep /\ UnackedStep /\ PacketStep /\ EndStep

IInv == TypeOK /\ SendInv /\ SegInv /\ RecvInv /\ AckInv /\ FinInv /\ SackInv /\ CleanEnd

(* All the step lemmas together.                                           *)
LEMMA Steps == ASSUME TypeOK, [Next]_vars PROVE Step
BY SenderSteps, ReceiverSteps, UnackedSteps, PacketSteps, EndSteps, Zenon DEF Step

(* A packet's sender, and the types of its fields.                         *)
LEMMA PacketFacts ==
  ASSUME TypeOK, NEW p \in net
  PROVE  /\ p.to \in Endpoint /\ Peer(p.to) \in Endpoint
         /\ p.seq \in Nat /\ p.val \in Nat /\ p.ack \in Nat /\ p.sack \subseteq Nat
BY PeerFacts, Zenon DEF TypeOK, Packet

(* The fields of an entry are numbers.                                     *)
LEMMA EntryFacts ==
  ASSUME TypeOK, NEW e \in Endpoint, NEW u \in unacked[e]
  PROVE  u.seq \in Nat /\ u.val \in Nat
BY SMTT(60) DEF TypeOK, Entry

(* The segment a write sends is good in the new sequence space.            *)
LEMMA NewSegGood ==
  ASSUME TypeOK, SendInv, NEW e \in Endpoint, Sends(e),
         NEW s, NEW v, s = sendSeq[e], v = written[e] + 1
  PROVE  GoodSeg(e, s, v)'
BY SenderTypes, SMTT(30) DEF SendInv, Sends, GoodSeg, Reserved

(* Every copy of a segment is still the one that was sent.                 *)
LEMMA SegInvNext ==
  ASSUME TypeOK, TypeOK', SendInv, SegInv, RecvInv, Step PROVE SegInv'
<1>1. ASSUME NEW e \in Endpoint, NEW u \in unacked[e], u.val # 0
      PROVE  GoodSeg(e, u.seq, u.val)'
  BY <1>1, EntryFacts, SegStable, Zenon DEF SegInv, Step
<1>2. ASSUME NEW q \in net', q.kind = "seg" PROVE GoodSeg(Peer(q.to), q.seq, q.val)'
  <2>1. CASE q \in net
    BY <1>2, <2>1, PacketFacts, SegStable, Zenon DEF SegInv, Step
  <2>2. ASSUME NEW e \in Endpoint, Sent(e, q) PROVE GoodSeg(Peer(q.to), q.seq, q.val)'
    <3>1. NewSeg(e, q) /\ Peer(q.to) = e
      BY <1>2, <2>2, PeerFacts, Zenon DEF Sent, NewAck, NewFinPacket, NewRst
    <3>2. CASE \E u \in unacked[e] : u.val # 0 /\ q.seq = u.seq /\ q.val = u.val
      BY <1>1, <2>2, <3>1, <3>2, Zenon
    <3>3. CASE Sends(e) /\ q.seq = sendSeq[e] /\ q.val = written[e] + 1
      BY <2>2, <3>1, <3>3, NewSegGood, Zenon
    <3> QED BY <3>1, <3>2, <3>3, Zenon DEF NewSeg
  <2> QED BY <1>2, <2>1, <2>2, Zenon DEF Step, PacketStep
<1>3. ASSUME NEW e \in Endpoint, NEW w \in unacked'[e], w.val # 0
      PROVE  GoodSeg(e, w.seq, w.val)'
  <2>1. CASE Copied(e, w)
    BY <1>1, <1>3, <2>1, Zenon DEF Copied
  <2>2. CASE NewData(e, w)
    <3>1. Sends(e) /\ w.seq = sendSeq[e] /\ w.val = written[e] + 1
      BY <2>2, Zenon DEF NewData, DataEntry
    <3> QED BY <1>3, <3>1, NewSegGood, Zenon
  <2>3. CASE NewFin(e, w)
    BY <1>3, <2>3, Zenon DEF NewFin
  <2> QED BY <1>3, <2>1, <2>2, <2>3, Zenon DEF Step, UnackedStep, Tracked
<1>4. ASSUME NEW e \in Endpoint PROVE HoldsGood(e)'
  BY <1>4, HoldsGoodNext, Zenon DEF Step
<1> QED BY <1>2, <1>3, <1>4, Zenon DEF SegInv, HoldsGood

(* Acknowledgements do not run ahead of delivery.                          *)
LEMMA AckInvNext ==
  ASSUME TypeOK, TypeOK', AckInv, Step PROVE AckInv'
<1>1. \A f \in Endpoint : /\ expected[f] \in Nat /\ expected'[f] \in Nat
                          /\ expected[f] <= expected'[f]
  BY ExpectedGrows, Zenon DEF Step, TypeOK
<1>2. ASSUME NEW q \in net' PROVE q.ack <= expected'[Peer(q.to)]
  <2>1. CASE q \in net
    <3> DEFINE f == Peer(q.to)
    <3>1. f \in Endpoint /\ q.ack \in Nat /\ q.ack <= expected[f]
      BY <2>1, PacketFacts, Zenon DEF AckInv
    <3> HIDE DEF f
    <3>2. expected[f] \in Nat /\ expected'[f] \in Nat /\ expected[f] <= expected'[f]
      BY <1>1, <3>1, Zenon
    <3>3. q.ack <= expected'[f]
      BY <3>1, <3>2, SMTT(30)
    <3> QED BY <3>3, Zenon DEF f
  <2>2. ASSUME NEW e \in Endpoint, Sent(e, q) PROVE q.ack <= expected'[Peer(q.to)]
    <3>1. q.to = Peer(e) /\ Peer(q.to) = e
      BY <2>2, PeerFacts, Zenon DEF Sent
    <3>2. q.ack \in {0, expected[e], expected'[e]}
      BY <2>2, Zenon DEF Sent, NewSeg, NewAck, NewFinPacket, NewRst
    <3>3. expected[e] \in Nat /\ expected'[e] \in Nat /\ expected[e] <= expected'[e]
      BY <1>1, <2>2, Zenon
    <3> QED BY <3>1, <3>2, <3>3, SMTT(30)
  <2> QED BY <1>2, <2>1, <2>2, Zenon DEF Step, PacketStep
<1>3. ASSUME NEW e \in Endpoint PROVE lastAck'[e] <= expected'[Peer(e)]
  <2>1. CASE lastAck'[e] = lastAck[e]
    <3>1. Peer(e) \in Endpoint /\ lastAck[e] \in Nat
      BY <1>3, EndTypes, PeerFacts, Zenon
    <3>2. lastAck[e] <= expected[Peer(e)]
      BY <1>3, Zenon DEF AckInv
    <3>3. /\ expected[Peer(e)] \in Nat /\ expected'[Peer(e)] \in Nat
          /\ expected[Peer(e)] <= expected'[Peer(e)]
      BY <1>1, <3>1, Zenon
    <3> QED BY <2>1, <3>1, <3>2, <3>3, SMTT(30)
  <2>2. ASSUME NEW p \in net, p.to = e, lastAck'[e] = p.ack PROVE lastAck'[e] <= expected'[Peer(e)]
    <3> DEFINE f == Peer(p.to)
    <3>1. f \in Endpoint /\ p.ack \in Nat /\ p.ack <= expected[f]
      BY <2>2, PacketFacts, Zenon DEF AckInv
    <3> HIDE DEF f
    <3>2. expected[f] \in Nat /\ expected'[f] \in Nat /\ expected[f] <= expected'[f]
      BY <1>1, <3>1, Zenon
    <3>3. p.ack <= expected'[f]
      BY <3>1, <3>2, SMTT(30)
    <3> QED BY <2>2, <3>3, Zenon DEF f
  <2> QED BY <1>3, <2>1, <2>2, Zenon DEF Step, EndStep, AckTaken
<1> QED BY <1>2, <1>3, Zenon DEF AckInv

(* Every FIN is still at or after the first.                               *)
LEMMA FinInvNext ==
  ASSUME TypeOK, TypeOK', SendInv, FinInv, Step PROVE FinInv'
<1>1. ASSUME NEW e \in Endpoint, NEW s \in Nat, GoodFin(e, s) PROVE GoodFin(e, s)'
  BY <1>1, FinStable, Zenon DEF GoodFin, Step
<1>2. ASSUME NEW e \in Endpoint, Marks(e), NEW s, s = sendSeq[e] PROVE GoodFin(e, s)'
  BY <1>2, SenderTypes, SMTT(30) DEF GoodFin, Marks, SendInv
<1>3. ASSUME NEW e \in Endpoint, NEW u \in unacked[e], u.val = 0 PROVE GoodFin(e, u.seq)'
  BY <1>1, <1>3, EntryFacts, Zenon DEF FinInv
<1>4. ASSUME NEW e \in Endpoint, NEW s, FinOf(e, s) PROVE GoodFin(e, s)'
  <2>1. s \in Nat
    BY <1>4, EndTypes, SMTT(30) DEF FinOf
  <2>2. GoodFin(e, s)
    BY <1>4, Zenon DEF FinOf, FinInv
  <2> QED BY <1>1, <1>4, <2>1, <2>2, Zenon
<1>5. ASSUME NEW q \in net', q.kind \in {"fin", "finack"} PROVE GoodFin(Peer(q.to), q.seq)'
  <2>1. CASE q \in net
    BY <1>1, <1>5, <2>1, PacketFacts, Zenon DEF FinInv
  <2>2. ASSUME NEW e \in Endpoint, Sent(e, q) PROVE GoodFin(Peer(q.to), q.seq)'
    <3>1. NewFinPacket(e, q) /\ Peer(q.to) = e
      BY <1>5, <2>2, PeerFacts, Zenon DEF Sent, NewSeg, NewAck, NewRst
    <3> QED BY <1>2, <1>3, <1>4, <2>2, <3>1, Zenon DEF NewFinPacket
  <2> QED BY <1>5, <2>1, <2>2, Zenon DEF Step, PacketStep
<1>6. ASSUME NEW e \in Endpoint PROVE FinKept(e)
  BY <1>6, Zenon DEF Step, EndStep
<1>7. ASSUME NEW e \in Endpoint, heldFin'[e] # 0 PROVE GoodFin(e, heldFin[e])'
  <2>1. CASE heldFin'[e] = heldFin[e]
    BY <1>1, <1>7, <2>1, EndTypes, Zenon DEF FinInv, GoodFin
  <2>2. CASE Reserves(e) /\ heldFin'[e] = sendSeq[e]
    BY <1>2, <1>7, <2>2, Zenon DEF Reserves, GoodFin
  <2> QED BY <1>6, <1>7, <2>1, <2>2, Zenon DEF FinKept
<1>8. ASSUME NEW e \in Endpoint, finPending'[e] # 0 PROVE GoodFin(Peer(e), finPending[e])'
  <2>1. CASE finPending'[e] = finPending[e]
    BY <1>1, <1>8, <2>1, EndTypes, PeerFacts, Zenon DEF FinInv, GoodFin
  <2>2. ASSUME NEW p \in net, p.to = e, p.kind \in {"fin", "finack"}, finPending'[e] = p.seq
        PROVE  GoodFin(Peer(e), finPending[e])'
    BY <1>1, <2>2, PacketFacts, Zenon DEF FinInv, GoodFin
  <2> QED BY <1>6, <1>8, <2>1, <2>2, Zenon DEF FinKept
<1>9. ASSUME NEW e \in Endpoint, NEW w \in unacked'[e], w.val = 0 PROVE GoodFin(e, w.seq)'
  <2>1. CASE Copied(e, w)
    BY <1>3, <1>9, <2>1, Zenon DEF Copied
  <2>2. CASE NewData(e, w)
    <3>1. w.val = written[e] + 1
      BY <2>2, Zenon DEF NewData, DataEntry
    <3>2. written[e] \in Nat
      BY <1>9, SenderTypes, Zenon
    <3>3. w.val # 0
      BY <3>1, <3>2, SMTT(30)
    <3> QED BY <1>9, <3>3, Zenon
  <2>3. CASE NewFin(e, w)
    BY <1>4, <1>9, <2>3, Zenon DEF NewFin
  <2> QED BY <1>9, <2>1, <2>2, <2>3, Zenon DEF Step, UnackedStep, Tracked
<1>10. ASSUME NEW e \in Endpoint, NEW c \in Closer, cl'[e][c].pc = "fin"
       PROVE  GoodFin(e, cl[e][c].fin)'
  <2>1. CASE cl[e][c].pc = "fin" /\ cl'[e][c].fin = cl[e][c].fin
    BY <1>1, <1>10, <2>1, EndTypes, Zenon DEF FinInv, GoodFin
  <2>2. CASE Reserves(e) /\ cl'[e][c].fin = sendSeq[e]
    BY <1>2, <1>10, <2>2, Zenon DEF Reserves, GoodFin
  <2>3. \/ cl[e][c].pc = "fin" /\ cl'[e][c].fin = cl[e][c].fin
        \/ Reserves(e) /\ cl'[e][c].fin = sendSeq[e]
    BY <1>6, <1>10, Zenon DEF FinKept
  <2> QED BY <2>1, <2>2, <2>3, Zenon
<1> QED BY <1>5, <1>7, <1>8, <1>9, <1>10, Zenon DEF FinInv

(* What is SACKed is still held.                                           *)
LEMMA SackInvNext ==
  ASSUME TypeOK, TypeOK', RecvInv, SackInv, Step PROVE SackInv'
<1>1. ASSUME NEW e \in Endpoint, NEW n \in Nat, Held(e, n) PROVE Held(e, n)'
  BY <1>1, HeldStable, Zenon DEF Step
<1>2. ASSUME NEW q \in net', NEW n \in q.sack PROVE Held(Peer(q.to), n)'
  <2>1. CASE q \in net
    BY <1>1, <1>2, <2>1, PacketFacts, Zenon DEF SackInv
  <2>2. ASSUME NEW e \in Endpoint, Sent(e, q) PROVE Held(Peer(q.to), n)'
    <3>1. n \in DOMAIN ooo'[e] /\ Peer(q.to) = e
      BY <1>2, <2>2, PeerFacts, Zenon DEF Sent, NewSeg, NewAck, NewFinPacket, NewRst
    <3> QED BY <3>1, Zenon DEF Held
  <2> QED BY <1>2, <2>1, <2>2, Zenon DEF Step, PacketStep
<1>3. ASSUME NEW e \in Endpoint, NEW s \in Nat, SackedOnWire(e, s) PROVE Held(Peer(e), s)'
  <2>1. PICK p \in net : p.to = e /\ s \in p.sack
    BY <1>3, Zenon DEF SackedOnWire
  <2>2. Held(Peer(e), s) /\ Peer(e) \in Endpoint
    BY <2>1, PacketFacts, Zenon DEF SackInv
  <2> QED BY <1>1, <1>3, <2>2, Zenon
<1>4. ASSUME NEW e \in Endpoint, NEW w \in unacked'[e], w.sacked PROVE Held(Peer(e), w.seq)'
  <2>0. w.seq \in Nat /\ Peer(e) \in Endpoint
    <3>1. unacked' \in [Endpoint -> SUBSET Entry]
      BY Zenon DEF TypeOK
    <3>2. w \in Entry
      BY <1>4, <3>1, Zenon
    <3> QED BY <1>4, <3>2, PeerFacts, Zenon DEF Entry
  <2>1. CASE Copied(e, w)
    <3>1. PICK u \in unacked[e] : u.seq = w.seq /\ (u.sacked \/ SackedOnWire(e, w.seq))
      BY <1>4, <2>1, Zenon DEF Copied
    <3>2. CASE u.sacked
      <4>1. Held(Peer(e), w.seq)
        BY <1>4, <3>1, <3>2, Zenon DEF SackInv
      <4> QED BY <1>1, <2>0, <4>1, Zenon
    <3> QED BY <1>3, <1>4, <2>0, <3>1, <3>2, Zenon
  <2>2. CASE NewData(e, w)
    BY <1>4, <2>2, Zenon DEF NewData, DataEntry
  <2>3. CASE NewFin(e, w)
    BY <1>3, <1>4, <2>0, <2>3, Zenon DEF NewFin
  <2> QED BY <1>4, <2>1, <2>2, <2>3, Zenon DEF Step, UnackedStep, Tracked
<1> QED BY <1>2, <1>4, Zenon DEF SackInv

(* A clean end still has everything before the FIN.                        *)
LEMMA CleanEndNext ==
  ASSUME TypeOK, TypeOK', RecvInv, RecvInv', FinInv, CleanEnd, Step PROVE CleanEnd'
<1> SUFFICES ASSUME NEW f \in Endpoint, eof'[f] = "fin"
             PROVE  finSeq'[Peer(f)] # 0 /\ Len(recv'[f]) >= finSeq'[Peer(f)] - 1
  BY Zenon DEF CleanEnd
<1> DEFINE q == Peer(f)
           L == Len(recv[f])
           N == Len(recv'[f])
<1>1. q \in Endpoint /\ L \in Nat /\ N \in Nat /\ finSeq[q] \in Nat
  <2>1. q \in Endpoint /\ L \in Nat
    BY PeerFacts, ReceiverTypes, Zenon
  <2>2. recv'[f] \in Seq(Nat)
    BY Zenon DEF TypeOK
  <2> HIDE DEF q
  <2>3. finSeq[q] \in Nat
    BY <2>1, SenderTypes, Zenon
  <2> QED BY <2>1, <2>2, <2>3, SMTT(30)
<1>2. L <= N
  <2>1. ASSUME NEW e \in Endpoint, Pushes(e) PROVE L <= N
    <3>1. CASE e = f
      <4>1. recv'[f] = Append(recv[f], rl[f].todo[rl[f].done + 1]) /\ recv[f] \in Seq(Nat)
        BY <2>1, <3>1, PushKeeps, ReceiverTypes, Zenon
      <4>2. rl[f].todo[rl[f].done + 1] \in Nat
        BY <2>1, <3>1, ReceiverTypes, SMTT(30) DEF Pushes
      <4> QED BY <4>1, <4>2, SMTT(30)
    <3>2. CASE e # f
      <4>1. recv'[f] = recv[f]
        BY <2>1, <3>2, PushKeeps, Zenon
      <4> QED BY <1>1, <4>1, SMTT(30)
    <3> QED BY <3>1, <3>2, Zenon
  <2>2. CASE recv' = recv
    BY <1>1, <2>2, SMTT(30)
  <2> QED BY <2>1, <2>2, Zenon DEF Step, ReceiverStep, Arrives, Commits, Turns
<1>3. finSeq[q] # 0 /\ L >= finSeq[q] - 1
  <2>1. /\ expected[f] + rl[f].done = L + 1
        /\ expected[f] \in Nat /\ rl[f].done \in Nat
    BY ReceiverTypes, Zenon DEF RecvInv
  <2>2. CASE eof[f] = "fin"
    BY <2>2, Zenon DEF CleanEnd
  <2>3. CASE finPending[f] # 0 /\ finPending[f] <= expected[f] + rl[f].done
    <3>1. finSeq[q] # 0 /\ finSeq[q] <= finPending[f] /\ finPending[f] \in Nat
      BY <2>3, EndTypes, Zenon DEF FinInv, GoodFin
    <3> DEFINE x == expected[f] + rl[f].done
               n == finSeq[q]
               g == finPending[f]
    <3>2. /\ n \in Nat /\ g \in Nat /\ L \in Nat /\ x = L + 1 /\ n <= g /\ g <= x
      BY <1>1, <2>1, <2>3, <3>1, Zenon
    <3> HIDE DEF L, x, n, g
    <3>3. L >= n - 1
      BY <3>2, SMTT(30)
    <3> QED BY <3>1, <3>3, Zenon DEF n
  <2>4. ASSUME NEW p \in net, p.to = f, p.kind \in {"fin", "finack"}, p.seq <= expected[f]
        PROVE  finSeq[q] # 0 /\ L >= finSeq[q] - 1
    <3>1. finSeq[q] # 0 /\ finSeq[q] <= p.seq /\ p.seq \in Nat
      BY <2>4, PacketFacts, Zenon DEF FinInv, GoodFin
    <3> DEFINE x == expected[f]
               d == rl[f].done
               n == finSeq[q]
               g == p.seq
    <3>2. /\ n \in Nat /\ g \in Nat /\ L \in Nat /\ x \in Nat /\ d \in Nat
          /\ x + d = L + 1 /\ n <= g /\ g <= x
      BY <1>1, <2>1, <2>4, <3>1, Zenon
    <3> HIDE DEF L, x, d, n, g
    <3>3. L >= n - 1
      BY <3>2, SMTT(30)
    <3> QED BY <3>1, <3>3, Zenon DEF n
  <2> QED BY <2>2, <2>3, <2>4, Zenon DEF Step, EndStep, CleanlyEnded
<1>4. finSeq'[q] = finSeq[q]
  BY <1>1, <1>3, FinStable, Zenon DEF Step
<1> HIDE DEF q, L, N
<1>5. finSeq'[q] # 0 /\ N >= finSeq'[q] - 1
  BY <1>1, <1>2, <1>3, <1>4, SMTT(30)
<1> QED BY <1>5, Zenon DEF q, N

(* Initially nothing is on the wire, buffered or closed.                   *)
LEMMA InvInit == Init => IInv
<1> SUFFICES ASSUME Init PROVE IInv
  BY Zenon
<1>1. TypeOK
  BY TypeInit, Zenon
<1>2. ASSUME NEW e \in Endpoint
      PROVE  /\ sendSeq[e] = 1 /\ written[e] = 0 /\ finSeq[e] = 0 /\ lastAck[e] = 0
             /\ unacked[e] = {} /\ expected[e] = 1 /\ ooo[e] = <<>> /\ recv[e] = <<>>
             /\ rl[e].todo = <<>> /\ rl[e].done = 0
  BY <1>2, Zenon DEF Init
<1>3. net = {}
  BY Zenon DEF Init
<1>5. ASSUME NEW e \in Endpoint PROVE ~Reserved(e) /\ Peer(e) \in Endpoint
  <2>1. sendSeq[e] = 1 /\ written[e] = 0
    BY <1>2, <1>5, Zenon
  <2> QED BY <1>5, <2>1, PeerFacts, SMTT(30) DEF Reserved
<1>6. SendInv
  <2> SUFFICES ASSUME NEW e \in Endpoint
               PROVE  /\ written[e] + 1 <= sendSeq[e] /\ finSeq[e] <= sendSeq[e]
                      /\ finSeq[e] = 0 /\ ~Reserved(e)
    BY Zenon DEF SendInv
  <2>1. sendSeq[e] = 1 /\ written[e] = 0 /\ finSeq[e] = 0 /\ ~Reserved(e)
    BY <1>2, <1>5, Zenon
  <2> QED BY <2>1, SMTT(30)
<1>7. SegInv
  <2>1. ASSUME NEW e \in Endpoint
        PROVE  unacked[e] = {} /\ DOMAIN ooo[e] = {} /\ 1 .. Len(rl[e].todo) = {}
    <3>1. unacked[e] = {} /\ ooo[e] = <<>> /\ rl[e].todo = <<>>
      BY <1>2, <2>1, Zenon
    <3> QED BY <3>1, SMTT(30)
  <2> QED BY <1>3, <2>1, Zenon DEF SegInv
<1>8. RecvInv
  <2> SUFFICES ASSUME NEW e \in Endpoint
               PROVE  /\ expected[e] + rl[e].done = Len(recv[e]) + 1
                      /\ rl[e].done <= Len(rl[e].todo)
                      /\ rl[e].todo = <<>> /\ rl[e].done = 0
                      /\ Len(recv[e]) <= written[Peer(e)]
                      /\ \A i \in 1 .. Len(recv[e]) : recv[e][i] = i
                      /\ ~Reserved(Peer(e))
    BY Zenon DEF RecvInv
  <2>1. expected[e] = 1 /\ recv[e] = <<>> /\ rl[e].todo = <<>> /\ rl[e].done = 0
    BY <1>2, Zenon
  <2>2. written[Peer(e)] = 0 /\ ~Reserved(Peer(e))
    BY <1>2, <1>5, Zenon
  <2>3. Len(recv[e]) = 0 /\ Len(rl[e].todo) = 0
    BY <2>1, Zenon
  <2> QED BY <2>1, <2>2, <2>3, SMTT(30)
<1>9. AckInv
  <2>1. ASSUME NEW e \in Endpoint PROVE lastAck[e] <= expected[Peer(e)]
    <3>1. lastAck[e] = 0 /\ expected[Peer(e)] = 1
      BY <1>2, <1>5, <2>1, Zenon
    <3> QED BY <3>1, SMTT(30)
  <2> QED BY <1>3, <2>1, Zenon DEF AckInv
<1>4. FinInv /\ SackInv /\ CleanEnd
  BY Zenon DEF Init, FinInv, SackInv, CleanEnd
<1> QED BY <1>1, <1>4, <1>6, <1>7, <1>8, <1>9, Zenon DEF IInv

(* The invariant is inductive.                                             *)
LEMMA InvNext == IInv /\ [Next]_vars => IInv'
<1> SUFFICES ASSUME IInv, [Next]_vars PROVE IInv'
  BY Zenon
<1>1. TypeOK /\ SendInv /\ SegInv /\ RecvInv /\ AckInv /\ FinInv /\ SackInv /\ CleanEnd
  BY Zenon DEF IInv
<1>2. TypeOK' /\ Step
  BY <1>1, TypeNext, Steps, Zenon
<1>3. SendInv'
  BY <1>1, <1>2, SendInvNext, Zenon DEF Step
<1>4. SegInv' /\ RecvInv'
  BY <1>1, <1>2, SegInvNext, RecvInvNext, Zenon DEF Step
<1>5. AckInv' /\ FinInv' /\ SackInv'
  BY <1>1, <1>2, AckInvNext, FinInvNext, SackInvNext, Zenon
<1>6. CleanEnd'
  BY <1>1, <1>2, <1>4, CleanEndNext, Zenon
<1> QED BY <1>2, <1>3, <1>4, <1>5, <1>6, Zenon DEF IInv

(* So it holds throughout.                                                 *)
LEMMA Invariance == Spec => []IInv
BY InvInit, InvNext, PTL DEF Spec

-----------------------------------------------------------------------------
(* The theorems.                                                           *)

(* What the application has been given is the beginning of what the peer   *)
(* wrote, for any buffer sizes, any number of closers, and any loss,       *)
(* duplication or reordering (DeliverInOrder, transmitSegment,             *)
(* CloseConnection).                                                       *)
THEOREM DeliveredInOrder == Spec => []InOrder
<1>1. IInv => InOrder
  BY Zenon DEF IInv, RecvInv, InOrder
<1> QED BY <1>1, Invariance, PTL

(* A cumulative ACK is believed only for segments that reached the peer's  *)
(* RecvBuf (ProcessAck against DeliverInOrder's phases).                   *)
THEOREM AcknowledgedDelivered == Spec => []AckedWasDelivered
<1>1. IInv => AckedWasDelivered
  <2> SUFFICES ASSUME IInv, NEW e \in Endpoint PROVE lastAck[e] <= Len(recv[Peer(e)]) + 1
    BY Zenon DEF AckedWasDelivered
  <2>1. TypeOK /\ Peer(e) \in Endpoint
    BY PeerFacts, Zenon DEF IInv
  <2>2. lastAck[e] <= expected[Peer(e)] /\ expected[Peer(e)] + rl[Peer(e)].done = Len(recv[Peer(e)]) + 1
    BY <2>1, Zenon DEF IInv, AckInv, RecvInv
  <2>3. lastAck[e] \in Nat /\ expected[Peer(e)] \in Nat /\ rl[Peer(e)].done \in Nat /\ Len(recv[Peer(e)]) \in Nat
    BY <2>1, EndTypes, ReceiverTypes, Zenon
  <2> DEFINE a == lastAck[e]
             x == expected[Peer(e)]
             d == rl[Peer(e)].done
             L == Len(recv[Peer(e)])
  <2>4. a \in Nat /\ x \in Nat /\ d \in Nat /\ L \in Nat /\ a <= x /\ x + d = L + 1
    BY <2>2, <2>3, Zenon
  <2> HIDE DEF a, x, d, L
  <2>5. a <= L + 1
    BY <2>4, SMTT(30)
  <2> QED BY <2>5, Zenon DEF a, L
<1> QED BY <1>1, Invariance, PTL

(* A segment skipped by retransmission because it was SACKed is held by    *)
(* the peer (ProcessSACK against the re-buffering of DeliverInOrder).      *)
THEOREM SackedHeld == Spec => []SackedIsHeld
<1>1. IInv => SackedIsHeld
  <2> SUFFICES ASSUME IInv, NEW e \in Endpoint, NEW u \in unacked[e], u.sacked
               PROVE  \/ u.seq < expected[Peer(e)] + Len(rl[Peer(e)].todo)
                      \/ u.seq \in DOMAIN ooo[Peer(e)]
    BY Zenon DEF SackedIsHeld
  <2>1. TypeOK /\ Peer(e) \in Endpoint /\ Held(Peer(e), u.seq)
    BY PeerFacts, Zenon DEF IInv, SackInv
  <2>2. u.seq \in Nat /\ expected[Peer(e)] \in Nat /\ Len(rl[Peer(e)].todo) \in Nat
    BY <2>1, EntryFacts, ReceiverTypes, Zenon
  <2> DEFINE x == expected[Peer(e)]
             N == Len(rl[Peer(e)].todo)
  <2>3. u.seq < x \/ u.seq \in DOMAIN ooo[Peer(e)] \/ u.seq < x + N
    BY <2>1, Zenon DEF Held
  <2>4. u.seq \in Nat /\ x \in Nat /\ N \in Nat
    BY <2>2, Zenon
  <2> HIDE DEF x, N
  <2>5. u.seq < x => u.seq < x + N
    BY <2>4, SMTT(30)
  <2>6. u.seq < x + N \/ u.seq \in DOMAIN ooo[Peer(e)]
    BY <2>3, <2>5, Zenon
  <2> QED BY <2>6, Zenon DEF x, N
<1> QED BY <1>1, Invariance, PTL

(* A stream that ended with the peer's FIN delivered all that was sent     *)
(* before it (the FIN branch of handleStreamPacket, acceptFIN).            *)
THEOREM EndsClean == Spec => []CleanEnd
<1>1. IInv => CleanEnd
  BY Zenon DEF IInv
<1> QED BY <1>1, Invariance, PTL

-----------------------------------------------------------------------------
(* Sequence numbers.  A data segment of e lives in e's retransmission      *)
(* buffer and on the wire; a FIN lives there too, and before that in the   *)
(* hands of a closer or held.                                              *)

OnWire(e, s, v) ==
  \E p \in net : p.kind = "seg" /\ p.to = Peer(e) /\ p.seq = s /\ p.val = v
InBuffer(e, s, v) == \E u \in unacked[e] : u.seq = s /\ u.val = v
DataAt(e, s, v) == v # 0 /\ (OnWire(e, s, v) \/ InBuffer(e, s, v))

FinAt(e, s) ==
  \/ \E p \in net : p.kind = "fin" /\ p.to = Peer(e) /\ p.seq = s
  \/ InBuffer(e, s, 0)
  \/ FinOf(e, s)

NumberInv ==
  /\ \A p \in net : p.kind = "fin" => p.val = 0
  /\ \A e \in Endpoint : \A s \in Nat :
       /\ \A v, w \in Nat : DataAt(e, s, v) /\ DataAt(e, s, w) => v = w
       /\ \A v \in Nat : DataAt(e, s, v) => ~FinAt(e, s)
       /\ FinAt(e, s) => s < sendSeq[e]

(* Data takes a sequence number only when it is first sent.                *)
LEMMA DataAtStep ==
  ASSUME TypeOK, UnackedStep, PacketStep, NEW e \in Endpoint,
         NEW s \in Nat, NEW v \in Nat, DataAt(e, s, v)'
  PROVE  DataAt(e, s, v) \/ (Sends(e) /\ s = sendSeq[e] /\ v = written[e] + 1)
<1>1. v # 0
  BY Zenon DEF DataAt
<1>2. CASE InBuffer(e, s, v)'
  <2>1. PICK w \in unacked'[e] : w.seq = s /\ w.val = v
    BY <1>2, Zenon DEF InBuffer
  <2>2. Tracked(e, w)
    BY Zenon DEF UnackedStep
  <2>3. CASE Copied(e, w)
    BY <1>1, <2>1, <2>3, Zenon DEF Copied, DataAt, InBuffer
  <2>4. CASE NewData(e, w)
    BY <2>1, <2>4, Zenon DEF NewData, DataEntry
  <2>5. CASE NewFin(e, w)
    BY <1>1, <2>1, <2>5, Zenon DEF NewFin
  <2> QED BY <2>2, <2>3, <2>4, <2>5, SMTT(30) DEF Tracked
<1>3. CASE OnWire(e, s, v)'
  <2>1. PICK q \in net' : q.kind = "seg" /\ q.to = Peer(e) /\ q.seq = s /\ q.val = v
    BY <1>3, Zenon DEF OnWire
  <2>2. CASE q \in net
    BY <1>1, <2>1, <2>2, Zenon DEF DataAt, OnWire
  <2>3. ASSUME NEW f \in Endpoint, Sent(f, q)
        PROVE  DataAt(e, s, v) \/ (Sends(e) /\ s = sendSeq[e] /\ v = written[e] + 1)
    <3>1. f = e /\ NewSeg(f, q)
      BY <2>1, <2>3, PeerFacts, Zenon DEF Sent, NewAck, NewFinPacket, NewRst
    <3> QED BY <1>1, <2>1, <3>1, Zenon DEF NewSeg, DataAt, InBuffer
  <2> QED BY <2>2, <2>3, Zenon DEF PacketStep
<1> QED BY <1>2, <1>3, Zenon DEF DataAt

(* A FIN takes one only when CloseConnection reserves it, unless a daemon  *)
(* stops.                                                                  *)
LEMMA FinAtStep ==
  ASSUME Stopping = {}, TypeOK, UnackedStep, PacketStep, EndStep, NEW e \in Endpoint,
         NEW s \in Nat, FinAt(e, s)'
  PROVE  FinAt(e, s) \/ (Reserves(e) /\ s = sendSeq[e])
<1>1. CASE InBuffer(e, s, 0)'
  <2>1. PICK w \in unacked'[e] : w.seq = s /\ w.val = 0
    BY <1>1, Zenon DEF InBuffer
  <2>2. Tracked(e, w)
    BY Zenon DEF UnackedStep
  <2>3. CASE Copied(e, w)
    BY <2>1, <2>3, Zenon DEF Copied, FinAt, InBuffer
  <2>4. CASE NewData(e, w)
    <3>1. w.val = written[e] + 1 /\ written[e] \in Nat
      BY <2>4, SenderTypes, Zenon DEF NewData, DataEntry
    <3> QED BY <2>1, <3>1, SMTT(30)
  <2>5. CASE NewFin(e, w)
    BY <2>1, <2>5, Zenon DEF NewFin, FinAt
  <2> QED BY <2>2, <2>3, <2>4, <2>5, Zenon DEF Tracked
<1>2. CASE FinOf(e, s)'
  <2>1. FinKept(e)
    BY Zenon DEF EndStep
  <2>2. CASE heldFin'[e] # 0 /\ s = heldFin'[e]
    BY <2>1, <2>2, Zenon DEF FinKept, FinAt, FinOf
  <2>3. ASSUME NEW c \in Closer, cl'[e][c].pc = "fin", s = cl'[e][c].fin
        PROVE  FinAt(e, s) \/ (Reserves(e) /\ s = sendSeq[e])
    BY <2>1, <2>3, Zenon DEF FinKept, FinAt, FinOf
  <2> QED BY <1>2, <2>2, <2>3, Zenon DEF FinOf
<1>3. ASSUME NEW q \in net', q.kind = "fin", q.to = Peer(e), q.seq = s
      PROVE  FinAt(e, s)
  <2>1. CASE q \in net
    BY <1>3, <2>1, Zenon DEF FinAt
  <2>2. ASSUME NEW f \in Endpoint, Sent(f, q) PROVE FinAt(e, s)
    <3>1. f = e /\ NewFinPacket(f, q) /\ ~Stop(f)
      BY <1>3, <2>2, PeerFacts, Zenon DEF Sent, NewAck, NewSeg, NewRst, Stop
    <3> QED BY <1>3, <3>1, Zenon DEF NewFinPacket, FinAt, InBuffer
  <2> QED BY <2>1, <2>2, Zenon DEF PacketStep
<1> QED BY <1>1, <1>2, <1>3, Zenon DEF FinAt

(* Data that exists has a number below the next one.                       *)
LEMMA DataBelow ==
  ASSUME TypeOK, SegInv, NEW e \in Endpoint, NEW s \in Nat, NEW v \in Nat, DataAt(e, s, v)
  PROVE  s < sendSeq[e]
<1>1. CASE InBuffer(e, s, v)
  <2>1. PICK u \in unacked[e] : u.seq = s /\ u.val = v
    BY <1>1, Zenon DEF InBuffer
  <2>2. GoodSeg(e, u.seq, u.val)
    BY <2>1, Zenon DEF DataAt, SegInv
  <2> QED BY <2>1, <2>2, Zenon DEF GoodSeg
<1>2. CASE OnWire(e, s, v)
  <2>1. PICK p \in net : p.kind = "seg" /\ p.to = Peer(e) /\ p.seq = s /\ p.val = v
    BY <1>2, Zenon DEF OnWire
  <2>2. Peer(p.to) = e
    BY <2>1, PeerFacts, Zenon
  <2> QED BY <2>1, <2>2, Zenon DEF SegInv, GoodSeg
<1> QED BY <1>1, <1>2, Zenon DEF DataAt

(* A number that was given stays given to one thing.                       *)
LEMMA NumberInvNext ==
  ASSUME Stopping = {}, TypeOK, TypeOK', SegInv, SendInv, NumberInv, Step PROVE NumberInv'
<1>0. \A q \in net' : q.kind = "fin" => q.val = 0
  BY Zenon DEF NumberInv, Step, PacketStep, Sent, NewSeg, NewAck, NewRst, NewFinPacket
<1> SUFFICES ASSUME NEW e \in Endpoint, NEW s \in Nat
             PROVE  /\ \A v, w \in Nat : DataAt(e, s, v)' /\ DataAt(e, s, w)' => v = w
                    /\ \A v \in Nat : DataAt(e, s, v)' => ~FinAt(e, s)'
                    /\ FinAt(e, s)' => s < sendSeq'[e]
  BY <1>0, Zenon DEF NumberInv
<1>1. \A v \in Nat : DataAt(e, s, v)' =>
         DataAt(e, s, v) \/ (Sends(e) /\ s = sendSeq[e] /\ v = written[e] + 1)
  BY DataAtStep, Zenon DEF Step
<1>2. FinAt(e, s)' => FinAt(e, s) \/ (Reserves(e) /\ s = sendSeq[e])
  BY FinAtStep, Zenon DEF Step
<1>3. \A v \in Nat : DataAt(e, s, v) => s < sendSeq[e]
  BY DataBelow, Zenon
<1>4. sendSeq[e] \in Nat /\ written[e] \in Nat /\ sendSeq'[e] \in Nat
  BY Zenon DEF TypeOK
<1>5. /\ sendSeq[e] <= sendSeq'[e]
      /\ Reserves(e) => sendSeq'[e] = sendSeq[e] + 1
      /\ Reserves(e) => ~Sends(e)
  <2>1. Reserves(e) => sendSeq'[e] = sendSeq[e] + 1 /\ written'[e] = written[e]
    BY SenderTypes, Zenon DEF Reserves
  <2>2. Sends(e) => written'[e] = written[e] + 1
    BY SenderTypes, Zenon DEF Sends
  <2>3. sendSeq[e] <= sendSeq'[e]
    BY SenderTypes, SMTT(30) DEF Step, SenderStep, Sends, Reserves, Ends
  <2> QED BY <1>4, <2>1, <2>2, <2>3, SMTT(30)
<1>6. /\ \A v, w \in Nat : DataAt(e, s, v) /\ DataAt(e, s, w) => v = w
      /\ \A v \in Nat : DataAt(e, s, v) => ~FinAt(e, s)
      /\ FinAt(e, s) => s < sendSeq[e]
  BY Zenon DEF NumberInv
<1>7. /\ s < sendSeq[e] => s # sendSeq[e] /\ s < sendSeq'[e]
      /\ Reserves(e) /\ s = sendSeq[e] => s < sendSeq'[e]
  BY <1>4, <1>5, SMTT(30)
<1> QED BY <1>1, <1>2, <1>3, <1>5, <1>6, <1>7, Zenon

(* A segment is no FIN, whose value is 0.                                  *)
LEMMA SegNotFin ==
  ASSUME NEW e, NEW s, NEW v \in Nat, GoodSeg(e, s, v) PROVE v # 0
<1>1. 1 <= v
  BY Zenon DEF GoodSeg
<1> QED BY <1>1, SMTT(30)

(* Initially there is nothing that has a number.                           *)
LEMMA NumberInvInit == Init => NumberInv
<1> SUFFICES ASSUME Init, NEW e \in Endpoint, NEW s \in Nat
             PROVE  ~FinAt(e, s) /\ \A v \in Nat : ~DataAt(e, s, v)
  BY Zenon DEF NumberInv, Init
<1>1. net = {} /\ unacked[e] = {} /\ heldFin[e] = 0 /\ \A c \in Closer : cl[e][c].pc = "idle"
  BY Zenon DEF Init
<1> QED BY <1>1, Zenon DEF FinAt, DataAt, OnWire, InBuffer, FinOf

(* A sequence number stands for one segment or for the FIN, whoever        *)
(* writes and closes at the same time, unless a daemon is stopped          *)
(* (transmitSegment and CloseConnection reserve under Mu).                 *)
THEOREM NumbersNotShared == Stopping = {} /\ Spec => []SeqNotShared
<1> DEFINE Kept2 == IInv /\ NumberInv /\ Stopping = {}
<1>1. Stopping = {} /\ Init => Kept2
  BY InvInit, NumberInvInit, Zenon
<1>2. Kept2 /\ [Next]_vars => Kept2'
  <2> SUFFICES ASSUME Kept2, [Next]_vars PROVE Kept2'
    BY Zenon
  <2>1. IInv' /\ IInv
    BY InvNext, Zenon
  <2>2. NumberInv'
    BY <2>1, Steps, NumberInvNext, Zenon DEF IInv
  <2> QED BY <2>1, <2>2, Zenon
<1>3. Kept2 => SeqNotShared
  <2> SUFFICES ASSUME Kept2, NEW p \in net, NEW q \in net,
                      p.kind \in {"seg", "fin"}, q.kind \in {"seg", "fin"},
                      p.to = q.to, p.seq = q.seq
               PROVE  p.kind = q.kind /\ p.val = q.val
    BY Zenon DEF SeqNotShared
  <2> DEFINE e == Peer(p.to)
  <2>1. TypeOK /\ e \in Endpoint /\ Peer(e) = p.to /\ p.seq \in Nat /\ p.val \in Nat /\ q.val \in Nat
    BY PacketFacts, PeerFacts, Zenon DEF IInv
  <2>2. ASSUME NEW r \in net, r.kind = "seg", r.to = p.to, r.seq = p.seq
        PROVE  DataAt(e, p.seq, r.val)
    <3>1. r.val # 0
      <4>1. GoodSeg(Peer(r.to), r.seq, r.val)
        BY <2>2, Zenon DEF IInv, SegInv
      <4>2. r.val \in Nat
        BY <2>1, <2>2, PacketFacts, Zenon
      <4> QED BY <4>1, <4>2, SegNotFin, Zenon
    <3> QED BY <2>1, <2>2, <3>1, Zenon DEF DataAt, OnWire
  <2>3. ASSUME NEW r \in net, r.kind = "fin", r.to = p.to, r.seq = p.seq
        PROVE  FinAt(e, p.seq) /\ r.val = 0
    BY <2>1, <2>3, Zenon DEF FinAt, NumberInv
  <2>4. CASE p.kind = "seg" /\ q.kind = "seg"
    BY <2>1, <2>2, <2>4, Zenon DEF NumberInv
  <2>5. CASE p.kind = "fin" /\ q.kind = "fin"
    BY <2>3, <2>5, Zenon
  <2>6. CASE p.kind # q.kind
    BY <2>1, <2>2, <2>3, <2>6, Zenon DEF NumberInv
  <2> QED BY <2>4, <2>5, <2>6, Zenon
<1> HIDE DEF Kept2
<1> QED BY <1>1, <1>2, <1>3, PTL DEF Spec

-----------------------------------------------------------------------------
(* The refinement: each step of Stream is, for the two applications, one   *)
(* step of the pipe or none.                                               *)

(* What a step does to the four things the applications see.               *)

Writes(e) ==
  written' = [written EXCEPT ![e] = @ + 1] /\ UNCHANGED <<recv, finSeq, eof>>

Gets(e) ==
  /\ rl[e].todo # <<>>
  /\ \E v \in Nat : recv' = [recv EXCEPT ![e] = Append(@, v)]
  /\ UNCHANGED <<written, finSeq, eof>>

Shuts(e) == Marks(e) /\ UNCHANGED <<written, recv, eof>>

Finishes(e) ==
  /\ \E why \in {"fin", "expired", "cut"} :
       eof' = [eof EXCEPT ![e] = IF @ = "open" THEN why ELSE @]
  /\ UNCHANGED <<written, recv, finSeq>>

Vanishes(e) == Marks(e) /\ Cut(e) /\ UNCHANGED <<written, recv>>

SeenStep ==
  \/ \E e \in Endpoint : Writes(e) \/ Gets(e) \/ Shuts(e) \/ Finishes(e) \/ Vanishes(e)
  \/ UNCHANGED <<written, recv, finSeq, eof>>

(* A sequence of which n items are done and more are left has a next one.  *)
LEMMA NextItem ==
  ASSUME NEW s \in Seq(Nat), NEW n \in Nat, n < Len(s)
  PROVE  s[n + 1] \in Nat /\ s # <<>>
<1>1. n + 1 \in 1 .. Len(s)
  BY SMTT(30)
<1>2. s[n + 1] \in Nat
  BY <1>1, SMTT(30)
<1>3. s # <<>>
  BY SMTT(30)
<1> QED BY <1>2, <1>3, Zenon

(* acceptFIN closes, or closed before.                                     *)
LEMMA AcceptSeen ==
  ASSUME TypeOK, NEW e \in Endpoint, AcceptFIN(e), UNCHANGED <<sendSeq, written, recv, eof>>
  PROVE  SeenStep
<1>1. Marks(e) \/ UNCHANGED finSeq
  BY AcceptEnds, Zenon DEF Ends
<1> QED BY <1>1, Zenon DEF SeenStep, Shuts

(* Every step is one of these for the applications.                        *)
LEMMA SeenSteps == TypeOK /\ [Next]_vars => SeenStep
<1> SUFFICES ASSUME TypeOK, [Next]_vars PROVE SeenStep
  BY Zenon
<1>0. ASSUME UNCHANGED <<written, recv, finSeq, eof>> PROVE SeenStep
  BY <1>0, Zenon DEF SeenStep
<1>1. ASSUME NEW e \in Endpoint, Writer(e) PROVE SeenStep
  <2>1. CASE TransmitSegment(e)
    BY <1>1, <2>1, Zenon DEF TransmitSegment, SeenStep, Writes
  <2>2. CASE SendData(e) \/ WriteAborted(e) \/ ProbeLimit(e)
    BY <1>0, <2>2, Zenon DEF SendData, WriteAborted, ProbeLimit, recvVars
  <2> QED BY <1>1, <2>1, <2>2, Zenon DEF Writer
<1>2. ASSUME NEW e \in Endpoint, Timers(e) PROVE SeenStep
  <2>1. CASE SendDelayedACK(e) \/ Linger(e)
    BY <1>0, <2>1, Zenon DEF SendDelayedACK, Linger, sendVars, recvVars
  <2>2. CASE ExpireHeldFIN(e)
    BY <1>0, <1>2, <2>2, Zenon DEF ExpireHeldFIN, SeenStep, Finishes, sendVars
  <2>3. CASE HoldTimerAccepts(e)
    BY <1>2, <2>3, AcceptSeen, Zenon DEF HoldTimerAccepts
  <2> QED BY <1>2, <2>1, <2>2, <2>3, Zenon DEF Timers
<1>3. ASSUME NEW e \in Endpoint, PacketLoop(e) PROVE SeenStep
  <2>1. ASSUME NEW p \in net, RecvSeg(e, p) \/ RecvAck(e, p) PROVE SeenStep
    BY <1>0, <2>1, Zenon DEF RecvSeg, RecvAck, recvVars
  <2>2. ASSUME NEW p \in net, RecvFin(e, p) PROVE SeenStep
    <3>1. CASE HoldFin(e, p)
      BY <1>0, <2>2, <3>1, Zenon DEF RecvFin, HoldFin, sendVars
    <3>2. CASE TakeFin(e, p)
      <4>1. \E why \in {"fin", "expired", "cut"} :
              eof' = [eof EXCEPT ![e] = IF @ = "open" THEN why ELSE @]
        <5>1. CASE st[e] = "Established"
          BY <3>2, <5>1, Zenon DEF TakeFin
        <5>2. CASE st[e] # "Established"
          BY <3>2, <5>2, Zenon DEF TakeFin
        <5> QED BY <5>1, <5>2, Zenon
      <4> QED BY <1>3, <2>2, <4>1, Zenon DEF RecvFin, SeenStep, Finishes, sendVars
    <3> QED BY <2>2, <3>1, <3>2, Zenon DEF RecvFin
  <2>3. ASSUME NEW p \in net, RecvRst(e, p) PROVE SeenStep
    BY <1>3, <2>3, Zenon DEF RecvRst, Cut, SeenStep, Finishes, sendVars
  <2>4. CASE HandlePacket(e)
    BY <2>1, <2>2, <2>3, <2>4, Zenon DEF HandlePacket
  <2>5. CASE Push(e)
    <3>1. rl[e].todo \in Seq(Nat) /\ rl[e].done \in Nat /\ rl[e].done < Len(rl[e].todo)
      BY <1>3, <2>5, ReceiverTypes, Zenon DEF Push
    <3>2. rl[e].todo[rl[e].done + 1] \in Nat /\ rl[e].todo # <<>>
      BY <3>1, NextItem, Zenon
    <3> QED BY <1>3, <2>5, <3>2, Zenon DEF Push, SeenStep, Gets, sendVars
  <2>6. CASE Commit(e)
    <3>1. \/ eof' = [eof EXCEPT ![e] = IF @ = "open" THEN "fin" ELSE @]
          \/ eof' = [eof EXCEPT ![e] = @]
      BY <2>6, Zenon DEF Commit
    <3>2. eof' = eof \/ eof' = [eof EXCEPT ![e] = IF @ = "open" THEN "fin" ELSE @]
      BY <3>1, EndTypes, Zenon
    <3> QED BY <1>0, <1>3, <2>6, <3>2, Zenon DEF Commit, SeenStep, Finishes, sendVars
  <2>7. CASE PacketLoopAccepts(e)
    BY <1>3, <2>7, AcceptSeen, Zenon DEF PacketLoopAccepts
  <2> QED BY <1>3, <2>4, <2>5, <2>6, <2>7, Zenon DEF PacketLoop
<1>4. ASSUME NEW e \in Endpoint, RetxLoop(e) PROVE SeenStep
  <2>1. CASE RetxResends(e) \/ RetxExits(e)
    BY <1>0, <2>1, Zenon DEF RetxResends, RetxExits, sendVars, recvVars
  <2>2. CASE RetxCleansUp(e)
    BY <1>4, <2>2, Zenon DEF RetxCleansUp, Cut, SeenStep, Finishes, sendVars
  <2> QED BY <1>4, <2>1, <2>2, Zenon DEF RetxLoop
<1>5. ASSUME NEW e \in Endpoint, Probe(e) \/ Read(e) \/ Reap(e) PROVE SeenStep
  <2>1. CASE Probe(e) \/ Read(e)
    BY <1>0, <2>1, Zenon DEF Probe, Read, sendVars, recvVars
  <2>2. CASE Reap(e)
    BY <1>5, <2>2, Zenon DEF Reap, Cut, SeenStep, Finishes
  <2> QED BY <1>5, <2>1, <2>2, Zenon
<1>6. ASSUME NEW e \in Endpoint, Stop(e) PROVE SeenStep
  <2>1. CASE st[e] = "Established"
    BY <1>6, <2>1, Zenon DEF Stop, Marks, SeenStep, Vanishes
  <2>2. CASE st[e] # "Established"
    <3>1. finSeq' = [finSeq EXCEPT ![e] = @]
      BY <1>6, <2>2, Zenon DEF Stop
    <3>2. finSeq' = finSeq
      BY <3>1, SenderTypes, Zenon
    <3> QED BY <1>6, <3>2, Zenon DEF Stop, Cut, SeenStep, Finishes
  <2> QED BY <2>1, <2>2, Zenon
<1>7. ASSUME NEW e \in Endpoint, NEW c \in Closer, Close(e, c) PROVE SeenStep
  <2>1. CASE CloseReserves(e, c)
    BY <1>0, <1>7, <2>1, Zenon DEF CloseReserves, SeenStep, Shuts, Marks, recvVars
  <2>2. CASE CloseShuts(e, c)
    BY <1>7, <2>2, Zenon DEF CloseShuts, Cut, SeenStep, Finishes, sendVars
  <2>3. CASE CloseBegins(e, c) \/ CloseSends(e, c) \/ CloseEnds(e, c)
    BY <1>0, <2>3, Zenon DEF CloseBegins, CloseSends, CloseEnds, sendVars, recvVars
  <2> QED BY <1>7, <2>1, <2>2, <2>3, Zenon DEF Close
<1>8. CASE Lose \/ UNCHANGED vars
  BY <1>0, <1>8, Zenon DEF Lose, vars, sendVars, recvVars
<1> QED
  BY <1>1, <1>2, <1>3, <1>4, <1>5, <1>6, <1>7, <1>8, Zenon DEF Next

-----------------------------------------------------------------------------
(* A clean end is final: once the reader has been told of it, the packet   *)
(* loop has nothing more in hand.                                          *)
FinIsFinal == \A e \in Endpoint : eof[e] = "fin" => rl[e].todo = <<>>

(* What a step does to the end of the stream and to the loop's hands.      *)
HandStep(e) ==
  \/ rl'[e].todo = <<>>
  \/ rl'[e].todo = rl[e].todo /\ (eof'[e] = "fin" => eof[e] = "fin")
  \/ eof[e] = "open" /\ eof' = eof

PipeInv == IInv /\ FinIsFinal

(* A step that leaves the loop alone and at most cuts the stream.          *)
LEMMA HandKept ==
  ASSUME TypeOK, UNCHANGED rl, NEW e \in Endpoint,
         \/ UNCHANGED eof
         \/ \E why \in {"expired", "cut"} : eof' = [eof EXCEPT ![e] = IF @ = "open" THEN why ELSE @],
         NEW f \in Endpoint
  PROVE  HandStep(f)
BY EndTypes, Zenon DEF HandStep

(* Every step is one of these.                                             *)
LEMMA HandSteps ==
  ASSUME TypeOK, RecvInv, [Next]_vars, NEW f \in Endpoint
  PROVE  HandStep(f)
<1>0. ASSUME UNCHANGED <<rl, eof>> PROVE HandStep(f)
  BY <1>0, Zenon DEF HandStep
<1>1. ASSUME NEW e \in Endpoint, Turns(e), UNCHANGED eof PROVE HandStep(f)
  BY <1>1, TurnsKeeps, Zenon DEF HandStep
<1>2. ASSUME NEW e \in Endpoint, Timers(e) PROVE HandStep(f)
  <2>1. CASE SendDelayedACK(e) \/ Linger(e) \/ HoldTimerAccepts(e)
    BY <1>0, <2>1, Zenon DEF SendDelayedACK, Linger, HoldTimerAccepts, recvVars
  <2>2. CASE ExpireHeldFIN(e)
    BY <1>2, <2>2, HandKept, Zenon DEF ExpireHeldFIN
  <2> QED BY <1>2, <2>1, <2>2, Zenon DEF Timers
<1>3. ASSUME NEW e \in Endpoint, PacketLoop(e) PROVE HandStep(f)
  <2>1. ASSUME NEW p \in net, RecvSeg(e, p) PROVE HandStep(f)
    <3>1. CASE InSequence(e, p)
      <4>1. eof[e] = "open" /\ eof' = eof
        BY <2>1, <3>1, Zenon DEF RecvSeg, InSequence
      <4>2. Others(e)
        BY <1>3, <2>1, <3>1, InSequenceTakes, Zenon
      <4> QED BY <4>1, <4>2, Zenon DEF Others, HandStep
    <3>2. CASE OutOfSequence(e, p)
      BY <1>3, <2>1, <3>2, OutOfSequenceKeeps, Zenon DEF RecvSeg, Kept, Others, HandStep
    <3>3. CASE UNCHANGED rl
      BY <1>0, <2>1, <3>3, Zenon DEF RecvSeg
    <3> QED BY <2>1, <3>1, <3>2, <3>3, Zenon DEF RecvSeg
  <2>2. ASSUME NEW p \in net, RecvAck(e, p) PROVE HandStep(f)
    BY <1>0, <2>2, Zenon DEF RecvAck, recvVars
  <2>3. ASSUME NEW p \in net, rl[e].pc = "idle", RecvFin(e, p) PROVE HandStep(f)
    <3>1. CASE HoldFin(e, p)
      BY <1>0, <3>1, Zenon DEF HoldFin
    <3>2. CASE TakeFin(e, p)
      <4>1. Turns(e)
        BY <2>3, <3>2, Zenon DEF RecvFin, TakeFin, Turns
      <4>2. rl[e].todo = <<>> /\ \A g \in Endpoint : rl'[g].todo = rl[g].todo
        BY <1>3, <2>3, <4>1, TurnsKeeps, Zenon DEF RecvInv
      <4>3. \A g \in Endpoint \ {e} : eof'[g] = eof[g]
        BY <1>3, <3>2, EndTypes, Zenon DEF TakeFin
      <4> QED BY <4>2, <4>3, Zenon DEF HandStep
    <3> QED BY <2>3, <3>1, <3>2, Zenon DEF RecvFin
  <2>4. ASSUME NEW p \in net, RecvRst(e, p) PROVE HandStep(f)
    BY <1>3, <2>4, HandKept, Zenon DEF RecvRst, Cut
  <2>5. CASE HandlePacket(e)
    BY <2>1, <2>2, <2>3, <2>4, <2>5, Zenon DEF HandlePacket
  <2>6. CASE Push(e)
    <3>1. Pushes(e) /\ eof' = eof
      BY <2>6, Zenon DEF Push, Pushes
    <3>2. rl'[e].todo = rl[e].todo /\ \A g \in Endpoint \ {e} : rl'[g] = rl[g]
      BY <1>3, <3>1, PushKeeps, Zenon
    <3> QED BY <3>1, <3>2, Zenon DEF HandStep
  <2>7. CASE Commit(e)
    <3>1. Commits(e)
      BY <2>7, Zenon DEF Commit, Commits
    <3>2. rl'[e].todo = <<>> /\ \A g \in Endpoint \ {e} : rl'[g] = rl[g]
      BY <1>3, <3>1, CommitKeeps, Zenon DEF Others
    <3>3. \A g \in Endpoint \ {e} : eof'[g] = eof[g]
      BY <1>3, <2>7, EndTypes, Zenon DEF Commit
    <3> QED BY <3>2, <3>3, Zenon DEF HandStep
  <2>8. CASE PacketLoopAccepts(e)
    <3>1. Turns(e) /\ UNCHANGED eof
      BY <2>8, Zenon DEF PacketLoopAccepts, Turns
    <3> QED BY <1>1, <1>3, <3>1, Zenon
  <2> QED BY <1>3, <2>5, <2>6, <2>7, <2>8, Zenon DEF PacketLoop
<1>4. ASSUME NEW e \in Endpoint, Writer(e) \/ RetxLoop(e) PROVE HandStep(f)
  <2>1. CASE Writer(e) \/ RetxResends(e) \/ RetxExits(e)
    BY <1>0, <2>1, Zenon DEF Writer, SendData, TransmitSegment, WriteAborted, ProbeLimit,
                      RetxResends, RetxExits, recvVars
  <2>2. CASE RetxCleansUp(e)
    BY <1>4, <2>2, HandKept, Zenon DEF RetxCleansUp, Cut
  <2> QED BY <1>4, <2>1, <2>2, Zenon DEF RetxLoop
<1>5. ASSUME NEW e \in Endpoint, Probe(e) \/ Read(e) \/ Reap(e) \/ Stop(e) PROVE HandStep(f)
  <2>1. CASE Probe(e) \/ Read(e)
    BY <1>0, <2>1, Zenon DEF Probe, Read, recvVars
  <2>2. CASE Reap(e) \/ Stop(e)
    BY <1>5, <2>2, HandKept, Zenon DEF Reap, Stop, Cut
  <2> QED BY <1>5, <2>1, <2>2, Zenon
<1>6. ASSUME NEW e \in Endpoint, NEW c \in Closer, Close(e, c) PROVE HandStep(f)
  <2>1. CASE CloseShuts(e, c)
    BY <1>6, <2>1, HandKept, Zenon DEF CloseShuts, Cut
  <2>2. CASE CloseBegins(e, c) \/ CloseReserves(e, c) \/ CloseSends(e, c) \/ CloseEnds(e, c)
    BY <1>0, <2>2, Zenon DEF CloseBegins, CloseReserves, CloseSends, CloseEnds, recvVars
  <2> QED BY <1>6, <2>1, <2>2, Zenon DEF Close
<1>7. CASE Lose \/ UNCHANGED vars
  BY <1>0, <1>7, Zenon DEF Lose, vars, recvVars
<1> QED
  BY <1>2, <1>3, <1>4, <1>5, <1>6, <1>7, Zenon DEF Next

(* The invariant the refinement needs holds throughout.                    *)
LEMMA PipeInvariance == Spec => []PipeInv
<1>1. Init => PipeInv
  <2>1. ASSUME Init PROVE FinIsFinal
    BY <2>1, Zenon DEF Init, FinIsFinal
  <2> QED BY <2>1, InvInit, Zenon DEF PipeInv
<1>2. PipeInv /\ [Next]_vars => PipeInv'
  <2> SUFFICES ASSUME PipeInv, [Next]_vars PROVE PipeInv'
    BY Zenon
  <2>1. IInv /\ IInv' /\ TypeOK /\ RecvInv
    BY InvNext, Zenon DEF PipeInv, IInv
  <2>2. \A f \in Endpoint : HandStep(f)
    BY <2>1, HandSteps, Zenon
  <2>3. FinIsFinal'
    BY <2>2, Zenon DEF HandStep, FinIsFinal, PipeInv
  <2> QED BY <2>1, <2>3, Zenon DEF PipeInv
<1> QED BY <1>1, <1>2, PTL DEF Spec

-----------------------------------------------------------------------------
(* The refinement, step by step.                                           *)

Count(n) == [i \in 1 .. n |-> i]

(* What has been written grows like the pipe's input.                      *)
LEMMA CountGrows ==
  ASSUME NEW n \in Nat
  PROVE  /\ Count(n) \in Seq(Nat) /\ Len(Count(n)) = n
         /\ \A i \in 1 .. n : Count(n)[i] = i
         /\ Append(Count(n), n + 1) = Count(n + 1)
<1>1. Count(n) \in Seq(Nat) /\ Len(Count(n)) = n /\ \A i \in 1 .. n : Count(n)[i] = i
  BY SMTT(30) DEF Count
<1>2. Append(Count(n), n + 1) = Count(n + 1)
  BY SMTT(30) DEF Count
<1> QED BY <1>1, <1>2, Zenon

(* The other end of the pipe is the peer.                                  *)
LEMMA SidesAgree == Pipe!Side = Endpoint /\ \A e \in Endpoint : Pipe!Other(e) = Peer(e)
BY Zenon DEF Pipe!Side, Pipe!Other, Endpoint, Peer

(* A write is a Put,                                                       *)
LEMMA WritesPuts ==
  ASSUME TypeOK, NEW e \in Endpoint, Writes(e) PROVE Pipe!Put(e)
<1> DEFINE S == [f \in Endpoint |-> Count(written[f])]
           T == [f \in Endpoint |-> Count(written'[f])]
<1>1. written[e] \in Nat /\ written' = [written EXCEPT ![e] = written[e] + 1]
  BY SenderTypes, Zenon DEF Writes
<1>2. T[e] = Count(written[e] + 1) /\ \A f \in Endpoint \ {e} : T[f] = S[f]
  BY <1>1, SenderTypes, Zenon
<1>3. T[e] = Append(S[e], Len(S[e]) + 1)
  BY <1>1, <1>2, CountGrows, Zenon
<1>4. T = [S EXCEPT ![e] = Append(S[e], Len(S[e]) + 1)]
  <2> HIDE DEF Count
  <2> QED BY <1>2, <1>3, Zenon
<1> QED BY <1>4, Zenon DEF Writes, Pipe!Put, Count

(* a delivery is an Arrive,                                                *)
LEMMA GetsArrives ==
  ASSUME PipeInv, IInv', NEW e \in Endpoint, Gets(e) PROVE Pipe!Arrive(e)
<1> DEFINE q == Peer(e)
           S == [f \in Endpoint |-> Count(written[f])]
           L == Len(recv[e])
<1>1. PICK v \in Nat : recv' = [recv EXCEPT ![e] = Append(@, v)]
  BY Zenon DEF Gets
<1>2. TypeOK /\ recv \in [Endpoint -> Seq(Nat)] /\ recv[e] \in Seq(Nat) /\ L \in Nat /\ q \in Endpoint
      /\ written[q] \in Nat
  BY ReceiverTypes, SenderTypes, PeerFacts, Zenon DEF PipeInv, IInv
<1>3. recv'[e] = Append(recv[e], v)
  BY <1>1, <1>2, Zenon
<1>4. Len(recv'[e]) = L + 1 /\ recv'[e][L + 1] = v
  BY <1>2, <1>3, SMTT(30)
<1>5. L + 1 <= written[q] /\ v = L + 1
  <2>1. Len(recv'[e]) <= written'[q] /\ \A i \in 1 .. Len(recv'[e]) : recv'[e][i] = i
    BY Zenon DEF IInv, RecvInv
  <2>2. written' = written
    BY Zenon DEF Gets
  <2>3. L + 1 <= written[q]
    BY <1>4, <2>1, <2>2, Zenon
  <2>4. L + 1 \in 1 .. Len(recv'[e])
    BY <1>2, <1>4, SMTT(30)
  <2> QED BY <1>4, <2>1, <2>3, <2>4, Zenon
<1>6. S[q] = Count(written[q]) /\ Len(S[q]) = written[q] /\ S[q][L + 1] = L + 1
  <2>1. S[q] = Count(written[q])
    BY <1>2, Zenon
  <2>2. Len(Count(written[q])) = written[q] /\ \A i \in 1 .. written[q] : Count(written[q])[i] = i
    BY <1>2, CountGrows, Zenon
  <2>3. L + 1 \in 1 .. written[q]
    BY <1>2, <1>5, SMTT(30)
  <2> HIDE DEF S, L, q
  <2> QED BY <2>1, <2>2, <2>3, Zenon
<1>7. eof[e] # "fin"
  BY Zenon DEF PipeInv, FinIsFinal, Gets
<1>8. recv' = [recv EXCEPT ![e] = Append(recv[e], S[q][L + 1])]
  BY <1>1, <1>5, <1>6, Zenon
<1>9. L < Len(S[Pipe!Other(e)]) /\ recv' = [recv EXCEPT ![e] = Append(recv[e], S[Pipe!Other(e)][L + 1])]
  <2>1. Pipe!Other(e) = q /\ L < Len(S[q])
    BY <1>2, <1>5, <1>6, SidesAgree, SMTT(30)
  <2> HIDE DEF S, q
  <2> QED BY <1>8, <2>1, Zenon
<1>10. written' = written /\ finSeq' = finSeq /\ eof' = eof
  BY Zenon DEF Gets
<1>11. /\ S = [f \in Endpoint |-> Count(written'[f])]
       /\ [f \in Endpoint |-> finSeq[f] - 1] = [f \in Endpoint |-> finSeq'[f] - 1]
  BY <1>10, Zenon
<1> QED BY <1>7, <1>9, <1>10, <1>11, Zenon DEF Pipe!Arrive, Count

(* The first FIN's place in the pipe is after all that was written.        *)
LEMMA MarkIsClose ==
  ASSUME TypeOK, SendInv, NEW e \in Endpoint, Marks(e),
         finSeq[e] = 0
  PROVE  LET S == [f \in Endpoint |-> Count(written[f])]
             C == [f \in Endpoint |-> finSeq[f] - 1]
         IN  /\ C[e] = -1
             /\ [f \in Endpoint |-> finSeq'[f] - 1] = [C EXCEPT ![e] = Len(S[e])]
<1> DEFINE S == [f \in Endpoint |-> Count(written[f])]
           C == [f \in Endpoint |-> finSeq[f] - 1]
           D == [f \in Endpoint |-> finSeq'[f] - 1]
<1>1. sendSeq[e] = written[e] + 1 /\ written[e] \in Nat
  BY SenderTypes, SMTT(30) DEF SendInv, Reserved
<1>2. finSeq' = [finSeq EXCEPT ![e] = sendSeq[e]]
  BY Zenon DEF Marks
<1>3. finSeq'[e] = written[e] + 1 /\ \A f \in Endpoint \ {e} : finSeq'[f] = finSeq[f]
  BY <1>1, <1>2, SenderTypes, Zenon
<1>4. Len(S[e]) = written[e]
  BY <1>1, CountGrows, Zenon
<1>5. D[e] = written[e] /\ (\A f \in Endpoint \ {e} : D[f] = C[f]) /\ C[e] = -1
  BY <1>1, <1>3, SMTT(30)
<1>6. D = [C EXCEPT ![e] = Len(S[e])]
  <2> HIDE DEF S
  <2> QED BY <1>4, <1>5, Zenon
<1> QED BY <1>5, <1>6, Zenon

(* A mark that was made before changes nothing.                            *)
LEMMA MarkedBefore ==
  ASSUME TypeOK, NEW e \in Endpoint, Marks(e), finSeq[e] # 0 PROVE finSeq' = finSeq
BY SenderTypes, Zenon DEF Marks

(* a FIN's sequence number is a Shut,                                      *)
LEMMA ShutsShuts ==
  ASSUME TypeOK, SendInv, NEW e \in Endpoint, Shuts(e)
  PROVE  Pipe!Shut(e) \/ UNCHANGED Pipe!pipeVars
<1>1. CASE finSeq[e] = 0
  <2>1. UNCHANGED <<written, recv, eof>> /\ Marks(e)
    BY Zenon DEF Shuts
  <2> QED BY <1>1, <2>1, MarkIsClose, Zenon DEF Pipe!Shut, Count
<1>2. CASE finSeq[e] # 0
  BY <1>2, MarkedBefore, Zenon DEF Shuts, Pipe!pipeVars
<1> QED BY <1>1, <1>2, Zenon

(* an end of input is an EndClean or an EndCut,                            *)
LEMMA FinishesEnds ==
  ASSUME TypeOK, CleanEnd', NEW e \in Endpoint, Finishes(e)
  PROVE  Pipe!EndClean(e) \/ Pipe!EndCut(e) \/ UNCHANGED Pipe!pipeVars
<1>1. PICK why \in {"fin", "expired", "cut"} :
        eof' = [eof EXCEPT ![e] = IF @ = "open" THEN why ELSE @]
  BY Zenon DEF Finishes
<1>2. UNCHANGED <<written, recv, finSeq>>
  BY Zenon DEF Finishes
<1>3. CASE eof[e] # "open"
  <2>1. eof' = eof
    BY <1>1, <1>3, EndTypes, Zenon
  <2> QED BY <1>2, <2>1, Zenon DEF Pipe!pipeVars
<1>4. CASE eof[e] = "open" /\ why # "fin"
  BY <1>1, <1>2, <1>4, Zenon DEF Pipe!EndCut
<1>5. CASE eof[e] = "open" /\ why = "fin"
  <2> DEFINE q == Peer(e)
             C == [f \in Endpoint |-> finSeq[f] - 1]
  <2>1. eof' = [eof EXCEPT ![e] = "fin"]
    BY <1>1, <1>5, Zenon
  <2>2. eof'[e] = "fin"
    BY <2>1, EndTypes, Zenon
  <2>3. finSeq[q] # 0 /\ Len(recv[e]) >= finSeq[q] - 1
    BY <1>2, <2>2, Zenon DEF CleanEnd
  <2>4. q \in Endpoint /\ Pipe!Other(e) = q /\ finSeq[q] \in Nat
    BY PeerFacts, SenderTypes, SidesAgree, Zenon
  <2>5. C[Pipe!Other(e)] # -1 /\ Len(recv[e]) >= C[Pipe!Other(e)]
    BY <2>3, <2>4, SMTT(30)
  <2> QED BY <1>2, <1>5, <2>1, <2>5, Zenon DEF Pipe!EndClean
<1> QED BY <1>3, <1>4, <1>5, Zenon

(* and a daemon that stops Vanishes.                                       *)
LEMMA VanishesVanishes ==
  ASSUME TypeOK, SendInv, CleanEnd', NEW e \in Endpoint, Vanishes(e)
  PROVE  \/ Pipe!Vanish(e) \/ Pipe!Shut(e) \/ Pipe!EndCut(e) \/ Pipe!EndClean(e)
         \/ UNCHANGED Pipe!pipeVars
<1>1. Marks(e) /\ Cut(e) /\ UNCHANGED <<written, recv>>
  BY Zenon DEF Vanishes
<1>2. CASE finSeq[e] # 0
  <2>1. Finishes(e)
    BY <1>1, <1>2, MarkedBefore, Zenon DEF Finishes, Cut
  <2> QED BY <2>1, FinishesEnds, Zenon
<1>3. CASE eof[e] # "open"
  <2>1. eof' = eof
    BY <1>1, <1>3, EndTypes, Zenon DEF Cut
  <2>2. Shuts(e)
    BY <1>1, <2>1, Zenon DEF Shuts
  <2> QED BY <2>2, ShutsShuts, Zenon
<1>4. CASE finSeq[e] = 0 /\ eof[e] = "open"
  <2>1. eof' = [eof EXCEPT ![e] = "cut"]
    BY <1>1, <1>4, Zenon DEF Cut
  <2> QED BY <1>1, <1>4, <2>1, MarkIsClose, Zenon DEF Pipe!Vanish, Count
<1> QED BY <1>2, <1>3, <1>4, Zenon

(* Every step of the connection is a step of the pipe or none.             *)
LEMMA StepIsPipeStep ==
  PipeInv /\ IInv' /\ [Next]_vars => [Pipe!PipeNext]_(Pipe!pipeVars)
<1> SUFFICES ASSUME PipeInv, IInv', [Next]_vars
             PROVE  Pipe!PipeNext \/ UNCHANGED Pipe!pipeVars
  BY Zenon
<1>1. TypeOK /\ SendInv /\ CleanEnd'
  BY Zenon DEF PipeInv, IInv
<1>2. SeenStep
  BY <1>1, SeenSteps, Zenon
<1>3. ASSUME NEW e \in Endpoint, Writes(e) \/ Gets(e) PROVE Pipe!PipeNext
  BY <1>1, <1>3, WritesPuts, GetsArrives, SidesAgree, Zenon DEF Pipe!PipeNext
<1>4. ASSUME NEW e \in Endpoint, Shuts(e) \/ Finishes(e) \/ Vanishes(e)
      PROVE  Pipe!PipeNext \/ UNCHANGED Pipe!pipeVars
  BY <1>1, <1>4, ShutsShuts, FinishesEnds, VanishesVanishes, SidesAgree, Zenon DEF Pipe!PipeNext
<1>5. CASE UNCHANGED <<written, recv, finSeq, eof>>
  BY <1>5, Zenon DEF Pipe!pipeVars
<1> QED BY <1>2, <1>3, <1>4, <1>5, Zenon DEF SeenStep

(* The connection is a reliable pipe: for any buffer sizes, any number of  *)
(* closers, and any loss, duplication or reordering, its two applications  *)
(* see only what ReliablePipe allows (transmitSegment, DeliverInOrder,     *)
(* CloseConnection, acceptFIN, expireHeldFIN, doStop).                     *)
THEOREM StreamIsPipe == Spec => ImplementsPipe
<1>1. ASSUME Init PROVE Pipe!PipeInit
  <2>1. /\ \A e \in Endpoint : written[e] = 0 /\ finSeq[e] = 0
        /\ recv = [e \in Endpoint |-> <<>>] /\ eof = [e \in Endpoint |-> "open"]
    BY <1>1, Zenon DEF Init
  <2>2. [i \in 1..0 |-> i] = <<>> /\ 0 - 1 = -1
    BY SMTT(30)
  <2>3. [e \in Endpoint |-> [i \in 1..written[e] |-> i]] = [e \in Endpoint |-> <<>>]
    BY <2>1, <2>2, Zenon
  <2>4. [e \in Endpoint |-> finSeq[e] - 1] = [e \in Endpoint |-> -1]
    BY <2>1, <2>2, Zenon
  <2>. QED BY <2>1, <2>3, <2>4, SidesAgree, Zenon DEF Pipe!PipeInit
<1> QED BY <1>1, StepIsPipeStep, PipeInvariance, Invariance, PTL
        DEF Spec, ImplementsPipe, Pipe!PipeSpec
=============================================================================
