---------------------------- MODULE PathsProofs ----------------------------
(***************************************************************************)
(* PathsSound for every pair of nodes, every value of the thresholds and   *)
(* every scenario: the per-peer maps a node keeps disagree only where a    *)
(* removal and the install of a key overlapped, or a pin overtook the end  *)
(* of a dial.                                                              *)
(*                                                                         *)
(* The operators of Paths map the record of a peer to the record after a   *)
(* call, so the proof is one lemma per operator (it keeps a good record    *)
(* good, and what it needs of the session), one per way a frame leaves a   *)
(* node, and then one step per action.  PathsSound is not inductive:       *)
(* Staged adds what holds while RemovePeer or a key install is under way.  *)
(***************************************************************************)
EXTENDS Paths, TLAPS

Good(s) == s \in Tunnel /\ RoutingAgrees(s)

\* The session of t is that of s, and no worse off.
Kept(s, t) == t.key = s.key /\ (SessionAgrees(s) => SessionAgrees(t))
\* What a call that touches no session may make of s.
Does(s, t) == Good(t) /\ Kept(s, t)

\* What a send may return: the record after it and the paths the frame took.
Way == {"direct", "relay"}
Sent(s, w) == Does(s, w.s) /\ w.via \subseteq Way

\* Unless they overlapped, no key is installed while RemovePeer runs, it leaves
\* no session behind once it dropped one, and outside both the maps agree.
Staged(s, r, i) ==
  ~r.crossed =>
    /\ r.at \in 1..5 => i = <<>>
    /\ r.at \in 2..5 => ~s.key
    /\ i = <<>> /\ r.at # 1 => SessionAgrees(s)

\* The part of the invariant about the records and the frames in flight.
Tuns ==
  /\ tun \in [Node -> Tunnel] /\ \A n \in Node : RoutingAgrees(tun[n])
  /\ removing \in [Node -> Removal] /\ installing \in [Node -> Install]
  /\ \A n \in Node : Staged(tun[n], removing[n], installing[n])
Airs == air \in [Node -> SUBSET Frame]

\* The dials, and the rest of the types.
DialGood(d) ==
  /\ d \in DialState /\ (d.here => d.relayActive)
  /\ (~d.open /\ d.look = "none" => d = NoDial) /\ d.look # "pinned"
Dials == dial \in [Node -> DialState] /\ \A n \in Node : DialGood(dial[n])
Timers == upgrade \in [Node -> 0..DirectClearsRequired] /\ probes \in [Node -> 0..pathProbeMax]
Rest ==
  /\ cache \in [Node -> [resolve : BOOLEAN, ep : BOOLEAN]]
  /\ writing \in [Node -> BOOLEAN] /\ orphan \in [Node -> BOOLEAN]

Inv == Tuns /\ Airs /\ Dials /\ Timers /\ Rest

LEMMA Peers ==
  ASSUME NEW n \in Node
  PROVE  Peer(n) \in Node /\ Peer(n) # n
<1>1. \E p \in Node : p # n
  BY NodeAssumption, Zenon
<1> QED BY <1>1, Zenon DEF Peer

-----------------------------------------------------------------------------
(* The records.                                                            *)

LEMMA DoesTrans ==
  ASSUME NEW s, NEW t, NEW u, Does(s, t), Does(t, u)
  PROVE  Does(s, u)
  BY Zenon DEF Does, Kept

LEMMA DoesNothing ==
  ASSUME NEW s, Good(s)
  PROVE  Does(s, s)
  BY Zenon DEF Does, Kept

(* A record that differs in none of the fields the session needs.          *)
LEMMA SameSession ==
  ASSUME NEW s, NEW t, t.key = s.key, t.peer = s.peer, t.inbound = s.inbound
  PROVE  Kept(s, t)
  BY Zenon DEF Kept, SessionAgrees

(* A record that differs in none of the fields about the relay.            *)
LEMMA SameRouting ==
  ASSUME NEW s, NEW t, RoutingAgrees(s), t.relay = s.relay, t.pinned = s.pinned, t.late = s.late,
         t.heard = s.heard, t.silence = s.silence
  PROVE  RoutingAgrees(t)
  BY Zenon DEF RoutingAgrees

(* A field at a time.                                                      *)
LEMMA Updates ==
  ASSUME NEW s \in Tunnel
  PROVE  /\ \A x \in {"none", "direct", "beacon"} : [s EXCEPT !.peer = x] \in Tunnel
         /\ \A x \in BOOLEAN : [s EXCEPT !.key = x] \in Tunnel
         /\ \A x \in BOOLEAN : [s EXCEPT !.viaRelay = x] \in Tunnel
         /\ \A x \in BOOLEAN : [s EXCEPT !.relay = x] \in Tunnel
         /\ \A x \in BOOLEAN : [s EXCEPT !.pinned = x] \in Tunnel
         /\ \A x \in BOOLEAN : [s EXCEPT !.late = x] \in Tunnel
         /\ \A x \in 0..BlackholeMissesRequired - 1 : [s EXCEPT !.misses = x] \in Tunnel
         /\ \A x \in 0..DirectClearsRequired - 1 : [s EXCEPT !.clears = x] \in Tunnel
         /\ \A x \in 0..SendErrThreshold : [s EXCEPT !.errs = x] \in Tunnel
         /\ \A x \in BOOLEAN : [s EXCEPT !.heard = x] \in Tunnel
         /\ \A x \in {"none", "short", "long"} : [s EXCEPT !.silence = x] \in Tunnel
         /\ \A x \in {"none", "recent", "silent"} : [s EXCEPT !.inbound = x] \in Tunnel
<1>1. \A x \in {"none", "direct", "beacon"} : [s EXCEPT !.peer = x] \in Tunnel
  BY SMTT(30) DEF Tunnel
<1>2. \A x \in BOOLEAN : /\ [s EXCEPT !.key = x] \in Tunnel /\ [s EXCEPT !.viaRelay = x] \in Tunnel
                         /\ [s EXCEPT !.heard = x] \in Tunnel
  BY SMTT(30) DEF Tunnel
<1>3. \A x \in BOOLEAN : /\ [s EXCEPT !.relay = x] \in Tunnel /\ [s EXCEPT !.pinned = x] \in Tunnel
                         /\ [s EXCEPT !.late = x] \in Tunnel
  BY SMTT(30) DEF Tunnel
<1>4. \A x \in 0..BlackholeMissesRequired - 1 : [s EXCEPT !.misses = x] \in Tunnel
  BY SMTT(30) DEF Tunnel
<1>5. \A x \in 0..DirectClearsRequired - 1 : [s EXCEPT !.clears = x] \in Tunnel
  BY SMTT(30) DEF Tunnel
<1>6. \A x \in 0..SendErrThreshold : [s EXCEPT !.errs = x] \in Tunnel
  BY SMTT(30) DEF Tunnel
<1>7. /\ \A x \in {"none", "short", "long"} : [s EXCEPT !.silence = x] \in Tunnel
      /\ \A x \in {"none", "recent", "silent"} : [s EXCEPT !.inbound = x] \in Tunnel
  BY SMTT(30) DEF Tunnel
<1> QED BY <1>1, <1>2, <1>3, <1>4, <1>5, <1>6, <1>7, Zenon

(* What the fields of a record are.                                        *)
LEMMA Counters ==
  ASSUME NEW s \in Tunnel
  PROVE  /\ s.misses \in 0..BlackholeMissesRequired - 1 /\ s.clears \in 0..DirectClearsRequired - 1
         /\ s.errs \in 0..SendErrThreshold
  BY SMTT(30) DEF Tunnel

LEMMA Flags ==
  ASSUME NEW s \in Tunnel
  PROVE  /\ s.key \in BOOLEAN /\ s.viaRelay \in BOOLEAN /\ s.relay \in BOOLEAN
         /\ s.pinned \in BOOLEAN /\ s.late \in BOOLEAN /\ s.heard \in BOOLEAN
         /\ s.peer \in {"none", "direct", "beacon"}
         /\ s.silence \in {"none", "short", "long"} /\ s.inbound \in {"none", "recent", "silent"}
  BY SMTT(30) DEF Tunnel

(* What an update of one field leaves alone.                               *)
LEMMA Counts ==
  ASSUME NEW s, Good(s), NEW x
  PROVE  /\ x \in 0..BlackholeMissesRequired - 1 => Does(s, [s EXCEPT !.misses = x])
         /\ x \in 0..DirectClearsRequired - 1 => Does(s, [s EXCEPT !.clears = x])
         /\ x \in 0..SendErrThreshold => Does(s, [s EXCEPT !.errs = x])
<1> DEFINE a == [s EXCEPT !.misses = x]
           b == [s EXCEPT !.clears = x]
           c == [s EXCEPT !.errs = x]
           Alike(t) == /\ t.key = s.key /\ t.peer = s.peer /\ t.inbound = s.inbound
                       /\ t.relay = s.relay /\ t.pinned = s.pinned /\ t.late = s.late
                       /\ t.heard = s.heard /\ t.silence = s.silence
<1>1. Alike(a) /\ Alike(b) /\ Alike(c)
  BY SMTT(30) DEF Good, Tunnel
<1>2. /\ x \in 0..BlackholeMissesRequired - 1 => a \in Tunnel
      /\ x \in 0..DirectClearsRequired - 1 => b \in Tunnel
      /\ x \in 0..SendErrThreshold => c \in Tunnel
  BY Updates, Zenon DEF Good
<1> HIDE DEF a, b, c
<1>3. ASSUME NEW t \in Tunnel, Alike(t)
      PROVE  Does(s, t)
  BY <1>3, SameSession, SameRouting, Zenon DEF Does, Good
<1>4. (a \in Tunnel => Does(s, a)) /\ (b \in Tunnel => Does(s, b)) /\ (c \in Tunnel => Does(s, c))
  BY <1>1, <1>3, Zenon
<1>5. /\ x \in 0..BlackholeMissesRequired - 1 => Does(s, a)
      /\ x \in 0..DirectClearsRequired - 1 => Does(s, b)
      /\ x \in 0..SendErrThreshold => Does(s, c)
  BY <1>2, <1>4, Zenon
<1> QED BY <1>5, Zenon DEF a, b, c

LEMMA RemovedGood == Good(Removed) /\ Good(Talking) /\ SessionAgrees(Removed) /\ SessionAgrees(Talking)
<1>1. Removed \in Tunnel /\ RoutingAgrees(Removed) /\ SessionAgrees(Removed)
  BY BoundAssumption, SMTT(30) DEF Removed, Tunnel, RoutingAgrees, SessionAgrees
<1>2. Talking \in Tunnel
  <2> DEFINE a == [Removed EXCEPT !.peer = "direct"]
             b == [a EXCEPT !.key = TRUE]
             c == [b EXCEPT !.heard = TRUE]
             d == [c EXCEPT !.silence = "short"]
  <2>1. a \in Tunnel
    BY <1>1, Updates, Zenon
  <2>2. b \in Tunnel
    BY <2>1, Updates, Zenon
  <2>3. c \in Tunnel
    BY <2>2, Updates, Zenon
  <2>4. d \in Tunnel
    BY <2>3, Updates, Zenon
  <2> QED BY <2>4, Updates, Zenon DEF Talking
<1>3. RoutingAgrees(Talking) /\ SessionAgrees(Talking)
  BY SMTT(30) DEF Removed, Talking, RoutingAgrees, SessionAgrees
<1> QED BY <1>1, <1>2, <1>3, Zenon DEF Good

(* The relay flag and its pin.                                             *)
LEMMA RelayGood ==
  ASSUME NEW s, Good(s)
  PROVE  Does(s, SetRelayPeer(s, TRUE))
<1> DEFINE t == SetRelayPeer(s, TRUE)
<1>1. t \in Tunnel
  BY Updates, Zenon DEF Good, SetRelayPeer
<1>2. /\ t.relay /\ t.heard = s.heard /\ t.silence = s.silence
      /\ t.key = s.key /\ t.peer = s.peer /\ t.inbound = s.inbound
  BY SMTT(30) DEF Good, Tunnel, SetRelayPeer
<1> HIDE DEF t
<1>3. RoutingAgrees(t)
  BY <1>2, Zenon DEF Good, RoutingAgrees
<1>4. Kept(s, t)
  BY <1>2, SameSession, Zenon
<1>5. Does(s, t)
  BY <1>1, <1>3, <1>4, Zenon DEF Does, Good
<1> QED BY <1>5, Zenon DEF t

LEMMA PinGood ==
  ASSUME NEW s, Good(s), NEW r \in BOOLEAN
  PROVE  /\ Does(s, SetRelayPeerPinned(s, r)) /\ Does(s, UnpinRelayPeer(s))
         /\ Does(s, AdmitRelayFromBeacon(s))
<1>1. ASSUME NEW q \in BOOLEAN
      PROVE  Does(s, SetRelayPeerPinned(s, q))
  <2> DEFINE t == SetRelayPeerPinned(s, q)
  <2>1. t \in Tunnel
    BY Zenon DEF Good, Tunnel, SetRelayPeerPinned
  <2>2. /\ t.relay = q /\ t.pinned = q /\ t.heard = s.heard /\ t.silence = s.silence
        /\ t.key = s.key /\ t.peer = s.peer /\ t.inbound = s.inbound
    BY SMTT(30) DEF Good, Tunnel, SetRelayPeerPinned
  <2> HIDE DEF t
  <2>3. RoutingAgrees(t)
    BY <2>2, Zenon DEF Good, RoutingAgrees
  <2>4. Kept(s, t)
    BY <2>2, SameSession, Zenon
  <2>5. Does(s, t)
    BY <2>1, <2>3, <2>4, Zenon DEF Does, Good
  <2> QED BY <2>5, Zenon DEF t
<1>2. Does(s, UnpinRelayPeer(s))
  <2> DEFINE t == UnpinRelayPeer(s)
  <2>1. t \in Tunnel
    BY Zenon DEF Good, Tunnel, UnpinRelayPeer
  <2>2. /\ ~t.pinned /\ t.heard = s.heard /\ t.silence = s.silence
        /\ t.key = s.key /\ t.peer = s.peer /\ t.inbound = s.inbound
    BY SMTT(30) DEF Good, Tunnel, UnpinRelayPeer
  <2> HIDE DEF t
  <2>3. RoutingAgrees(t)
    BY <2>2, Zenon DEF Good, RoutingAgrees
  <2>4. Kept(s, t)
    BY <2>2, SameSession, Zenon
  <2>5. Does(s, t)
    BY <2>1, <2>3, <2>4, Zenon DEF Does, Good
  <2> QED BY <2>5, Zenon DEF t
<1>3. Does(s, AdmitRelayFromBeacon(s))
  BY <1>1, Zenon DEF AdmitRelayFromBeacon
<1> QED BY <1>1, <1>2, <1>3, Zenon

LEMMA MarkGood ==
  ASSUME NEW s, Good(s)
  PROVE  Does(s, MarkRelayActivatedIfHadCrypto(s))
  BY RelayGood, DoesNothing, Zenon DEF MarkRelayActivatedIfHadCrypto

(* The times of the last frames.                                           *)
LEMMA TimesGood ==
  ASSUME NEW s, Good(s)
  PROVE  Does(s, RecordDirectRecv(s)) /\ Does(s, RecordOutboundSend(s))
<1> DEFINE t == RecordDirectRecv(s)
           u == RecordOutboundSend(s)
           Alike(x) == x.key = s.key /\ x.peer = s.peer /\ x.inbound = s.inbound
<1>1. t \in Tunnel /\ u \in Tunnel
  <2>1. t \in Tunnel
    BY Zenon DEF Good, Tunnel, RecordDirectRecv
  <2>2. u \in Tunnel
    BY SMTT(30) DEF Good, Tunnel, RecordOutboundSend
  <2> QED BY <2>1, <2>2, Zenon
<1>2. Alike(t) /\ Alike(u)
  BY SMTT(30) DEF Good, Tunnel, RecordDirectRecv, RecordOutboundSend
<1>3. RoutingAgrees(t) /\ RoutingAgrees(u)
  BY SMTT(30) DEF Good, Tunnel, RoutingAgrees, RecordDirectRecv, RecordOutboundSend
<1> HIDE DEF t, u
<1>4. Kept(s, t) /\ Kept(s, u)
  BY <1>2, SameSession, Zenon
<1>5. Does(s, t) /\ Does(s, u)
  BY <1>1, <1>3, <1>4, Zenon DEF Does, Good
<1> QED BY <1>5, Zenon DEF t, u

LEMMA ClearGood ==
  ASSUME NEW s, Good(s), NEW via
  PROVE  Does(s, ClearRelayOnDirect(s, via))
<1> DEFINE t == [s EXCEPT !.misses = 0]
           u == [t EXCEPT !.relay = FALSE]
<1>1. Does(s, t)
  <2>1. 0 \in 0..BlackholeMissesRequired - 1
    BY BoundAssumption, SMTT(30)
  <2> QED BY <2>1, Counts, Zenon
<1>2. t.clears = s.clears /\ t.relay = s.relay /\ t.pinned = s.pinned
  BY SMTT(30) DEF Good, Tunnel
<1>3. ClearRelayOnDirect(s, via) =
        IF via = "relay" \/ ~s.relay \/ s.pinned THEN t
        ELSE IF s.clears + 1 >= DirectClearsRequired THEN [t EXCEPT !.relay = FALSE, !.clears = 0]
             ELSE [t EXCEPT !.clears = @ + 1]
  BY Zenon DEF ClearRelayOnDirect
<1>4. Good(t)
  BY <1>1, Zenon DEF Does
<1> HIDE DEF t
<1>5. ASSUME ~t.pinned
      PROVE  Does(t, [u EXCEPT !.clears = 0])
  <2>1. u \in Tunnel
    BY <1>4, Updates, Zenon DEF Good
  <2>2. /\ u.pinned = t.pinned /\ u.heard = t.heard /\ u.silence = t.silence
        /\ u.key = t.key /\ u.peer = t.peer /\ u.inbound = t.inbound
    BY <1>4, SMTT(30) DEF Good, Tunnel
  <2> HIDE DEF u
  <2>3. RoutingAgrees(u)
    BY <1>4, <1>5, <2>2, Zenon DEF Good, RoutingAgrees
  <2>4. Does(t, u)
    BY <2>1, <2>2, <2>3, SameSession, Zenon DEF Does, Good
  <2>5. Good(u) /\ 0 \in 0..DirectClearsRequired - 1
    BY <2>1, <2>3, BoundAssumption, SMTT(30) DEF Good
  <2>6. Does(u, [u EXCEPT !.clears = 0])
    BY <2>5, Counts, Zenon
  <2> QED BY <2>4, <2>6, DoesTrans, Zenon
<1>6. [t EXCEPT !.relay = FALSE, !.clears = 0] = [u EXCEPT !.clears = 0]
  BY SMTT(30)
<1>7. ASSUME ~(s.clears + 1 >= DirectClearsRequired)
      PROVE  Does(t, [t EXCEPT !.clears = @ + 1])
  <2>1. t.clears + 1 \in 0..DirectClearsRequired - 1
    BY <1>2, <1>4, <1>7, BoundAssumption, Counters, SMTT(30) DEF Good
  <2>2. [t EXCEPT !.clears = @ + 1] = [t EXCEPT !.clears = t.clears + 1]
    BY SMTT(30)
  <2>3. Does(t, [t EXCEPT !.clears = t.clears + 1])
    BY <1>4, <2>1, Counts, Zenon
  <2> QED BY <2>2, <2>3, Zenon
<1> HIDE DEF u
<1>8. \/ ClearRelayOnDirect(s, via) = t
      \/ Does(t, ClearRelayOnDirect(s, via))
  BY <1>2, <1>3, <1>5, <1>6, <1>7, Zenon
<1> QED BY <1>1, <1>8, DoesTrans, Zenon

LEMMA ErrorGood ==
  ASSUME NEW s, Good(s)
  PROVE  Does(s, HandleSendError(s))
<1>1. CASE s.errs + 1 >= SendErrThreshold /\ ~s.relay
  <2> DEFINE t == SetRelayPeerPinned(s, TRUE)
  <2>1. Does(s, t)
    BY PinGood, Zenon
  <2>2. HandleSendError(s) = [t EXCEPT !.errs = 0]
    BY <1>1, Zenon DEF HandleSendError
  <2> HIDE DEF t
  <2>3. Good(t) /\ 0 \in 0..SendErrThreshold
    BY <2>1, BoundAssumption, SMTT(30) DEF Does
  <2>4. Does(t, [t EXCEPT !.errs = 0])
    BY <2>3, Counts, Zenon
  <2> QED BY <2>1, <2>2, <2>4, DoesTrans, Zenon
<1>2. CASE ~(s.errs + 1 >= SendErrThreshold /\ ~s.relay)
  <2> DEFINE k == IF s.errs < SendErrThreshold THEN s.errs + 1 ELSE s.errs
  <2>1. HandleSendError(s) = [s EXCEPT !.errs = k]
    BY <1>2, SMTT(30) DEF HandleSendError
  <2>2. k \in 0..SendErrThreshold
    BY Counters, BoundAssumption, SMTT(30) DEF Good
  <2> HIDE DEF k
  <2>3. Does(s, [s EXCEPT !.errs = k])
    BY <2>2, Counts, Zenon
  <2> QED BY <2>1, <2>3, Zenon
<1> QED BY <1>1, <1>2, Zenon

LEMMA MissGood ==
  ASSUME NEW s, Good(s)
  PROVE  Does(s, CountMiss(s)) /\ Does(s, MaybeFlipBlackhole(s))
<1>1. Does(s, CountMiss(s))
  <2>1. CASE ~s.relay /\ s.misses + 1 >= BlackholeMissesRequired
    <3> DEFINE t == SetRelayPeerPinned(s, TRUE)
    <3>1. Does(s, t)
      BY PinGood, Zenon
    <3>2. CountMiss(s) = [t EXCEPT !.misses = 0]
      BY <2>1, Zenon DEF CountMiss
    <3> HIDE DEF t
    <3>3. Good(t) /\ 0 \in 0..BlackholeMissesRequired - 1
      BY <3>1, BoundAssumption, SMTT(30) DEF Does
    <3>4. Does(t, [t EXCEPT !.misses = 0])
      BY <3>3, Counts, Zenon
    <3> QED BY <3>1, <3>2, <3>4, DoesTrans, Zenon
  <2>2. CASE ~s.relay /\ ~(s.misses + 1 >= BlackholeMissesRequired)
    <3>1. CountMiss(s) = [s EXCEPT !.misses = s.misses + 1]
      BY <2>2, Zenon DEF CountMiss
    <3>2. s.misses + 1 \in 0..BlackholeMissesRequired - 1
      BY <2>2, Counters, BoundAssumption, SMTT(30) DEF Good
    <3> DEFINE k == s.misses + 1
    <3> HIDE DEF k
    <3>3. k \in 0..BlackholeMissesRequired - 1 => Does(s, [s EXCEPT !.misses = k])
      BY Counts, Zenon
    <3>4. Does(s, [s EXCEPT !.misses = s.misses + 1])
      BY <3>2, <3>3, Zenon DEF k
    <3> QED BY <3>1, <3>4, Zenon
  <2>3. CASE s.relay
    BY <2>3, DoesNothing, Zenon DEF CountMiss
  <2> QED BY <2>1, <2>2, <2>3, Zenon
<1> QED BY <1>1, DoesNothing, Zenon DEF MaybeFlipBlackhole

-----------------------------------------------------------------------------
(* Frames that leave, and what arrives.                                    *)

LEMMA TransmitGood ==
  ASSUME NEW s, Good(s), NEW w \in Transmit(s)
  PROVE  Sent(s, w)
<1>1. Does(s, RecordOutboundSend(s)) /\ Does(s, HandleSendError(s))
  BY TimesGood, ErrorGood, Zenon
<1>2. \/ w = [s |-> RecordOutboundSend(s), via |-> {"relay"}]
      \/ w = [s |-> RecordOutboundSend(s), via |-> {"direct"}]
      \/ w = [s |-> RecordOutboundSend(s), via |-> {}]
      \/ w = [s |-> HandleSendError(s), via |-> {}]
  BY Zenon DEF Transmit
<1> QED BY <1>1, <1>2, SMTT(30) DEF Sent, Way

LEMMA SentAfter ==
  ASSUME NEW s, NEW t, Does(s, t), NEW w, Sent(t, w)
  PROVE  Sent(s, w)
  BY DoesTrans, Zenon DEF Sent

LEMMA WriteGood ==
  ASSUME NEW s, Good(s)
  PROVE  \A w \in WriteFrame(s) : Sent(s, w)
<1> DEFINE t == MaybeFlipBlackhole(s)
<1>1. Does(s, t) /\ Good(t)
  BY MissGood, Zenon DEF Does
<1>2. WriteFrame(s) = Transmit(t)
  BY Zenon DEF WriteFrame
<1> HIDE DEF t
<1>3. ASSUME NEW w \in Transmit(t)
      PROVE  Sent(s, w)
  <2>1. Sent(t, w)
    BY <1>1, TransmitGood, Zenon
  <2> QED BY <1>1, <2>1, SentAfter, Zenon
<1> QED BY <1>2, <1>3, Zenon

LEMMA KxGood ==
  ASSUME NEW s, Good(s), NEW w \in sendKeyExchangeToNode(s)
  PROVE  Sent(s, w)
<1>1. PICK x \in WriteFrame(s) : w = [x EXCEPT !.via = @ \cup IF x.s.relay THEN {} ELSE {"relay"}]
  BY Zenon DEF sendKeyExchangeToNode
<1>2. Sent(s, x)
  BY WriteGood, Zenon
<1>3. \E y, v : x = [s |-> y, via |-> v]
  BY Zenon DEF WriteFrame, Transmit
<1>4. w.s = x.s /\ w.via = x.via \cup (IF x.s.relay THEN {} ELSE {"relay"})
  BY <1>1, <1>3, SMTT(30)
<1> QED BY <1>2, <1>4, SMTT(30) DEF Sent, Way

LEMMA PeerGood ==
  ASSUME NEW s, Good(s), NEW x \in {"direct", "beacon"}
  PROVE  Does(s, [s EXCEPT !.peer = x])
<1> DEFINE t == [s EXCEPT !.peer = x]
<1>1. t \in Tunnel
  BY Updates, Zenon DEF Good
<1>2. /\ t.peer # "none" /\ t.key = s.key /\ t.inbound = s.inbound
      /\ t.relay = s.relay /\ t.pinned = s.pinned /\ t.late = s.late
      /\ t.heard = s.heard /\ t.silence = s.silence
  BY SMTT(30) DEF Good, Tunnel
<1> HIDE DEF t
<1>3. RoutingAgrees(t)
  BY <1>2, SameRouting, Zenon DEF Good
<1>4. Kept(s, t)
  BY <1>2, Zenon DEF Kept, SessionAgrees
<1>5. Does(s, t)
  BY <1>1, <1>3, <1>4, Zenon DEF Does, Good
<1> QED BY <1>5, Zenon DEF t

LEMMA InboundGood ==
  ASSUME NEW s, Good(s), NEW x \in {"recent", "silent"}
  PROVE  Does(s, [s EXCEPT !.inbound = x])
<1> DEFINE t == [s EXCEPT !.inbound = x]
<1>1. t \in Tunnel
  BY Updates, Zenon DEF Good
<1>2. /\ t.inbound # "none" /\ t.key = s.key /\ t.peer = s.peer
      /\ t.relay = s.relay /\ t.pinned = s.pinned /\ t.late = s.late
      /\ t.heard = s.heard /\ t.silence = s.silence
  BY SMTT(30) DEF Good, Tunnel
<1> HIDE DEF t
<1>3. RoutingAgrees(t)
  BY <1>2, SameRouting, Zenon DEF Good
<1>4. Kept(s, t)
  BY <1>2, Zenon DEF Kept, SessionAgrees
<1>5. Does(s, t)
  BY <1>1, <1>3, <1>4, Zenon DEF Does, Good
<1> QED BY <1>5, Zenon DEF t

LEMMA EnsureGood ==
  ASSUME NEW n, NEW s, NEW c, Good(s)
  PROVE  Does(s, ensureTunnel(n, s, c))
<1> DEFINE t == SetRelayPeerPinned(s, TRUE)
<1>1. Address(n) \in {"direct", "beacon"}
  BY Zenon DEF Address
<1>2. Does(s, t) /\ Good(t)
  BY PinGood, Zenon DEF Does
<1>3. ensureTunnel(n, s, c) \in {s, AddPeer(n, t), AddPeer(n, s)}
  BY Zenon DEF ensureTunnel
<1> HIDE DEF t
<1>4. Does(s, AddPeer(n, s)) /\ Does(t, AddPeer(n, t))
  BY <1>1, <1>2, PeerGood, Zenon DEF AddPeer
<1>5. Does(s, AddPeer(n, t)) /\ Does(s, s)
  BY <1>2, <1>4, DoesTrans, DoesNothing, Zenon
<1> QED BY <1>3, <1>4, <1>5, Zenon

LEMMA RekeyGood ==
  ASSUME NEW s, Good(s), NEW via
  PROVE  Does(s, maybeRequestRekey(s, via))
<1> DEFINE t == IF s.peer # "none" THEN s
                ELSE [s EXCEPT !.peer = IF via = "relay" THEN "beacon" ELSE "direct"]
<1>1. Does(s, [s EXCEPT !.peer = "beacon"]) /\ Does(s, [s EXCEPT !.peer = "direct"])
  BY PeerGood, Zenon
<1>2. Does(s, t) /\ Good(t)
  BY <1>1, DoesNothing, Zenon DEF Does
<1>3. maybeRequestRekey(s, via) =
        IF via = "relay" /\ s.peer # "direct" THEN AdmitRelayFromBeacon(t) ELSE t
  BY Zenon DEF maybeRequestRekey
<1> HIDE DEF t
<1>4. Does(t, AdmitRelayFromBeacon(t))
  BY <1>2, PinGood, Zenon
<1>5. Does(s, AdmitRelayFromBeacon(t))
  BY <1>2, <1>4, DoesTrans, Zenon
<1> QED BY <1>2, <1>3, <1>5, Zenon

(* The hook leaves the key a tunnel entry and the time of the last frame.  *)
LEMMA InstallGood ==
  ASSUME NEW s, Good(s), NEW via, NEW had \in BOOLEAN
  PROVE  /\ Does(s, onKeyInstalled(s, via, had))
         /\ SessionAgrees(onKeyInstalled(s, via, had))
<1> DEFINE v == IF had THEN s.viaRelay ELSE via = "relay"
           b == [s EXCEPT !.inbound = "recent"]
           t == [b EXCEPT !.viaRelay = v]
           Keyed(x, q) == [x EXCEPT !.peer = q]
<1>1. s \in Tunnel /\ v \in BOOLEAN
  BY Flags, Zenon DEF Good
<1> HIDE DEF v
<1>2. Does(s, b) /\ Good(b) /\ b.peer = s.peer /\ b.inbound = "recent"
  <2>1. Does(s, b)
    BY InboundGood, Zenon
  <2>2. b.peer = s.peer /\ b.inbound = "recent"
    BY <1>1, SMTT(30) DEF Tunnel
  <2> QED BY <2>1, <2>2, Zenon DEF Does
<1>3. onKeyInstalled(s, via, had) =
        IF via = "direct" THEN Keyed(t, "direct")
        ELSE IF s.peer = "direct" THEN t ELSE AdmitRelayFromBeacon(Keyed(t, "beacon"))
  BY Zenon DEF onKeyInstalled, v
<1> HIDE DEF b
<1>4. Does(b, t) /\ t.peer = s.peer /\ t.inbound = "recent"
  <2>1. t \in Tunnel
    BY <1>1, <1>2, Updates, Zenon DEF Good
  <2>2. /\ t.inbound = b.inbound /\ t.key = b.key /\ t.peer = b.peer
        /\ t.relay = b.relay /\ t.pinned = b.pinned /\ t.late = b.late
        /\ t.heard = b.heard /\ t.silence = b.silence
    BY <1>2, SMTT(30) DEF Good, Tunnel
  <2> HIDE DEF t
  <2>3. RoutingAgrees(t) /\ Kept(b, t)
    BY <1>2, <2>2, SameRouting, SameSession, Zenon DEF Good
  <2> QED BY <1>2, <2>1, <2>2, <2>3, Zenon DEF Does, Good
<1> HIDE DEF t
<1>5. Does(s, t) /\ Good(t)
  BY <1>2, <1>4, DoesTrans, Zenon DEF Does
<1>6. ASSUME NEW q \in {"direct", "beacon"}
      PROVE  Does(s, Keyed(t, q)) /\ Keyed(t, q).peer = q /\ Keyed(t, q).inbound = "recent"
  <2>1. Does(t, Keyed(t, q))
    BY <1>5, PeerGood, Zenon
  <2>2. Keyed(t, q).peer = q /\ Keyed(t, q).inbound = "recent"
    BY <1>4, <1>5, SMTT(30) DEF Good, Tunnel
  <2> HIDE DEF Keyed
  <2> QED BY <1>5, <2>1, <2>2, DoesTrans, Zenon
<1> DEFINE u == Keyed(t, "beacon")
           x == Keyed(t, "direct")
           a == AdmitRelayFromBeacon(u)
<1>7. /\ Does(s, u) /\ Good(u) /\ SessionAgrees(u)
      /\ Does(s, x) /\ SessionAgrees(x)
  <2>1. Does(s, u) /\ u.peer = "beacon" /\ u.inbound = "recent"
    BY <1>6, Zenon
  <2>2. Does(s, x) /\ x.peer = "direct" /\ x.inbound = "recent"
    BY <1>6, Zenon
  <2> HIDE DEF u, x
  <2> QED BY <2>1, <2>2, Zenon DEF Does, SessionAgrees
<1>8. onKeyInstalled(s, via, had) = IF via = "direct" THEN x ELSE IF s.peer = "direct" THEN t ELSE a
  BY <1>3, Zenon
<1> HIDE DEF u, x
<1>9. Does(u, a)
  BY <1>7, PinGood, Zenon
<1> HIDE DEF a
<1>10. Does(s, a) /\ SessionAgrees(a)
  BY <1>7, <1>9, DoesTrans, Zenon DEF Does, Kept
<1>11. s.peer = "direct" => SessionAgrees(t)
  BY <1>4, Zenon DEF SessionAgrees
<1> QED BY <1>5, <1>7, <1>8, <1>10, <1>11, Zenon

LEMMA DecryptedGood ==
  ASSUME NEW s, Good(s), NEW via
  PROVE  Does(s, Decrypted(s, via))
<1> DEFINE c == ClearRelayOnDirect(s, via)
           t == [c EXCEPT !.inbound = "recent"]
           r == RecordDirectRecv(t)
<1>1. Does(s, c) /\ Good(c)
  BY ClearGood, Zenon DEF Does
<1>2. Decrypted(s, via) = IF via = "direct" THEN [r EXCEPT !.peer = "direct"] ELSE t
  BY Zenon DEF Decrypted
<1> HIDE DEF c
<1>3. Does(c, t)
  BY <1>1, InboundGood, Zenon
<1> HIDE DEF t
<1>4. Does(s, t) /\ Good(t)
  BY <1>1, <1>3, DoesTrans, Zenon DEF Does
<1>5. Does(t, r)
  BY <1>4, TimesGood, Zenon
<1> HIDE DEF r
<1>6. Does(s, r) /\ Good(r)
  BY <1>4, <1>5, DoesTrans, Zenon DEF Does
<1>7. Does(r, [r EXCEPT !.peer = "direct"])
  BY <1>6, PeerGood, Zenon
<1>8. Does(s, [r EXCEPT !.peer = "direct"])
  BY <1>6, <1>7, DoesTrans, Zenon
<1> QED BY <1>2, <1>4, <1>8, Zenon

LEMMA DeliverGood ==
  ASSUME NEW s, Good(s)
  PROVE  Does(s, handleRelayDeliver(s))
<1> DEFINE t == MarkRelayActivatedIfHadCrypto(s)
<1>1. Does(s, t) /\ Good(t)
  BY MarkGood, Zenon DEF Does
<1>2. handleRelayDeliver(s) \in {s, t, [t EXCEPT !.peer = "beacon"]}
  BY Zenon DEF handleRelayDeliver
<1> HIDE DEF t
<1>3. Does(t, [t EXCEPT !.peer = "beacon"])
  BY <1>1, PeerGood, Zenon
<1>4. Does(s, [t EXCEPT !.peer = "beacon"]) /\ Does(s, s)
  BY <1>1, <1>3, DoesTrans, DoesNothing, Zenon
<1> QED BY <1>1, <1>2, <1>4, Zenon

(* RemovePeer: once the session is dropped, nothing it does brings one.    *)
LEMMA WipedGood ==
  ASSUME NEW s, Good(s), NEW at \in 1..5
  PROVE  /\ Good(Wiped(s, at)) /\ (at = 1 => ~Wiped(s, at).key)
         /\ at # 1 => Wiped(s, at).key = s.key
<1>1. CASE at = 1
  <2> DEFINE t == [s EXCEPT !.key = FALSE]
  <2>1. Wiped(s, at) = t
    BY <1>1, SMTT(30) DEF Wiped
  <2>2. t \in Tunnel
    BY Updates, Zenon DEF Good
  <2>3. /\ ~t.key /\ t.relay = s.relay /\ t.pinned = s.pinned /\ t.late = s.late
        /\ t.heard = s.heard /\ t.silence = s.silence
    BY SMTT(30) DEF Good, Tunnel
  <2> HIDE DEF t
  <2> QED BY <1>1, <2>1, <2>2, <2>3, SameRouting, Zenon DEF Good
<1>2. CASE at \in {2, 4, 5}
  <2> DEFINE x == [s EXCEPT !.peer = "none"]
             y == [s EXCEPT !.inbound = "none"]
             z == [s EXCEPT !.viaRelay = FALSE]
             Alike(t) == /\ t.key = s.key /\ t.relay = s.relay /\ t.pinned = s.pinned
                         /\ t.late = s.late /\ t.heard = s.heard /\ t.silence = s.silence
  <2>1. Wiped(s, at) \in {x, y, z} /\ at # 1
    BY <1>2, SMTT(30) DEF Wiped
  <2>2. x \in Tunnel /\ y \in Tunnel /\ z \in Tunnel
    BY Updates, Zenon DEF Good
  <2>3. Alike(x) /\ Alike(y) /\ Alike(z)
    BY SMTT(30) DEF Good, Tunnel
  <2> HIDE DEF x, y, z
  <2> QED BY <2>1, <2>2, <2>3, SameRouting, Zenon DEF Good
<1>3. CASE at = 3
  <2> DEFINE t == [Removed EXCEPT !.peer = s.peer, !.key = s.key,
                                  !.viaRelay = s.viaRelay, !.inbound = s.inbound]
  <2>1. Wiped(s, at) = t /\ at # 1
    BY <1>3, SMTT(30) DEF Wiped
  <2>2. /\ s.peer \in {"none", "direct", "beacon"} /\ s.key \in BOOLEAN /\ s.viaRelay \in BOOLEAN
        /\ s.inbound \in {"none", "recent", "silent"}
    BY Flags, Zenon DEF Good
  <2>3. Removed \in Tunnel
    BY RemovedGood, Zenon DEF Good
  <2>4. t \in Tunnel
    <3> DEFINE x == [Removed EXCEPT !.peer = s.peer]
               y == [x EXCEPT !.key = s.key]
               z == [y EXCEPT !.viaRelay = s.viaRelay]
    <3>1. x \in Tunnel
      BY <2>2, <2>3, Updates, Zenon
    <3>2. y \in Tunnel
      BY <2>2, <3>1, Updates, Zenon
    <3>3. z \in Tunnel
      BY <2>2, <3>2, Updates, Zenon
    <3>4. [z EXCEPT !.inbound = s.inbound] \in Tunnel
      BY <2>2, <3>3, Updates, Zenon
    <3> QED BY <3>4, Zenon
  <2>5. t.key = s.key /\ RoutingAgrees(t)
    <3>1. t.key = s.key /\ t.pinned = Removed.pinned /\ t.heard = Removed.heard
      BY <2>3, SMTT(30) DEF Tunnel
    <3>2. ~Removed.pinned /\ ~Removed.heard
      BY SMTT(30) DEF Removed
    <3> HIDE DEF t
    <3> QED BY <3>1, <3>2, Zenon DEF RoutingAgrees
  <2> QED BY <2>1, <2>4, <2>5, Zenon DEF Good
<1>4. at = 1 \/ at \in {2, 4, 5} \/ at = 3
  BY SMTT(30)
<1> QED BY <1>1, <1>2, <1>3, <1>4, Zenon

(* The end of a dial's flip: it looked before the pin, if there is one.    *)
LEMMA UnflipGood ==
  ASSUME NEW s, Good(s)
  PROVE  Does(s, [SetRelayPeer(s, FALSE) EXCEPT !.late = s.pinned])
<1> DEFINE t == [SetRelayPeer(s, FALSE) EXCEPT !.late = s.pinned]
<1>1. t \in Tunnel
  <2>1. SetRelayPeer(s, FALSE) \in Tunnel /\ s.pinned \in BOOLEAN
    BY Updates, Flags, Zenon DEF Good, SetRelayPeer
  <2> QED BY <2>1, Updates, Zenon
<1>2. /\ t.late = s.pinned /\ t.pinned = s.pinned /\ t.heard = s.heard /\ t.silence = s.silence
      /\ t.key = s.key /\ t.peer = s.peer /\ t.inbound = s.inbound
  BY SMTT(30) DEF Good, Tunnel, SetRelayPeer
<1> HIDE DEF t
<1>3. RoutingAgrees(t) /\ Kept(s, t)
  BY <1>2, SameSession, Zenon DEF Good, RoutingAgrees
<1>4. Does(s, t)
  BY <1>1, <1>3, Zenon DEF Does, Good
<1> QED BY <1>4, Zenon DEF t

-----------------------------------------------------------------------------
(* What a step does to the records and the frames in flight.               *)

LEMMA StagedKept ==
  ASSUME NEW s, NEW t, NEW r, NEW i, Staged(s, r, i), Kept(s, t)
  PROVE  Staged(t, r, i)
<1>1. (~s.key => ~t.key) /\ (SessionAgrees(s) => SessionAgrees(t))
  BY Zenon DEF Kept
<1> QED BY <1>1, Zenon DEF Staged

LEMMA TunOf ==
  ASSUME Tuns, NEW n \in Node
  PROVE  /\ Good(tun[n]) /\ removing[n] \in Removal /\ installing[n] \in Install
         /\ Staged(tun[n], removing[n], installing[n])
  BY Zenon DEF Tuns, Good

(* The record of a node, and its threads.                                  *)
LEMMA TunThreads ==
  ASSUME Tuns, NEW n \in Node, NEW x, Good(x), NEW r \in Removal, NEW i \in Install, Staged(x, r, i),
         tun' = [tun EXCEPT ![n] = x], removing' = [removing EXCEPT ![n] = r],
         installing' = [installing EXCEPT ![n] = i]
  PROVE  Tuns'
<1>1. tun' \in [Node -> Tunnel] /\ removing' \in [Node -> Removal] /\ installing' \in [Node -> Install]
  BY Zenon DEF Tuns, Good
<1>2. ASSUME NEW m \in Node
      PROVE  RoutingAgrees(tun'[m]) /\ Staged(tun'[m], removing'[m], installing'[m])
  <2>1. CASE m = n
    <3>1. tun'[m] = x /\ removing'[m] = r /\ installing'[m] = i
      BY <2>1, Zenon DEF Tuns
    <3> QED BY <3>1, Zenon DEF Good
  <2>2. CASE m # n
    <3>1. tun'[m] = tun[m] /\ removing'[m] = removing[m] /\ installing'[m] = installing[m]
      BY <2>2, Zenon DEF Tuns
    <3> QED BY <3>1, Zenon DEF Tuns
  <2> QED BY <2>1, <2>2, Zenon
<1> QED BY <1>1, <1>2, Zenon DEF Tuns

LEMMA TunSet ==
  ASSUME Tuns, NEW n \in Node, NEW x, Does(tun[n], x), tun' = [tun EXCEPT ![n] = x],
         UNCHANGED threads
  PROVE  Tuns'
<1>1. /\ Good(x) /\ removing[n] \in Removal /\ installing[n] \in Install
      /\ Staged(x, removing[n], installing[n])
  BY TunOf, StagedKept, Zenon DEF Does
<1>2. removing' = [removing EXCEPT ![n] = removing[n]] /\ installing' = [installing EXCEPT ![n] = installing[n]]
  BY Zenon DEF Tuns, threads
<1> QED BY <1>1, <1>2, TunThreads, Zenon

LEMMA TunSetBoth ==
  ASSUME Tuns, NEW n \in Node, NEW m \in Node, n # m, NEW x, Does(tun[n], x), NEW y, Does(tun[m], y),
         tun' = [tun EXCEPT ![n] = x, ![m] = y], UNCHANGED threads
  PROVE  Tuns'
<1>1. tun' \in [Node -> Tunnel]
  BY Zenon DEF Tuns, Does, Good
<1>2. removing' = removing /\ installing' = installing
  BY Zenon DEF threads
<1>3. ASSUME NEW k \in Node
      PROVE  RoutingAgrees(tun'[k]) /\ Staged(tun'[k], removing[k], installing[k])
  <2>1. tun'[k] = IF k = m THEN y ELSE IF k = n THEN x ELSE tun[k]
    BY Zenon DEF Tuns
  <2>2. Does(tun[k], tun'[k])
    BY <2>1, TunOf, DoesNothing, Zenon
  <2> QED BY <2>2, TunOf, StagedKept, Zenon DEF Does, Good
<1> QED BY <1>1, <1>2, <1>3, Zenon DEF Tuns

LEMMA Flies ==
  ASSUME NEW V, V \subseteq Way, NEW kind \in {"kx", "kxreq"}
  PROVE  {<<v, kind>> : v \in V} \subseteq Frame
  BY SMTT(30) DEF Way, Frame

LEMMA KxFlies ==
  ASSUME Airs, NEW n \in Node, NEW kind \in {"kx", "kxreq"}, NEW s, NEW w, Sent(s, w),
         PutKx(n, kind, w)
  PROVE  Airs'
<1>1. Peer(n) \in Node
  BY Peers, Zenon
<1> DEFINE F == {<<v, kind>> : v \in w.via}
<1>2. F \subseteq Frame
  BY Flies, Zenon DEF Sent
<1>3. air' = air \/ air' = [air EXCEPT ![Peer(n)] = @ \cup F]
  BY Zenon DEF PutKx
<1> HIDE DEF F
<1> QED BY <1>1, <1>2, <1>3, SMTT(30) DEF Airs

LEMMA KxStep ==
  ASSUME Tuns, Airs, NEW n \in Node, NEW kind \in {"kx", "kxreq"}, NEW w, Sent(tun[n], w),
         PutKx(n, kind, w), UNCHANGED threads
  PROVE  Tuns' /\ Airs'
<1>1. Tuns'
  BY TunSet, Zenon DEF PutKx, Sent
<1>2. Airs'
  BY KxFlies, Zenon
<1> QED BY <1>1, <1>2, Zenon

LEMMA DataStep ==
  ASSUME Tuns, Airs, NEW n \in Node, NEW w, Sent(tun[n], w), PutData(n, w), UNCHANGED threads
  PROVE  Tuns' /\ Airs'
<1> DEFINE m == Peer(n)
           via == CHOOSE v \in w.via : TRUE
           s == IF via = "relay" THEN handleRelayDeliver(tun[m]) ELSE tun[m]
<1>1. m \in Node /\ m # n
  BY Peers, Zenon
<1>2. Does(tun[m], s) /\ Good(s)
  BY <1>1, TunOf, DeliverGood, DoesNothing, Zenon DEF Does
<1>3. \/ tun' = [tun EXCEPT ![n] = w.s] /\ air' = air
      \/ s.key /\ tun' = [tun EXCEPT ![n] = w.s, ![m] = Decrypted(s, via)] /\ air' = air
      \/ \E x \in sendKeyExchangeToNode(maybeRequestRekey(s, via)) :
           /\ tun' = [tun EXCEPT ![n] = w.s, ![m] = x.s]
           /\ air' = [air EXCEPT ![n] = @ \cup {<<v, "kxreq">> : v \in x.via}]
  BY Zenon DEF PutData
<1>4. Does(tun[n], w.s)
  BY Zenon DEF Sent
<1> HIDE DEF m, via, s
<1>5. CASE tun' = [tun EXCEPT ![n] = w.s] /\ air' = air
  BY <1>4, <1>5, TunSet, Zenon DEF Airs
<1>6. CASE s.key /\ tun' = [tun EXCEPT ![n] = w.s, ![m] = Decrypted(s, via)] /\ air' = air
  <2>1. Does(s, Decrypted(s, via))
    BY <1>2, DecryptedGood, Zenon
  <2>2. Does(tun[m], Decrypted(s, via))
    BY <1>2, <2>1, DoesTrans, Zenon
  <2>3. Tuns'
    BY <1>1, <1>4, <1>6, <2>2, TunSetBoth, Zenon
  <2> QED BY <1>6, <2>3, Zenon DEF Airs
<1>7. ASSUME NEW x \in sendKeyExchangeToNode(maybeRequestRekey(s, via)),
             tun' = [tun EXCEPT ![n] = w.s, ![m] = x.s],
             air' = [air EXCEPT ![n] = @ \cup {<<v, "kxreq">> : v \in x.via}]
      PROVE  Tuns' /\ Airs'
  <2> DEFINE q == maybeRequestRekey(s, via)
  <2>1. Does(s, q) /\ Good(q)
    BY <1>2, RekeyGood, Zenon DEF Does
  <2>2. Sent(q, x)
    BY <1>7, <2>1, KxGood, Zenon
  <2> HIDE DEF q
  <2>3. Does(tun[m], x.s) /\ x.via \subseteq Way
    BY <1>2, <2>1, <2>2, DoesTrans, Zenon DEF Sent
  <2>4. Tuns'
    BY <1>1, <1>4, <1>7, <2>3, TunSetBoth, Zenon
  <2> DEFINE F == {<<v, "kxreq">> : v \in x.via}
  <2>5. F \subseteq Frame
    BY <2>3, Flies, Zenon
  <2>6. air' = [air EXCEPT ![n] = @ \cup F]
    BY <1>7, Zenon
  <2> HIDE DEF F
  <2>7. Airs'
    BY <2>5, <2>6, SMTT(30) DEF Airs
  <2> QED BY <2>4, <2>7, Zenon
<1> QED BY <1>3, <1>5, <1>6, <1>7, Zenon

(* Outside RemovePeer and the install of a key the maps agree, unless they *)
(* overlapped.                                                             *)
LEMMA InvIsSound == Inv => PathsSound
<1>1. Inv => TypeOK
  BY Zenon DEF Inv, TypeOK, Tuns, Airs, Dials, Timers, Rest
<1>2. ASSUME Inv, NEW n \in Node
      PROVE  Undisturbed(n) => SessionAgrees(tun[n])
  <2>1. Staged(tun[n], removing[n], installing[n])
    BY <1>2, Zenon DEF Inv, Tuns
  <2>2. removing[n].at = 0 => removing[n].at # 1
    BY SMTT(30)
  <2> QED BY <2>1, <2>2, Zenon DEF Staged, Undisturbed
<1>3. ASSUME Inv, NEW n \in Node
      PROVE  /\ RoutingAgrees(tun[n]) /\ (dial[n].here => dial[n].relayActive)
             /\ ~dial[n].open /\ dial[n].look = "none" => dial[n] = NoDial
  BY <1>3, Zenon DEF Inv, Tuns, Dials, DialGood
<1> QED BY <1>1, <1>2, <1>3, Zenon DEF PathsSound

-----------------------------------------------------------------------------
(* The actions of a peer in use.                                           *)

LEMMA WriteStep ==
  ASSUME Inv, NEW n \in Node, Write(n) \/ WriteLocked(n)
  PROVE  Inv'
<1>1. Tuns /\ Airs /\ Good(tun[n]) /\ UNCHANGED threads
  BY TunOf, Zenon DEF Inv, Write, WriteLocked
<1>2. Tuns' /\ Airs'
  <2>1. CASE Write(n)
    <3>1. UNCHANGED <<tun, air>> \/ \E w \in Transmit(tun[n]) : PutData(n, w)
      BY <2>1, Zenon DEF Write
    <3>2. CASE UNCHANGED <<tun, air>>
      BY <1>1, <3>2, Zenon DEF Tuns, Airs, threads
    <3>3. CASE \E w \in Transmit(tun[n]) : PutData(n, w)
      BY <1>1, <3>3, TransmitGood, DataStep, Zenon
    <3> QED BY <3>1, <3>2, <3>3, Zenon
  <2>2. CASE WriteLocked(n)
    <3> DEFINE c == CountMiss(tun[n])
    <3>1. Does(tun[n], c) /\ Good(c)
      BY <1>1, MissGood, Zenon DEF Does
    <3>2. PICK w \in Transmit(c) : PutData(n, w)
      BY <2>2, Zenon DEF WriteLocked
    <3> HIDE DEF c
    <3>3. Sent(c, w)
      BY <3>1, <3>2, TransmitGood, Zenon
    <3>4. Sent(tun[n], w)
      BY <3>1, <3>3, SentAfter, Zenon
    <3> QED BY <1>1, <3>2, <3>4, DataStep, Zenon
  <2> QED BY <2>1, <2>2, Zenon
<1>3. Rest'
  BY Zenon DEF Inv, Rest, Write, WriteLocked
<1>4. Dials' /\ Timers'
  BY Zenon DEF Inv, Dials, Timers, Write, WriteLocked
<1> QED BY <1>2, <1>3, <1>4, Zenon DEF Inv

(* A key exchange arrives: it overlaps a removal, or is not done yet.      *)
LEMMA ReceiveStep ==
  ASSUME Inv, NEW n \in Node, NEW f \in Frame, ReceiveKx(n, f)
  PROVE  Inv'
<1> DEFINE s == IF f[1] = "relay" THEN handleRelayDeliver(tun[n]) ELSE tun[n]
           t == [s EXCEPT !.key = TRUE]
           c == removing[n].at \in 1..5
           r == [removing[n] EXCEPT !.crossed = c]
           i == <<f[1], f[2], s.key>>
<1>1. Tuns /\ Airs /\ Good(tun[n]) /\ removing[n] \in Removal
  BY TunOf, Zenon DEF Inv
<1>2. Good(s)
  BY <1>1, DeliverGood, DoesNothing, Zenon DEF Does
<1>3. /\ air' = [air EXCEPT ![n] = @ \ {f}] /\ tun' = [tun EXCEPT ![n] = t]
      /\ installing' = [installing EXCEPT ![n] = i]
      /\ removing' = [removing EXCEPT ![n] = r]
      /\ UNCHANGED <<cache, writing, upgrade, probes, orphan, dial>>
  BY Zenon DEF ReceiveKx
<1> HIDE DEF s
<1>4. Good(t)
  <2>1. t \in Tunnel
    BY <1>2, Updates, Zenon DEF Good
  <2>2. t.relay = s.relay /\ t.pinned = s.pinned /\ t.late = s.late /\ t.heard = s.heard /\ t.silence = s.silence
    BY <1>2, SMTT(30) DEF Good, Tunnel
  <2> HIDE DEF t
  <2> QED BY <1>2, <2>1, <2>2, SameRouting, Zenon DEF Good
<1> HIDE DEF t
<1>5. i \in Install /\ i # <<>>
  <2>1. s.key \in BOOLEAN
    BY <1>2, Flags, Zenon DEF Good
  <2>2. f[1] \in {"direct", "relay"} /\ f[2] \in {"kx", "kxreq"}
    BY SMTT(30) DEF Frame
  <2> QED BY <2>1, <2>2, SMTT(30) DEF Install
<1>6. r \in Removal /\ r.at = removing[n].at /\ r.crossed = c
  <2>1. c \in BOOLEAN
    BY SMTT(30)
  <2> HIDE DEF c
  <2> QED BY <1>1, <2>1, SMTT(30) DEF Removal
<1> HIDE DEF i, r
<1>7. Staged(t, r, i)
  <2>1. ~r.crossed => ~(r.at \in 1..5)
    BY <1>6, Zenon
  <2>2. r.at \in 2..5 => r.at \in 1..5
    BY SMTT(30)
  <2> QED BY <1>5, <2>1, <2>2, Zenon DEF Staged
<1>8. Tuns'
  BY <1>1, <1>3, <1>4, <1>5, <1>6, <1>7, TunThreads, Zenon
<1>9. Airs'
  BY <1>1, <1>3, SMTT(30) DEF Airs
<1> QED BY <1>3, <1>8, <1>9, Zenon DEF Inv, Dials, Timers, Rest

(* The hook: afterwards the key has what it needs.                         *)
LEMMA InstalledStep ==
  ASSUME Inv, NEW n \in Node, KeyInstalled(n)
  PROVE  Inv'
<1> DEFINE i == installing[n]
           s == onKeyInstalled(tun[n], i[1], i[3])
           r == removing[n]
<1>1. Tuns /\ Airs /\ Good(tun[n]) /\ r \in Removal /\ i \in Install /\ Staged(tun[n], r, i)
  BY TunOf, Zenon DEF Inv
<1>2. /\ i # <<>> /\ installing' = [installing EXCEPT ![n] = <<>>]
      /\ \/ \E w \in sendKeyExchangeToNode(s) : PutKx(n, "kx", w)
         \/ tun' = [tun EXCEPT ![n] = s] /\ air' = air
      /\ UNCHANGED <<cache, removing, writing, upgrade, probes, orphan, dial>>
  BY Zenon DEF KeyInstalled
<1>3. i[3] \in BOOLEAN
  BY <1>1, <1>2, SMTT(30) DEF Install
<1>4. Does(tun[n], s) /\ SessionAgrees(s) /\ Good(s)
  BY <1>1, <1>3, InstallGood, Zenon DEF Does
<1> HIDE DEF s
<1>5. ASSUME NEW t, Does(s, t), tun' = [tun EXCEPT ![n] = t]
      PROVE  Tuns'
  <2>1. Good(t) /\ SessionAgrees(t)
    BY <1>4, <1>5, Zenon DEF Does, Kept
  <2>2. Staged(t, r, <<>>)
    <3>1. r.at \in 2..5 => r.at \in 1..5
      BY SMTT(30)
    <3> QED BY <1>1, <1>2, <2>1, <3>1, Zenon DEF Staged
  <2>3. <<>> \in Install
    BY SMTT(30) DEF Install
  <2>4. removing' = [removing EXCEPT ![n] = r]
    BY <1>1, <1>2, Zenon DEF Tuns
  <2> QED BY <1>1, <1>2, <1>5, <2>1, <2>2, <2>3, <2>4, TunThreads, Zenon
<1>6. Tuns' /\ Airs'
  <2>1. CASE tun' = [tun EXCEPT ![n] = s] /\ air' = air
    BY <1>1, <1>4, <1>5, <2>1, DoesNothing, Zenon DEF Airs
  <2>2. ASSUME NEW w \in sendKeyExchangeToNode(s), PutKx(n, "kx", w)
        PROVE  Tuns' /\ Airs'
    <3>1. Sent(s, w)
      BY <1>4, <2>2, KxGood, Zenon
    <3>2. Tuns'
      BY <1>5, <2>2, <3>1, Zenon DEF Sent, PutKx
    <3>3. Airs'
      BY <1>1, <2>2, <3>1, KxFlies, Zenon
    <3> QED BY <3>2, <3>3, Zenon
  <2> QED BY <1>2, <2>1, <2>2, Zenon
<1> QED BY <1>2, <1>6, Zenon DEF Inv, Dials, Timers, Rest

LEMMA RetransmitStep ==
  ASSUME Inv, NEW n \in Node, rekeyRetransmit(n)
  PROVE  Inv'
<1>1. Tuns /\ Airs /\ Good(tun[n])
  BY TunOf, Zenon DEF Inv
<1>2. Does(tun[n], SetRelayPeer(tun[n], TRUE))
  BY <1>1, RelayGood, Zenon
<1>3. PICK s \in {tun[n], SetRelayPeer(tun[n], TRUE)} : \E w \in sendKeyExchangeToNode(s) : PutKx(n, "kxreq", w)
  BY Zenon DEF rekeyRetransmit
<1>4. PICK w \in sendKeyExchangeToNode(s) : PutKx(n, "kxreq", w)
  BY <1>3, Zenon
<1>5. Does(tun[n], s) /\ Good(s)
  BY <1>1, <1>2, <1>3, DoesNothing, Zenon DEF Does
<1>6. Sent(s, w)
  BY <1>4, <1>5, KxGood, Zenon
<1>7. Sent(tun[n], w)
  BY <1>5, <1>6, SentAfter, Zenon
<1>8. UNCHANGED <<cache, own, dial>>
  BY Zenon DEF rekeyRetransmit
<1>9. Tuns' /\ Airs'
  BY <1>1, <1>4, <1>7, <1>8, KxStep, Zenon DEF own
<1> QED BY <1>8, <1>9, Zenon DEF Inv, Dials, Timers, Rest, own

LEMMA SilenceStep ==
  ASSUME Inv, NEW n \in Node, FallSilent(n)
  PROVE  Inv'
<1> DEFINE s == tun[n]
           x == [s EXCEPT !.silence = "long"]
           y == [s EXCEPT !.inbound = "silent"]
<1>1. Tuns /\ Good(s)
  BY TunOf, Zenon DEF Inv
<1>2. tun' = [tun EXCEPT ![n] = x] \/ tun' = [tun EXCEPT ![n] = y]
  BY Zenon DEF FallSilent
<1>3. UNCHANGED <<cache, own, dial, air>>
  BY Zenon DEF FallSilent
<1>4. Does(s, x)
  <2>1. x \in Tunnel
    BY <1>1, Updates, Zenon DEF Good
  <2>2. /\ x.silence = "long" /\ x.relay = s.relay /\ x.pinned = s.pinned /\ x.late = s.late
        /\ x.key = s.key /\ x.peer = s.peer /\ x.inbound = s.inbound
    BY <1>1, SMTT(30) DEF Good, Tunnel
  <2> HIDE DEF x, s
  <2>3. RoutingAgrees(x) /\ Kept(s, x)
    BY <1>1, <2>2, SameSession, Zenon DEF Good, RoutingAgrees
  <2> QED BY <2>1, <2>3, Zenon DEF Does, Good
<1>5. Does(s, y)
  BY <1>1, InboundGood, Zenon
<1> HIDE DEF x, y
<1>6. Tuns'
  BY <1>1, <1>2, <1>3, <1>4, <1>5, TunSet, Zenon DEF own
<1> QED BY <1>3, <1>6, Zenon DEF Inv, Airs, Dials, Timers, Rest, own

LEMMA UpgradeStep ==
  ASSUME Inv, NEW n \in Node, tryDirectUpgrade(n)
  PROVE  Inv'
<1>1. Tuns /\ Good(tun[n])
  BY TunOf, Zenon DEF Inv
<1>2. Does(tun[n], UnpinRelayPeer(tun[n]))
  BY <1>1, PinGood, Zenon
<1>3. Tuns'
  <2>1. tun' = [tun EXCEPT ![n] = UnpinRelayPeer(tun[n])] /\ UNCHANGED threads
    BY Zenon DEF tryDirectUpgrade
  <2> QED BY <1>1, <1>2, <2>1, TunSet, Zenon
<1>4. Timers'
  <2>1. DirectClearsRequired \in 0..DirectClearsRequired
    BY BoundAssumption, SMTT(30)
  <2> QED BY <2>1, Zenon DEF Inv, Timers, tryDirectUpgrade
<1>5. Rest'
  <2>1. cache' = [cache EXCEPT ![n].resolve = TRUE] /\ UNCHANGED <<writing, orphan>>
    BY Zenon DEF tryDirectUpgrade
  <2> QED BY <2>1, Zenon DEF Inv, Rest
<1>6. Airs' /\ Dials'
  BY Zenon DEF Inv, Airs, Dials, tryDirectUpgrade
<1> QED BY <1>3, <1>4, <1>5, <1>6, Zenon DEF Inv

LEMMA ProbeStep ==
  ASSUME Inv, NEW n \in Node, SendDirectProbeTo(n)
  PROVE  Inv'
<1>1. Tuns /\ Airs /\ Good(tun[n]) /\ UNCHANGED threads
  BY TunOf, Zenon DEF Inv, SendDirectProbeTo
<1>2. Tuns' /\ Airs'
  <2> DEFINE w == [s |-> RecordOutboundSend(tun[n]), via |-> IF up THEN {"direct"} ELSE {}]
  <2>1. UNCHANGED <<tun, air>> \/ PutData(n, w)
    BY Zenon DEF SendDirectProbeTo
  <2>2. Does(tun[n], RecordOutboundSend(tun[n]))
    BY <1>1, TimesGood, Zenon
  <2>3. Sent(tun[n], w)
    BY <2>2, SMTT(30) DEF Sent, Way
  <2> HIDE DEF w
  <2>4. CASE UNCHANGED <<tun, air>>
    BY <1>1, <2>4, Zenon DEF Tuns, Airs, threads
  <2>5. CASE PutData(n, w)
    BY <1>1, <2>3, <2>5, DataStep, Zenon
  <2> QED BY <2>1, <2>4, <2>5, Zenon
<1>3. Timers'
  <2>1. upgrade \in [Node -> 0..DirectClearsRequired] /\ upgrade[n] \in 0..DirectClearsRequired
    BY Zenon DEF Inv, Timers
  <2>2. 0 \in 0..DirectClearsRequired /\ (upgrade[n] > 0 => upgrade[n] - 1 \in 0..DirectClearsRequired)
    BY <2>1, BoundAssumption, SMTT(30)
  <2>3. /\ upgrade[n] > 0 /\ probes' = probes
        /\ upgrade' = [upgrade EXCEPT ![n] = 0] \/ upgrade' = [upgrade EXCEPT ![n] = upgrade[n] - 1]
    BY Zenon DEF SendDirectProbeTo
  <2> QED BY <2>1, <2>2, <2>3, Zenon DEF Inv, Timers
<1>4. UNCHANGED <<cache, writing, orphan, dial>>
  BY Zenon DEF SendDirectProbeTo
<1> QED BY <1>2, <1>3, <1>4, Zenon DEF Inv, Dials, Rest

-----------------------------------------------------------------------------
(* RemovePeer, the path watchdog and the reset of a path.                  *)

LEMMA CacheGood ==
  ASSUME Rest, NEW n \in Node, NEW s, NEW c \in [resolve : BOOLEAN, ep : BOOLEAN],
         cache' = [cache EXCEPT ![n] = CacheAfter(s, c)] \/ cache' = [cache EXCEPT ![n] = c],
         UNCHANGED <<writing, orphan>>
  PROVE  Rest'
<1>1. CacheAfter(s, c) \in [resolve : BOOLEAN, ep : BOOLEAN]
  BY SMTT(30) DEF CacheAfter
<1> QED BY <1>1, Zenon DEF Rest

(* A call of RemovePeer, or of a reset that has nothing to remove.         *)
LEMMA CalledGood ==
  ASSUME Tuns, NEW n \in Node, NEW x, Does(tun[n], x), tun' = [tun EXCEPT ![n] = x],
         NEW at \in {1, 6}, NEW reset \in BOOLEAN, NEW relay \in BOOLEAN,
         Called(n, at, reset, relay), installing' = installing
  PROVE  Tuns'
<1> DEFINE c == IF at = 1 THEN installing[n] # <<>> ELSE removing[n].crossed
           r == [at |-> at, reset |-> reset, relay |-> relay, crossed |-> c]
<1>1. /\ Good(x) /\ removing[n] \in Removal /\ installing[n] \in Install
      /\ Staged(x, removing[n], installing[n])
  BY TunOf, StagedKept, Zenon DEF Does
<1>2. removing[n].at = 0 /\ removing' = [removing EXCEPT ![n] = r]
  BY Zenon DEF Called
<1>3. c \in BOOLEAN
  <2>1. removing[n].crossed \in BOOLEAN
    BY <1>1, SMTT(30) DEF Removal
  <2>2. (installing[n] # <<>>) \in BOOLEAN
    BY SMTT(30)
  <2> QED BY <2>1, <2>2, Zenon
<1>4. c <=> IF at = 1 THEN installing[n] # <<>> ELSE removing[n].crossed
  BY <1>1, SMTT(30) DEF Removal
<1> HIDE DEF c
<1>5. r \in Removal /\ r.at = at /\ r.crossed = c
  BY <1>3, SMTT(30) DEF Removal
<1> HIDE DEF r
<1>6. Staged(x, r, installing[n])
  <2>1. CASE at = 1
    <3>1. ~(r.at \in 2..5) /\ r.at = 1
      BY <1>5, <2>1, SMTT(30)
    <3> QED BY <1>4, <1>5, <2>1, <3>1, Zenon DEF Staged
  <2>2. CASE at = 6
    <3>1. ~(r.at \in 2..5) /\ ~(r.at \in 1..5) /\ at # 1 /\ removing[n].at # 1
      BY <1>2, <1>5, <2>2, SMTT(30)
    <3> QED BY <1>1, <1>4, <1>5, <3>1, Zenon DEF Staged
  <2> QED BY <2>1, <2>2, Zenon
<1>7. installing' = [installing EXCEPT ![n] = installing[n]]
  BY Zenon DEF Tuns
<1> QED BY <1>1, <1>2, <1>5, <1>6, <1>7, TunThreads, Zenon

LEMMA ResetStep ==
  ASSUME Inv, NEW n \in Node, resetPeerPath(n), UNCHANGED <<writing, orphan>>
  PROVE  Tuns' /\ Airs' /\ Rest'
<1> DEFINE s == tun[n]
           t == IF s.pinned THEN SetRelayPeerPinned(s, FALSE) ELSE s
           a == IF s.peer # "none" THEN 1 ELSE 6
<1>1. Tuns /\ Airs /\ Rest /\ Good(s) /\ s.relay \in BOOLEAN
  <2>1. Tuns /\ Airs /\ Rest /\ Good(s)
    BY TunOf, Zenon DEF Inv
  <2> QED BY <2>1, Flags, Zenon DEF Good
<1>2. Does(s, t)
  BY <1>1, PinGood, DoesNothing, Zenon
<1>3. forgetPeerResolution \in [resolve : BOOLEAN, ep : BOOLEAN]
  BY SMTT(30) DEF forgetPeerResolution
<1>4. /\ tun' = [tun EXCEPT ![n] = t] /\ cache' = [cache EXCEPT ![n] = forgetPeerResolution]
      /\ Called(n, a, TRUE, s.relay) /\ installing' = installing /\ air' = air
  BY Zenon DEF resetPeerPath
<1>5. a \in {1, 6}
  BY Zenon
<1> HIDE DEF t, a
<1>6. Tuns'
  BY <1>1, <1>2, <1>4, <1>5, CalledGood, Zenon
<1> QED BY <1>1, <1>3, <1>4, <1>6, CacheGood, Zenon DEF Airs

(* A step of RemovePeer.                                                   *)
LEMMA RemoveStep ==
  ASSUME Inv, NEW n \in Node, RemovePeer(n)
  PROVE  Inv'
<1> DEFINE r == removing[n]
           k == IF r.at = 5 /\ ~r.reset THEN 0 ELSE r.at + 1
           q == [r EXCEPT !.at = k]
           x == Wiped(tun[n], r.at)
<1>1. /\ Tuns /\ Good(tun[n]) /\ r \in Removal /\ installing[n] \in Install
      /\ Staged(tun[n], r, installing[n])
  BY TunOf, Zenon DEF Inv
<1>2. /\ r.at \in 1..5 /\ tun' = [tun EXCEPT ![n] = x] /\ removing' = [removing EXCEPT ![n] = q]
      /\ UNCHANGED <<installing, cache, writing, upgrade, probes, orphan, dial, air>>
  BY Zenon DEF RemovePeer
<1>3. Good(x) /\ (r.at = 1 => ~x.key) /\ (r.at # 1 => x.key = tun[n].key)
  BY <1>1, <1>2, WipedGood, Zenon
<1>4. k \in 0..6 /\ k # 1 /\ (k \in 1..5 => r.at \in 1..5)
  BY <1>2, SMTT(30)
<1> HIDE DEF k
<1>5. q \in Removal /\ q.at = k /\ q.crossed = r.crossed
  BY <1>1, <1>4, SMTT(30) DEF Removal
<1> HIDE DEF q, x
<1>6. Staged(x, q, installing[n])
  <2>1. SUFFICES ASSUME ~q.crossed
                 PROVE  (q.at \in 1..5 => installing[n] = <<>>) /\ ~x.key
    BY <2>1, Zenon DEF Staged, SessionAgrees
  <2>2. ~r.crossed
    BY <1>5, <2>1, Zenon
  <2>3. r.at # 1 => r.at \in 2..5
    BY <1>2, SMTT(30)
  <2>4. r.at # 1 => ~tun[n].key
    BY <1>1, <2>2, <2>3, Zenon DEF Staged
  <2> QED BY <1>1, <1>2, <1>3, <2>2, <2>4, Zenon DEF Staged
<1>7. installing' = [installing EXCEPT ![n] = installing[n]]
  BY <1>1, <1>2, Zenon DEF Tuns
<1>8. Tuns'
  BY <1>1, <1>2, <1>3, <1>5, <1>6, <1>7, TunThreads, Zenon
<1> QED BY <1>2, <1>8, Zenon DEF Inv, Airs, Dials, Timers, Rest

(* The rest of a path reset.                                               *)
LEMMA PathResetStep ==
  ASSUME Inv, NEW n \in Node, PathReset(n)
  PROVE  Inv'
<1> DEFINE r == removing[n]
           t == IF r.relay THEN SetRelayPeer(tun[n], TRUE) ELSE tun[n]
           e == ensureTunnel(n, t, cache[n])
           q == [NotRemoving EXCEPT !.crossed = r.crossed]
<1>1. /\ Tuns /\ Airs /\ Rest /\ Good(tun[n]) /\ r \in Removal /\ installing[n] \in Install
      /\ Staged(tun[n], r, installing[n])
  BY TunOf, Zenon DEF Inv
<1>2. /\ r.at = 6 /\ removing' = [removing EXCEPT ![n] = q]
      /\ \/ /\ cache' = [cache EXCEPT ![n] = CacheAfter(t, cache[n])]
            /\ \E w \in sendKeyExchangeToNode(e) : PutKx(n, "kxreq", w)
         \/ tun' = [tun EXCEPT ![n] = t] /\ cache' = cache /\ air' = air
      /\ UNCHANGED <<installing, writing, upgrade, probes, orphan, dial>>
  BY Zenon DEF PathReset
<1>3. Does(tun[n], t) /\ Good(t)
  BY <1>1, RelayGood, DoesNothing, Zenon DEF Does
<1>4. Does(t, e) /\ Good(e)
  BY <1>3, EnsureGood, Zenon DEF Does
<1> HIDE DEF t, e
<1>5. q \in Removal /\ q.at = 0 /\ q.crossed = r.crossed
  <2>1. r.crossed \in BOOLEAN
    BY <1>1, SMTT(30) DEF Removal
  <2>2. NotRemoving \in Removal /\ NotRemoving.at = 0
    BY SMTT(30) DEF NotRemoving, Removal
  <2> QED BY <2>1, <2>2, SMTT(30) DEF Removal
<1> HIDE DEF q
<1>6. ASSUME NEW x, Does(tun[n], x), tun' = [tun EXCEPT ![n] = x]
      PROVE  Tuns'
  <2>1. Good(x) /\ Staged(x, r, installing[n])
    BY <1>1, <1>6, StagedKept, Zenon DEF Does
  <2>2. ~(q.at \in 1..5) /\ ~(q.at \in 2..5) /\ r.at # 1
    BY <1>2, <1>5, SMTT(30)
  <2>3. Staged(x, q, installing[n])
    BY <1>5, <2>1, <2>2, Zenon DEF Staged
  <2>4. installing' = [installing EXCEPT ![n] = installing[n]]
    BY <1>1, <1>2, Zenon DEF Tuns
  <2> QED BY <1>1, <1>2, <1>5, <1>6, <2>1, <2>3, <2>4, TunThreads, Zenon
<1>7. Tuns' /\ Airs'
  <2>1. CASE tun' = [tun EXCEPT ![n] = t] /\ air' = air
    BY <1>1, <1>3, <1>6, <2>1, Zenon DEF Airs
  <2>2. ASSUME NEW w \in sendKeyExchangeToNode(e), PutKx(n, "kxreq", w)
        PROVE  Tuns' /\ Airs'
    <3>1. Sent(e, w)
      BY <1>4, <2>2, KxGood, Zenon
    <3>2. Does(tun[n], w.s)
      BY <1>3, <1>4, <3>1, DoesTrans, Zenon DEF Sent
    <3>3. Tuns'
      BY <1>6, <2>2, <3>2, Zenon DEF PutKx
    <3>4. Airs'
      BY <1>1, <2>2, <3>1, KxFlies, Zenon
    <3> QED BY <3>3, <3>4, Zenon
  <2> QED BY <1>2, <2>1, <2>2, Zenon
<1>8. Rest'
  <2>1. cache[n] \in [resolve : BOOLEAN, ep : BOOLEAN] /\ UNCHANGED <<writing, orphan>>
    BY <1>1, <1>2, Zenon DEF Rest
  <2>2. CASE cache' = [cache EXCEPT ![n] = CacheAfter(t, cache[n])]
    BY <1>1, <2>1, <2>2, CacheGood, Zenon
  <2>3. CASE cache' = cache
    BY <1>1, <2>1, <2>3, Zenon DEF Rest
  <2> QED BY <1>2, <2>2, <2>3, Zenon
<1> QED BY <1>2, <1>7, <1>8, Zenon DEF Inv, Dials, Timers

LEMMA WatchStep ==
  ASSUME Inv, NEW n \in Node, pathWatchPeer(n)
  PROVE  Inv'
<1>1. Tuns /\ Airs /\ Good(tun[n])
  BY TunOf, Zenon DEF Inv
<1>2. probes \in [Node -> 0..pathProbeMax] /\ probes[n] \in 0..pathProbeMax
  BY Zenon DEF Inv, Timers
<1>3. UNCHANGED <<writing, upgrade, dial, orphan>>
  BY Zenon DEF pathWatchPeer
<1>4. CASE probes' = [probes EXCEPT ![n] = 0] /\ UNCHANGED <<tun, threads, air, cache>>
  <2>1. 0 \in 0..pathProbeMax
    BY BoundAssumption, SMTT(30)
  <2>2. probes' \in [Node -> 0..pathProbeMax]
    BY <1>2, <1>4, <2>1, Zenon
  <2> QED BY <1>3, <1>4, <2>2, Zenon DEF Inv, Tuns, Airs, Dials, Timers, Rest, threads
<1>5. CASE /\ probes[n] < pathProbeMax /\ probes' = [probes EXCEPT ![n] = @ + 1]
           /\ \E w \in WriteFrame(tun[n]) : PutData(n, w)
           /\ UNCHANGED <<threads, cache>>
  <2>1. probes[n] + 1 \in 0..pathProbeMax
    BY <1>2, <1>5, BoundAssumption, SMTT(30)
  <2>2. probes' \in [Node -> 0..pathProbeMax]
    BY <1>2, <1>5, <2>1, Zenon
  <2>3. Tuns' /\ Airs'
    BY <1>1, <1>5, WriteGood, DataStep, Zenon
  <2> QED BY <1>3, <1>5, <2>2, <2>3, Zenon DEF Inv, Dials, Timers, Rest
<1>6. CASE probes' = [probes EXCEPT ![n] = 0] /\ resetPeerPath(n)
  <2>1. 0 \in 0..pathProbeMax
    BY BoundAssumption, SMTT(30)
  <2>2. probes' \in [Node -> 0..pathProbeMax]
    BY <1>2, <1>6, <2>1, Zenon
  <2>3. Tuns' /\ Airs' /\ Rest'
    BY <1>3, <1>6, ResetStep, Zenon
  <2> QED BY <1>3, <2>2, <2>3, Zenon DEF Inv, Dials, Timers
<1> QED BY <1>4, <1>5, <1>6, Zenon DEF pathWatchPeer

LEMMA PreferStep ==
  ASSUME Inv, NEW n \in Node, PreferDirect(n)
  PROVE  Inv'
<1>1. resetPeerPath(n) /\ UNCHANGED <<writing, upgrade, probes, orphan, dial>>
  BY Zenon DEF PreferDirect
<1>2. Tuns' /\ Airs' /\ Rest'
  BY <1>1, ResetStep, Zenon
<1> QED BY <1>1, <1>2, Zenon DEF Inv, Dials, Timers

-----------------------------------------------------------------------------
(* Dials.                                                                  *)

LEMMA SynStep ==
  ASSUME Tuns, Airs, NEW n \in Node, NEW s, Does(tun[n], s), WriteSyn(n, s), UNCHANGED threads
  PROVE  Tuns' /\ Airs'
<1>1. Good(s)
  BY Zenon DEF Does
<1>2. ASSUME NEW w \in WriteFrame(s), PutData(n, w)
      PROVE  Tuns' /\ Airs'
  <2>1. Sent(s, w)
    BY <1>1, WriteGood, Zenon
  <2>2. Sent(tun[n], w)
    BY <2>1, SentAfter, Zenon
  <2> QED BY <1>2, <2>2, DataStep, Zenon
<1>3. ASSUME NEW w \in sendKeyExchangeToNode(s), PutKx(n, "kxreq", w)
      PROVE  Tuns' /\ Airs'
  <2>1. Sent(s, w)
    BY <1>1, <1>3, KxGood, Zenon
  <2>2. Sent(tun[n], w)
    BY <2>1, SentAfter, Zenon
  <2> QED BY <1>3, <2>2, KxStep, Zenon
<1> QED BY <1>2, <1>3, Zenon DEF WriteSyn

LEMMA DialSet ==
  ASSUME Dials, NEW n \in Node, NEW d, DialGood(d), dial' = [dial EXCEPT ![n] = d]
  PROVE  Dials'
<1>1. dial' \in [Node -> DialState]
  BY Zenon DEF Dials, DialGood
<1>2. ASSUME NEW m \in Node PROVE DialGood(dial'[m])
  BY <1>2, Zenon DEF Dials
<1> QED BY <1>1, <1>2, Zenon DEF Dials

LEMMA NoDialGood == DialGood(NoDial) /\ NoDial \in DialState
  BY BoundAssumption, SMTT(30) DEF DialGood, NoDial, DialState

(* A dial that is over looks only where there was no pin.                  *)
LEMMA EndedGood ==
  ASSUME NEW s, NEW d
  PROVE  DialGood(Ended(s, d))
<1> DEFINE e == [NoDial EXCEPT !.look = "unpinned"]
<1>1. e \in DialState /\ e.look = "unpinned" /\ e.here = NoDial.here /\ ~NoDial.here
  <2>1. e \in DialState /\ e.look = "unpinned" /\ e.here = NoDial.here
    BY NoDialGood, SMTT(30) DEF DialState
  <2>2. ~NoDial.here
    BY SMTT(30) DEF NoDial
  <2> QED BY <2>1, <2>2, Zenon
<1>2. Ended(s, d) \in {e, NoDial}
  BY Zenon DEF Ended
<1> HIDE DEF e
<1>3. e.look # "none" /\ e.look # "pinned"
  BY <1>1, SMTT(30)
<1> QED BY <1>1, <1>2, <1>3, NoDialGood, Zenon DEF DialGood

LEMMA UnflipStep ==
  ASSUME Inv, NEW n \in Node, Unflip(n)
  PROVE  Inv'
<1> DEFINE s == tun[n]
           p == s.pinned /\ (SetRelayPeer(s, FALSE).late \/ dial[n].look = "unpinned")
           t == [SetRelayPeer(s, FALSE) EXCEPT !.late = p]
<1>1. Tuns /\ Dials /\ Good(s) /\ DialGood(dial[n])
  BY TunOf, Zenon DEF Inv, Dials
<1>2. /\ dial[n].look # "none" /\ dial' = [dial EXCEPT ![n] = NoDial] /\ tun' = [tun EXCEPT ![n] = t]
      /\ UNCHANGED <<own, cache, air>>
  BY Zenon DEF Unflip
<1>3. p = s.pinned
  <2>1. dial[n].look = "unpinned"
    BY <1>1, <1>2, SMTT(30) DEF DialGood, DialState
  <2>2. s.pinned \in BOOLEAN
    BY <1>1, Flags, Zenon DEF Good
  <2> QED BY <2>1, <2>2, Zenon
<1> HIDE DEF p
<1>4. Does(s, t)
  BY <1>1, <1>3, UnflipGood, Zenon
<1> HIDE DEF t
<1>5. Tuns'
  BY <1>1, <1>2, <1>4, TunSet, Zenon DEF own
<1>6. Dials'
  BY <1>1, <1>2, NoDialGood, DialSet, Zenon
<1> QED BY <1>2, <1>5, <1>6, Zenon DEF Inv, Airs, Timers, Rest, own

LEMMA DialBegins ==
  ASSUME Inv, NEW n \in Node, Dial(n)
  PROVE  Inv'
<1> DEFINE s == ensureTunnel(n, tun[n], cache[n])
           v == IF s.relay /\ s.pinned THEN 0 ELSE DialDirectRetries
           d == [NoDial EXCEPT !.relayActive = s.relay, !.open = TRUE, !.direct = v]
<1>1. Tuns /\ Airs /\ Dials /\ Rest /\ Good(tun[n])
  BY TunOf, Zenon DEF Inv
<1>2. Does(tun[n], s) /\ s.relay \in BOOLEAN
  <2>1. Does(tun[n], s)
    BY <1>1, EnsureGood, Zenon
  <2> QED BY <2>1, Flags, Zenon DEF Does, Good
<1>3. /\ dial' = [dial EXCEPT ![n] = d] /\ WriteSyn(n, s)
      /\ cache' = [cache EXCEPT ![n] = CacheAfter(tun[n], cache[n])] /\ UNCHANGED own
  BY Zenon DEF Dial
<1> HIDE DEF s
<1>4. Tuns' /\ Airs'
  BY <1>1, <1>2, <1>3, SynStep, Zenon DEF own
<1>5. DialGood(d)
  <2>1. v \in 0..DialDirectRetries
    BY BoundAssumption, SMTT(30)
  <2> HIDE DEF v
  <2>2. d \in DialState
    BY <1>2, <2>1, NoDialGood, Zenon DEF DialState
  <2>3. d.open /\ d.here = NoDial.here /\ d.look = NoDial.look
    BY NoDialGood, SMTT(30) DEF DialState
  <2>4. ~NoDial.here /\ NoDial.look # "pinned"
    BY SMTT(30) DEF NoDial
  <2> HIDE DEF d
  <2> QED BY <2>2, <2>3, <2>4, Zenon DEF DialGood
<1> HIDE DEF d
<1>6. Dials'
  BY <1>1, <1>3, <1>5, DialSet, Zenon
<1>7. Rest'
  <2>1. cache[n] \in [resolve : BOOLEAN, ep : BOOLEAN]
    BY <1>1, Zenon DEF Rest
  <2> QED BY <1>1, <1>3, <2>1, CacheGood, Zenon DEF own
<1> QED BY <1>3, <1>4, <1>6, <1>7, Zenon DEF Inv, Timers, own

LEMMA TimerStep ==
  ASSUME Inv, NEW n \in Node, DialTimer(n)
  PROVE  Inv'
<1> DEFINE d == dial[n]
           s == IF Switches(tun[n], d) THEN SetRelayPeer(tun[n], TRUE) ELSE tun[n]
           e == IF Switches(tun[n], d)
                THEN [d EXCEPT !.relayActive = TRUE, !.here = TRUE, !.retries = @ + 1,
                               !.direct = IF ViaRelayOnly(tun[n], d) THEN 0 ELSE @]
                ELSE [d EXCEPT !.retries = @ + 1]
<1>1. Tuns /\ Airs /\ Dials /\ Rest /\ Good(tun[n]) /\ DialGood(d)
  BY TunOf, Zenon DEF Inv, Dials
<1>2. Does(tun[n], s)
  BY <1>1, RelayGood, DoesNothing, Zenon
<1>3. d.open /\ \/ /\ dial' = [dial EXCEPT ![n] = Ended(s, e)] /\ tun' = [tun EXCEPT ![n] = s]
                   /\ cache' = [cache EXCEPT ![n] = forgetPeerResolution] /\ UNCHANGED air
                \/ /\ ~(e.retries > DialMaxRetries) /\ dial' = [dial EXCEPT ![n] = e]
                   /\ \/ tun' = [tun EXCEPT ![n] = s] /\ UNCHANGED air
                      \/ WriteSyn(n, s)
                   /\ UNCHANGED cache
  BY Zenon DEF DialTimer, DialStep
<1>4. UNCHANGED own /\ UNCHANGED threads
  BY Zenon DEF DialTimer, DialStep, own
<1>5. d.open /\ ~(e.retries > DialMaxRetries) => DialGood(e)
  <2> DEFINE v == IF ViaRelayOnly(tun[n], d) THEN 0 ELSE d.direct
  <2>1. d \in DialState /\ v \in 0..DialDirectRetries
    BY <1>1, BoundAssumption, SMTT(30) DEF DialGood, DialState
  <2>2. e = IF Switches(tun[n], d)
            THEN [d EXCEPT !.relayActive = TRUE, !.here = TRUE, !.retries = d.retries + 1, !.direct = v]
            ELSE [d EXCEPT !.retries = d.retries + 1]
    BY Zenon
  <2> HIDE DEF v, d, e
  <2>3. e.retries = d.retries + 1
    BY <2>1, <2>2, SMTT(30) DEF DialState
  <2>4. ASSUME d.open, ~(e.retries > DialMaxRetries)
        PROVE  DialGood(e)
    <3>1. d.retries + 1 \in 0..DialMaxRetries
      BY <2>1, <2>3, <2>4, BoundAssumption, SMTT(30) DEF DialState
    <3>2. e \in DialState
      BY <2>1, <2>2, <3>1, Zenon DEF DialState
    <3>3. e.open /\ (e.here => e.relayActive) /\ e.look # "pinned"
      BY <1>1, <2>1, <2>2, <2>4, SMTT(30) DEF DialState, DialGood
    <3> QED BY <3>2, <3>3, Zenon DEF DialGood
  <2> QED BY <2>4, Zenon
<1> HIDE DEF s, e
<1>6. CASE /\ dial' = [dial EXCEPT ![n] = Ended(s, e)] /\ tun' = [tun EXCEPT ![n] = s]
           /\ cache' = [cache EXCEPT ![n] = forgetPeerResolution] /\ UNCHANGED air
  <2>1. Tuns'
    BY <1>1, <1>2, <1>4, <1>6, TunSet, Zenon
  <2>2. Dials'
    BY <1>1, <1>6, EndedGood, DialSet, Zenon
  <2>3. forgetPeerResolution \in [resolve : BOOLEAN, ep : BOOLEAN]
    BY SMTT(30) DEF forgetPeerResolution
  <2>4. Rest'
    BY <1>1, <1>4, <1>6, <2>3, Zenon DEF Rest, own
  <2> QED BY <1>4, <1>6, <2>1, <2>2, <2>4, Zenon DEF Inv, Airs, Timers, own
<1>7. CASE /\ ~(e.retries > DialMaxRetries) /\ dial' = [dial EXCEPT ![n] = e]
           /\ \/ tun' = [tun EXCEPT ![n] = s] /\ UNCHANGED air
              \/ WriteSyn(n, s)
           /\ UNCHANGED cache
  <2>1. Dials'
    BY <1>1, <1>3, <1>5, <1>7, DialSet, Zenon
  <2>2. Tuns' /\ Airs'
    <3>1. CASE tun' = [tun EXCEPT ![n] = s] /\ UNCHANGED air
      BY <1>1, <1>2, <1>4, <3>1, TunSet, Zenon DEF Airs
    <3>2. CASE WriteSyn(n, s)
      BY <1>1, <1>2, <1>4, <3>2, SynStep, Zenon
    <3> QED BY <1>7, <3>1, <3>2, Zenon
  <2> QED BY <1>4, <1>7, <2>1, <2>2, Zenon DEF Inv, Timers, Rest, own
<1> QED BY <1>3, <1>6, <1>7, Zenon

LEMMA CancelStep ==
  ASSUME Inv, NEW n \in Node, DialCancelled(n) \/ DialAnswered(n)
  PROVE  Inv'
<1>1. Tuns /\ Dials
  BY Zenon DEF Inv
<1>2. /\ dial' = [dial EXCEPT ![n] = NoDial] \/ dial' = [dial EXCEPT ![n] = Ended(tun[n], dial[n])]
      /\ UNCHANGED <<own, tun, cache, air>>
  BY Zenon DEF DialCancelled, DialAnswered
<1>3. Tuns'
  BY <1>1, <1>2, Zenon DEF Tuns, own, threads
<1>4. Dials'
  BY <1>1, <1>2, EndedGood, NoDialGood, DialSet, Zenon
<1> QED BY <1>2, <1>3, <1>4, Zenon DEF Inv, Airs, Timers, Rest, own

-----------------------------------------------------------------------------
(* The reapers, the applications and the network.                          *)

LEMMA ReapStep ==
  ASSUME Inv, NEW n \in Node,
         reapStalePeers(n) \/ reapOrphanedPeerState(n) \/ reapCaches(n)
  PROVE  Inv'
<1>1. Tuns /\ Rest
  BY Zenon DEF Inv
<1>2. Tuns'
  <2>1. tun' = tun /\ installing' = installing /\ (removing' = removing \/ Called(n, 1, FALSE, FALSE))
    BY Zenon DEF reapStalePeers, reapOrphanedPeerState, reapCaches, forgetPeer, own, threads
  <2>2. CASE Called(n, 1, FALSE, FALSE)
    <3>1. tun' = [tun EXCEPT ![n] = tun[n]] /\ Does(tun[n], tun[n])
      BY <1>1, <2>1, TunOf, DoesNothing, Zenon DEF Tuns
    <3>2. 1 \in {1, 6} /\ FALSE \in BOOLEAN
      BY Zenon
    <3> QED BY <1>1, <2>1, <2>2, <3>1, <3>2, CalledGood, Zenon
  <2>3. CASE removing' = removing
    BY <1>1, <2>1, <2>3, Zenon DEF Tuns
  <2> QED BY <2>1, <2>2, <2>3, Zenon
<1>3. Airs' /\ Dials' /\ Timers'
  BY Zenon DEF Inv, Airs, Dials, Timers, reapStalePeers, reapOrphanedPeerState, reapCaches, own
<1>4. Rest'
  <2>1. CASE reapStalePeers(n)
    BY <1>1, <2>1, Zenon DEF Rest, reapStalePeers
  <2>2. CASE reapOrphanedPeerState(n)
    <3>1. /\ orphan' = [orphan EXCEPT ![n] = FALSE] \/ orphan' = [orphan EXCEPT ![n] = TRUE]
          /\ UNCHANGED <<writing, cache>>
      BY <2>2, Zenon DEF reapOrphanedPeerState
    <3> QED BY <1>1, <3>1, Zenon DEF Rest
  <2>3. CASE reapCaches(n)
    <3>1. /\ \/ cache' = [cache EXCEPT ![n].resolve = FALSE]
             \/ cache' = [cache EXCEPT ![n].ep = FALSE]
          /\ UNCHANGED <<writing, orphan>>
      BY <2>3, Zenon DEF reapCaches, own
    <3> QED BY <1>1, <3>1, ZenonT(40) DEF Rest
  <2> QED BY <2>1, <2>2, <2>3, Zenon
<1> QED BY <1>2, <1>3, <1>4, Zenon DEF Inv

LEMMA WorldStep ==
  ASSUME Inv, CloseAll \/ Flap \/ UNCHANGED vars
  PROVE  Inv'
<1>1. UNCHANGED <<tun, threads, air, dial, upgrade, probes, cache, writing, orphan>>
  BY Zenon DEF CloseAll, Flap, own, threads, vars
<1> QED BY <1>1, Zenon DEF Inv, Tuns, Airs, Dials, Timers, Rest, threads

-----------------------------------------------------------------------------
LEMMA Start == Init => Inv
<1> SUFFICES ASSUME Init PROVE Inv
  BY SMTT(30)
<1>1. Tuns
  <2> DEFINE s == IF sc.established THEN Talking ELSE Removed
  <2>1. /\ tun = [n \in Node |-> s] /\ removing = [n \in Node |-> NotRemoving]
        /\ installing = [n \in Node |-> <<>>]
    BY Zenon DEF Init
  <2>2. Good(s) /\ SessionAgrees(s)
    BY RemovedGood, Zenon
  <2>3. NotRemoving \in Removal /\ NotRemoving.at = 0
    BY SMTT(30) DEF NotRemoving, Removal
  <2>4. <<>> \in Install
    BY SMTT(30) DEF Install
  <2> HIDE DEF s
  <2>5. ~(NotRemoving.at \in 1..5) /\ ~(NotRemoving.at \in 2..5)
    BY <2>3, SMTT(30)
  <2>6. Staged(s, NotRemoving, <<>>)
    BY <2>2, <2>5, Zenon DEF Staged
  <2> QED BY <2>1, <2>2, <2>3, <2>4, <2>6, Zenon DEF Tuns, Good
<1>2. Airs
  BY SMTT(30) DEF Init, Airs
<1>3. Dials
  BY NoDialGood, Zenon DEF Init, Dials
<1>4. Timers
  <2>1. 0 \in 0..DirectClearsRequired /\ 0 \in 0..pathProbeMax
    BY BoundAssumption, SMTT(30)
  <2> QED BY <2>1, Zenon DEF Init, Timers
<1>5. Rest
  <2>1. forgetPeerResolution \in [resolve : BOOLEAN, ep : BOOLEAN]
    BY SMTT(30) DEF forgetPeerResolution
  <2> QED BY <2>1, Zenon DEF Init, Rest
<1> QED BY <1>1, <1>2, <1>3, <1>4, <1>5, Zenon DEF Inv

LEMMA Step == Inv /\ [Next]_vars => Inv'
<1> SUFFICES ASSUME Inv, [Next]_vars PROVE Inv'
  BY SMTT(30)
<1>1. ASSUME NEW n \in Node, Upkeep(n)
      PROVE  Inv'
  BY <1>1, WriteStep, ReceiveStep, RetransmitStep, SilenceStep, UpgradeStep, ProbeStep,
     WatchStep, TimerStep, ReapStep, Zenon DEF Upkeep
<1>2. ASSUME NEW n \in Node,
             PreferDirect(n) \/ Dial(n) \/ DialCancelled(n) \/ DialAnswered(n) \/ reapCaches(n)
      PROVE  Inv'
  BY <1>2, PreferStep, DialBegins, CancelStep, ReapStep, Zenon
<1>3. ASSUME NEW n \in Node, GoOn(n)
      PROVE  Inv'
  BY <1>3, InstalledStep, RemoveStep, PathResetStep, UnflipStep, Zenon DEF GoOn
<1> QED BY <1>1, <1>2, <1>3, WorldStep, Zenon DEF Next

(* In every reachable state the types hold, with the counters below their  *)
(* thresholds and no dial past its retry budget; a pin stands without the  *)
(* relay flag only when it came after the look of the dial that cleared    *)
(* the flag; a session has its tunnel entry and the time the watchdog      *)
(* judges it by, unless RemovePeer and the install of the key overlapped;  *)
(* and a dial flips its peer to the relay at most once (PathsSound:        *)
(* SetRelayPeerPinned and UnpinRelayPeer, onKeyInstalled, RemovePeer,      *)
(* resetPeerPath, dialConnectionLocked, the reapers).                      *)
THEOREM PathsAreSound == Spec => []PathsSound
<1>1. Init => Inv
  BY Start
<1>2. Inv /\ [Next]_vars => Inv'
  BY Step
<1>3. Inv => PathsSound
  BY InvIsSound
<1> QED BY <1>1, <1>2, <1>3, PTL DEF Spec
=============================================================================
