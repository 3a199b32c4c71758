------------------------------ MODULE Session ------------------------------
(***************************************************************************)
(* The encrypted session between two daemons: the key exchange             *)
(* (pkg/daemon/keyexchange), the frames that wait for a key and the frames *)
(* that are salvaged across a rekey (pkg/daemon/tunnel.go), under loss,    *)
(* delay, duplication of frames, one-sided session drops and restarts.     *)
(*                                                                         *)
(* A process of a node has one X25519 key for its lifetime; a restart      *)
(* draws the next one, so keys are numbered.  A session key is a function  *)
(* of the two keys: a frame is opened iff it was sealed by the key held    *)
(* for the sender and for the receiver's own key.                          *)
(*                                                                         *)
(* Time.  Frames in flight are much faster than every timer, except those  *)
(* the network delays (Delay, Arrive).  Tick(n) is the passing of one      *)
(* RekeyRetransmitInterval (4 s) at node n; the two clocks are not tied to *)
(* each other.  What happens within one tick is ordered freely: a gate     *)
(* shorter than that (the debounce, the graces) may be open or shut for a  *)
(* session installed since the last tick.                                  *)
(***************************************************************************)
EXTENDS Integers, Sequences, FiniteSets

CONSTANTS Node,             \* the two daemons
          MaxKey,           \* the processes of a node: its restarts + 1
          MaxRekeyAttempts, \* retransmits before a key exchange is given up
          DropThreshold,    \* consecutive rejects that drop a session
          SalvageMaxEntries,\* frames kept for replay after a rekey
          maxPendingPerPeer,\* frames that wait for a key
          pendingMaxAge,    \* ticks a waiting frame is kept
          SendBound,        \* packets the applications of a node send
          Echoed,           \* packets whose sealed frames the network may copy
          MaxFaults         \* faults: losses, delays, copies, drops, failed lookups

ASSUME NodeAssumption == \E a, b \in Node : a # b /\ Node = {a, b}
ASSUME BoundAssumption ==
    /\ MaxKey \in [Node -> Nat \ {0}] /\ SendBound \in [Node -> Nat]
    /\ MaxRekeyAttempts \in Nat /\ DropThreshold \in Nat
    /\ maxPendingPerPeer \in Nat /\ SalvageMaxEntries \in Nat

VARIABLES key,      \* own key: the number of the running process
          crypto,   \* the session installed for the peer, or NoCrypto
          pend,     \* pendingRekey: attempts so far, 0 when there is no entry
          gaveUp,   \* rekeyGaveUp cooldown in force
          due,      \* keyRequestDue mark
          heard,    \* lastInboundDecrypt is recent
          asked,    \* lastRekeyReq: a rekey was requested since the last tick
          known,    \* peerPubKeys has the peer's identity key
          used,     \* noteAppActivity: the peer is in use
          reset,    \* a path reset started by a give-up: "no", "due", "cooling"
          queue,    \* pending: packets that wait for a key
          waited,   \* ticks since pendingSince
          sending,  \* packets between SendTo's key lookup and its enqueue
          sent,     \* packets the applications of the node have sent
          got,      \* times the running process was handed each packet
          chan,     \* frames in flight to a node, in order
          late,     \* frames to a node the network delays
          faults    \* how many faults may still happen

vars == <<key, crypto, pend, gaveUp, due, heard, asked, known, used, reset,
          queue, waited, sending, sent, got, chan, late, faults>>

Peer(n) == CHOOSE p \in Node : p # n
NoCrypto == [peer |-> 0]
Has(n) == crypto[n] # NoCrypto
Packet == UNION {{<<n, i>> : i \in 1..SendBound[n]} : n \in Node}

Pila(k) == [t |-> "pila", k |-> k]
Pilk(k) == [t |-> "pilk", k |-> k]
\* A frame sealed by the process with key k for the peer key to.
Pils(k, to, c, p) == [t |-> "pils", k |-> k, to |-> to, c |-> c, p |-> p]

\* crypto.go: a session as DeriveSecret makes it.
\* up counts the packets it was handed and is read by properties only.
NewCrypto(k) == [peer |-> k, ctr |-> 0, seen |-> {}, rejects |-> 0,
                 fails |-> 0, age |-> 0, salvage |-> <<>>,
                 up |-> [p \in Packet |-> 0]]

\* Frames that encrypt the packets ps in session c, and the session after.
Seal(n, c, ps) ==
    [i \in 1..Len(ps) |-> Pils(key[n], c.peer, c.ctr + i, ps[i])]
Sealed(c, ps) == [c EXCEPT !.ctr = @ + Len(ps)]

\* store.go RecordSalvage: a ring of the last packets sent.
RecordSalvage(c, p) ==
    LET s == Append(c.salvage, p)
    IN  [c EXCEPT !.salvage = IF Len(s) > SalvageMaxEntries THEN Tail(s) ELSE s]

\* Attempts is only compared with MaxRekeyAttempts + 1, so it saturates there.
MarkPendingRekey(a, cooling) ==
    IF cooling THEN a
    ELSE IF a > MaxRekeyAttempts THEN a ELSE a + 1

\* With no session and either the mark d or an unanswered attempt, the key
\* exchange carries a request for the peer's key.
takeKeyRequest_Never(has, a, d) == FALSE
takeKeyRequest(has, a, d) == ~has /\ (d \/ a >= 1)

\* The frames it sends, given whether a session is held, the attempts and
\* the mark.
SendKeyExchangeToNode(n, has, a, d) ==
    IF takeKeyRequest(has, a, d) THEN <<Pila(key[n]), Pilk(key[n])>>
                             ELSE <<Pila(key[n])>>

\* The handler at n consumed the head of its channel (took) and sent out.
Transmit(n, took, out) ==
    chan' = [m \in Node |-> IF m = n THEN IF took THEN Tail(chan[n]) ELSE chan[n]
                            ELSE chan[m] \o out]

Fault == faults > 0 /\ faults' = faults - 1
NoFault == UNCHANGED faults

----------------------------------------------------------------------------
Init ==
    /\ key = [n \in Node |-> 1]
    /\ crypto = [n \in Node |-> NoCrypto]
    /\ pend = [n \in Node |-> 0]
    /\ gaveUp = [n \in Node |-> FALSE]
    /\ due = [n \in Node |-> FALSE]
    /\ heard = [n \in Node |-> FALSE]
    /\ asked = [n \in Node |-> FALSE]
    /\ known = [n \in Node |-> FALSE]
    /\ used = [n \in Node |-> FALSE]
    /\ reset = [n \in Node |-> "no"]
    /\ queue = [n \in Node |-> <<>>]
    /\ waited = [n \in Node |-> 0]
    /\ sending = [n \in Node |-> <<>>]
    /\ sent = [n \in Node |-> 0]
    /\ got = [n \in Node |-> [p \in Packet |-> 0]]
    /\ chan = [n \in Node |-> <<>>]
    /\ late = [n \in Node |-> {}]
    /\ faults = MaxFaults

\* SendTo up to its enqueue: with a session the packet is recorded for
\* salvage, sealed and written; without one a key exchange is started unless
\* one is pending, and the packet goes on to the queue, or is refused while
\* the give-up cooldown lasts.  The caller holds no lock over the two steps.
SendTo(n) ==
    /\ sent[n] < SendBound[n]
    /\ sent' = [sent EXCEPT ![n] = @ + 1]
    /\ used' = [used EXCEPT ![n] = TRUE]
    /\ LET p == <<n, sent[n] + 1>> IN
       \/ /\ Has(n)
          /\ crypto' = [crypto EXCEPT ![n] = Sealed(RecordSalvage(@, p), <<p>>)]
          /\ Transmit(n, FALSE, Seal(n, crypto[n], <<p>>))
          /\ UNCHANGED <<pend, due, sending>>
       \/ /\ ~Has(n) /\ pend[n] = 0
          /\ Transmit(n, FALSE, SendKeyExchangeToNode(n, FALSE, 0, due[n]))
          /\ pend' = [pend EXCEPT ![n] = MarkPendingRekey(0, gaveUp[n])]
          /\ due' = [due EXCEPT ![n] = FALSE]
          /\ sending' = [sending EXCEPT ![n] = IF gaveUp[n] THEN @ ELSE Append(@, p)]
          /\ UNCHANGED crypto
       \/ /\ ~Has(n) /\ pend[n] > 0
          /\ sending' = [sending EXCEPT ![n] = IF gaveUp[n] THEN @ ELSE Append(@, p)]
          /\ UNCHANGED <<crypto, pend, due, chan>>
    /\ NoFault
    /\ UNCHANGED <<key, gaveUp, heard, asked, known, reset, queue, waited,
                   got, late>>

\* The rest of SendTo: the packet joins the queue, or is dropped when the
\* queue is full (the newest goes, so the ordered prefix survives).
HasRoom(q) == Len(q) < maxPendingPerPeer
Enqueue(n) ==
    /\ sending[n] # <<>>
    /\ sending' = [sending EXCEPT ![n] = Tail(@)]
    /\ queue' = [queue EXCEPT ![n] =
                    IF HasRoom(@) THEN Append(@, Head(sending[n])) ELSE @]
    /\ waited' = [waited EXCEPT ![n] = IF queue[n] = <<>> THEN 0 ELSE @]
    /\ NoFault
    /\ UNCHANGED <<key, crypto, pend, gaveUp, due, heard, asked, known, used,
                   reset, sent, got, chan, late>>

----------------------------------------------------------------------------
\* The install half of HandleAuthFrame and HandleUnauthFrame with
\* onKeyInstalled.  An absent session or a new peer key installs a fresh
\* session; a frame with the key already held, seen within the debounce, is
\* coalesced (dup) and has no other effect.  Otherwise the hook runs: packets
\* sent under the replaced session are sealed again with the new one
\* (replaySalvage), then the queue is flushed - both before the reply.
Installed(n, k) == IF Has(n) /\ crypto[n].peer = k THEN crypto[n] ELSE NewCrypto(k)
KeyChanged(n, k) == Has(n) /\ crypto[n].peer # k
Fresh(n, k) == ~Has(n) \/ KeyChanged(n, k)
Duplicate(n, k, dup) == dup => (Has(n) /\ crypto[n].peer = k /\ crypto[n].age = 0)
\* replaySalvage and flushPending: what goes out under the new session.
Replayed_Always(n, k) == IF Has(n) THEN crypto[n].salvage ELSE <<>>
Replayed(n, k) == IF KeyChanged(n, k) THEN crypto[n].salvage ELSE <<>>
flushPending(n) == queue[n]

onKeyInstalled(n, k, dup, reply) ==
    LET out == IF dup THEN <<>> ELSE Replayed(n, k) \o flushPending(n)
    IN  /\ crypto' = [crypto EXCEPT ![n] = Sealed(Installed(n, k), out)]
        /\ heard' = [heard EXCEPT ![n] = @ \/ ~dup]
        /\ gaveUp' = [gaveUp EXCEPT ![n] = @ /\ dup]
        /\ used' = [used EXCEPT ![n] = @ \/ (~dup /\ ~Has(n))]
        /\ queue' = [queue EXCEPT ![n] = IF dup THEN @ ELSE <<>>]
        /\ waited' = [waited EXCEPT ![n] = IF dup THEN @ ELSE 0]
        /\ Transmit(n, TRUE, Seal(n, Installed(n, k), out)
                             \o (IF reply THEN <<Pila(key[n])>> ELSE <<>>))

\* GetPeerPubKey: the identity key comes from the cache or the registry; a
\* lookup can fail only when it is not cached.
PubKeyFails(n) == ~known[n] /\ Fault

\* HandleAuthFrame.  The identity key comes from the cache or the registry;
\* when the registry does not answer the frame is refused.  A fresh install
\* is answered.  A frame with the key already held is answered only when
\* nothing was decrypted recently - after the hook, which records a decrypt.
ReplyDue_Always(n, k, dup) == TRUE
ReplyDue(n, k, dup) == Fresh(n, k) \/ ~(heard[n] \/ ~dup)
HandleAuthFrame(n) ==
    /\ chan[n] # <<>> /\ Head(chan[n]).t = "pila"
    /\ LET k == Head(chan[n]).k IN
       \/ \E dup \in BOOLEAN :
             /\ Duplicate(n, k, dup)
             /\ onKeyInstalled(n, k, dup, ReplyDue(n, k, dup))
             /\ known' = [known EXCEPT ![n] = TRUE]
             /\ pend' = [pend EXCEPT ![n] = 0]
             /\ NoFault
       \/ /\ PubKeyFails(n)
          /\ Transmit(n, TRUE, <<>>)
          /\ UNCHANGED <<crypto, heard, gaveUp, used, queue, waited, known, pend>>
    /\ UNCHANGED <<key, due, asked, reset, sending, sent, got, late>>

\* HandleUnauthFrame.  From a peer whose identity is known it is a request
\* for our key: it is refused and answered with our authenticated frame.
\* Only when the registry has no answer is the key taken as it is.
HandleUnauthFrame(n) ==
    /\ chan[n] # <<>> /\ Head(chan[n]).t = "pilk"
    /\ LET k == Head(chan[n]).k IN
       \/ /\ Transmit(n, TRUE, SendKeyExchangeToNode(n, Has(n), pend[n], due[n]))
          /\ pend' = [pend EXCEPT ![n] = MarkPendingRekey(@, gaveUp[n])]
          /\ due' = [due EXCEPT ![n] = @ /\ Has(n)]
          /\ known' = [known EXCEPT ![n] = TRUE]
          /\ NoFault
          /\ UNCHANGED <<crypto, heard, gaveUp, used, queue, waited>>
       \/ /\ PubKeyFails(n)
          /\ \E dup \in BOOLEAN : Duplicate(n, k, dup) /\ onKeyInstalled(n, k, dup, Fresh(n, k))
          /\ pend' = [pend EXCEPT ![n] = 0]
          /\ UNCHANGED <<due, known>>
    /\ UNCHANGED <<key, asked, reset, sending, sent, got, late>>

----------------------------------------------------------------------------
\* maybeRequestRekey, called with no session (for ErrNoKey, or after the
\* session was dropped): at most one request per interval, with the mark that
\* makes the key exchange carry a request for the peer's key.
RequestRekey(n) ==
    IF asked[n]
    THEN /\ Transmit(n, TRUE, <<>>)
         /\ UNCHANGED <<asked, due, pend>>
    ELSE /\ Transmit(n, TRUE, SendKeyExchangeToNode(n, FALSE, pend[n], TRUE))
         /\ asked' = [asked EXCEPT ![n] = TRUE]
         /\ due' = [due EXCEPT ![n] = FALSE]
         /\ pend' = [pend EXCEPT ![n] = MarkPendingRekey(@, gaveUp[n])]

\* store.go ShouldDropOnReplay and ShouldDropOnDecryptFail: enough rejects in
\* a row once the grace is over, or any replay in an aged session.
GraceOver(c) == IF c.age = 0 THEN BOOLEAN ELSE {TRUE}
ShouldDropOnReplay(c, over) == c.age = 2 \/ (over /\ c.rejects >= DropThreshold)
ShouldDropOnDecryptFail(c, over) == over /\ c.fails >= DropThreshold

\* The session after a reject, dropped when the policy says so.
Rejected(n, c, drop) ==
    IF drop
    THEN /\ crypto' = [crypto EXCEPT ![n] = NoCrypto]
         /\ RequestRekey(n)
    ELSE /\ crypto' = [crypto EXCEPT ![n] = c]
         /\ Transmit(n, TRUE, <<>>)
         /\ UNCHANGED <<asked, due, pend>>

\* handleEncrypted without a session for the sender.
NoKey(n) ==
    /\ ~Has(n)
    /\ RequestRekey(n)
    /\ UNCHANGED <<crypto, heard, gaveUp, used, got>>

\* ErrAEAD: sealed by or for a key other than the ones of this session.
OpenFails(n, f) ==
    /\ Has(n) /\ ~(f.k = crypto[n].peer /\ f.to = key[n])
    /\ LET c == [crypto[n] EXCEPT !.fails = IF @ < DropThreshold THEN @ + 1 ELSE @]
       IN  \E over \in GraceOver(c) : Rejected(n, c, ShouldDropOnDecryptFail(c, over))
    /\ UNCHANGED <<heard, gaveUp, used, got>>

\* ErrReplay: the counter was used before in this session.
IsReplay(n, f) ==
    /\ Has(n) /\ f.k = crypto[n].peer /\ f.to = key[n] /\ f.c \in crypto[n].seen
    /\ LET c == [crypto[n] EXCEPT !.rejects = IF @ < DropThreshold THEN @ + 1 ELSE @]
       IN  \E over \in GraceOver(c) : Rejected(n, c, ShouldDropOnReplay(c, over))
    /\ UNCHANGED <<heard, gaveUp, used, got>>

\* Opened: proof of a matching session.  It ends the pending key exchange
\* and the cooldown, and the packet goes up.
Took(c, f) == [c EXCEPT !.seen = @ \cup {f.c}, !.rejects = 0, !.fails = 0, !.up[f.p] = @ + 1]
Opened(n, f) ==
    /\ Has(n) /\ f.k = crypto[n].peer /\ f.to = key[n] /\ f.c \notin crypto[n].seen
    /\ crypto' = [crypto EXCEPT ![n] = Took(@, f)]
    /\ heard' = [heard EXCEPT ![n] = TRUE]
    /\ gaveUp' = [gaveUp EXCEPT ![n] = FALSE]
    /\ pend' = [pend EXCEPT ![n] = 0]
    /\ used' = [used EXCEPT ![n] = TRUE]
    /\ got' = [got EXCEPT ![n][f.p] = @ + 1]
    /\ Transmit(n, TRUE, <<>>)
    /\ UNCHANGED <<asked, due>>

handleEncrypted(n) ==
    /\ chan[n] # <<>> /\ Head(chan[n]).t = "pils"
    /\ LET f == Head(chan[n])
       IN  NoKey(n) \/ OpenFails(n, f) \/ IsReplay(n, f) \/ Opened(n, f)
    /\ NoFault
    /\ UNCHANGED <<key, known, reset, queue, waited, sending, sent, late>>

----------------------------------------------------------------------------
\* Frames in flight are faster than the timers.
Drained == \A n \in Node : chan[n] = <<>> /\ sending[n] = <<>>

\* A queue that waited too long is dropped.
reapStalePending(n) ==
    LET stale == waited[n] >= pendingMaxAge
    IN  /\ queue' = [queue EXCEPT ![n] = IF stale THEN <<>> ELSE @]
        /\ waited' = [waited EXCEPT ![n] = IF stale \/ queue[n] = <<>> THEN 0 ELSE @ + 1]

\* Time at n: the short gates reopen, the salvage ring (SalvageMaxAge) ages
\* out and a session grows older.
Older(c) == IF c = NoCrypto THEN {c}
            ELSE {[c EXCEPT !.age = a, !.salvage = <<>>] :
                    a \in IF c.age = 0 THEN {1} ELSE {c.age, 2}}
Age(n) ==
    /\ asked' = [asked EXCEPT ![n] = FALSE]
    /\ heard' = [heard EXCEPT ![n] = FALSE]
    /\ \E c \in Older(crypto[n]) : crypto' = [crypto EXCEPT ![n] = c]
    /\ reapStalePending(n)

\* The give-up hook: a path reset for a peer in use, unless one ran recently.
onRekeyGaveUp(n) == IF used[n] /\ reset[n] = "no" THEN "due" ELSE reset[n]

\* RekeyRetransmitTick: the next retransmit of a pending key exchange, or
\* giving it up once the attempts are spent.
Tick(n) ==
    /\ Drained /\ reset[n] # "due"
    /\ Age(n)
    /\ \/ /\ pend[n] = 0
          /\ gaveUp' = [gaveUp EXCEPT ![n] = FALSE]
          /\ reset' = [reset EXCEPT ![n] = IF @ = "cooling" THEN "no" ELSE @]
          /\ UNCHANGED <<pend, due, chan>>
       \/ /\ pend[n] \in 1..MaxRekeyAttempts
          /\ Transmit(n, FALSE, SendKeyExchangeToNode(n, Has(n), pend[n], due[n]))
          /\ pend' = [pend EXCEPT ![n] = MarkPendingRekey(@, FALSE)]
          /\ due' = [due EXCEPT ![n] = @ /\ Has(n)]
          /\ gaveUp' = [gaveUp EXCEPT ![n] = FALSE]
          /\ UNCHANGED reset
       \/ /\ pend[n] > MaxRekeyAttempts
          /\ pend' = [pend EXCEPT ![n] = 0]
          /\ gaveUp' = [gaveUp EXCEPT ![n] = TRUE]
          /\ reset' = [reset EXCEPT ![n] = onRekeyGaveUp(n)]
          /\ UNCHANGED <<due, chan>>
    /\ NoFault
    /\ UNCHANGED <<key, known, used, sending, sent, got, late>>

\* resetPeerPath: the peer's tunnel state goes (RemovePeer), the cooldowns
\* are lifted, and a fresh key exchange is pushed - one by ensureTunnel's
\* AddPeer, one by resetPeerPath itself, the second with a key request.  The
\* queue stays: it goes out when the new key is in.
ResetPath(n) ==
    /\ crypto' = [crypto EXCEPT ![n] = NoCrypto]
    /\ known' = [known EXCEPT ![n] = FALSE]
    /\ due' = [due EXCEPT ![n] = FALSE]
    /\ heard' = [heard EXCEPT ![n] = FALSE]
    /\ asked' = [asked EXCEPT ![n] = FALSE]
    /\ gaveUp' = [gaveUp EXCEPT ![n] = FALSE]
    /\ Transmit(n, FALSE, SendKeyExchangeToNode(n, FALSE, 0, FALSE) \o SendKeyExchangeToNode(n, FALSE, 1, FALSE))
    /\ pend' = [pend EXCEPT ![n] = MarkPendingRekey(MarkPendingRekey(0, FALSE), FALSE)]
    /\ UNCHANGED <<key, used, queue, waited, sending, sent, got, late>>

GaveUpReset(n) ==
    /\ reset[n] = "due"
    /\ reset' = [reset EXCEPT ![n] = "cooling"]
    /\ ResetPath(n)
    /\ NoFault

\* pathWatchPeer: a ready peer in use stayed silent through its probes.
PathWatch(n) ==
    /\ Has(n) /\ used[n] /\ ~heard[n] /\ Fault
    /\ ResetPath(n)
    /\ UNCHANGED reset

\* The session and what the key exchange keeps of the peer are dropped: by
\* RemovePeer, and by DropCrypto, meant for a dial that got no answer, which
\* does the same and which nothing calls today.
DropCrypto(n) ==
    /\ Has(n) /\ Fault
    /\ crypto' = [crypto EXCEPT ![n] = NoCrypto]
    /\ known' = [known EXCEPT ![n] = FALSE]
    /\ pend' = [pend EXCEPT ![n] = 0]
    /\ heard' = [heard EXCEPT ![n] = FALSE]
    /\ due' = [due EXCEPT ![n] = FALSE]
    /\ UNCHANGED <<key, gaveUp, asked, used, reset, queue, waited, sending, sent,
                   got, chan, late>>

\* A daemon restart: EnableEncryption draws the next key, all else is new.
Restart(n) ==
    /\ key[n] < MaxKey[n]
    /\ key' = [key EXCEPT ![n] = @ + 1]
    /\ crypto' = [crypto EXCEPT ![n] = NoCrypto]
    /\ pend' = [pend EXCEPT ![n] = 0]
    /\ gaveUp' = [gaveUp EXCEPT ![n] = FALSE]
    /\ due' = [due EXCEPT ![n] = FALSE]
    /\ heard' = [heard EXCEPT ![n] = FALSE]
    /\ asked' = [asked EXCEPT ![n] = FALSE]
    /\ known' = [known EXCEPT ![n] = FALSE]
    /\ used' = [used EXCEPT ![n] = FALSE]
    /\ reset' = [reset EXCEPT ![n] = "no"]
    /\ queue' = [queue EXCEPT ![n] = <<>>]
    /\ waited' = [waited EXCEPT ![n] = 0]
    /\ sending' = [sending EXCEPT ![n] = <<>>]
    /\ got' = [got EXCEPT ![n] = [p \in Packet |-> 0]]
    /\ NoFault
    /\ UNCHANGED <<sent, chan, late>>

----------------------------------------------------------------------------
\* The network: frames are lost, delayed past later ones and past the
\* timers; a frame also travels twice, direct and by relay, or is delivered
\* again by the relay.
NetUnchanged == UNCHANGED <<key, crypto, pend, gaveUp, due, heard, asked, known,
                    used, reset, queue, waited, sending, sent, got>>
Lose(n) ==
    /\ chan[n] # <<>> /\ Fault
    /\ chan' = [chan EXCEPT ![n] = Tail(@)]
    /\ UNCHANGED late /\ NetUnchanged
Delay(n) ==
    /\ chan[n] # <<>> /\ Fault
    /\ late' = [late EXCEPT ![n] = @ \cup {Head(chan[n])}]
    /\ chan' = [chan EXCEPT ![n] = Tail(@)]
    /\ NetUnchanged
Arrive(n) ==
    /\ \E f \in late[n] : /\ late' = [late EXCEPT ![n] = @ \ {f}]
                          /\ chan' = [chan EXCEPT ![n] = <<f>> \o @]
    /\ NoFault /\ NetUnchanged
RelayCopy(n) ==
    /\ chan[n] # <<>> /\ Fault
    /\ Head(chan[n]).t = "pils" => Head(chan[n]).p \in Echoed
    /\ chan' = [chan EXCEPT ![n] = @ \o <<Head(@)>>]
    /\ UNCHANGED late /\ NetUnchanged

Receive(n) == HandleAuthFrame(n) \/ HandleUnauthFrame(n) \/ handleEncrypted(n)
Next == \E n \in Node :
    \/ SendTo(n) \/ Enqueue(n) \/ Receive(n) \/ Tick(n) \/ GaveUpReset(n)
    \/ PathWatch(n) \/ DropCrypto(n) \/ Restart(n)
    \/ Lose(n) \/ Delay(n) \/ Arrive(n) \/ RelayCopy(n)

Spec == Init /\ [][Next]_vars

\* Goroutines run, the read loop reads, tickers tick and delayed frames
\* arrive in the end; nobody has to send and no fault has to happen.
FairSpec ==
    /\ Spec
    /\ \A n \in Node : /\ WF_vars(Enqueue(n)) /\ WF_vars(Receive(n))
                       /\ WF_vars(Tick(n)) /\ WF_vars(GaveUpReset(n))
                       /\ WF_vars(Arrive(n))

----------------------------------------------------------------------------
Session == [peer : Nat \ {0}, ctr : Nat, seen : SUBSET Nat, rejects : 0..DropThreshold,
            fails : 0..DropThreshold, age : 0..2, salvage : Seq(Packet),
            up : [Packet -> Nat]]
TypeOK ==
    /\ \A n \in Node : key[n] \in 1..MaxKey[n]
    /\ \A n \in Node : Has(n) => crypto[n] \in Session
    /\ pend \in [Node -> 0..MaxRekeyAttempts + 1]
    /\ reset \in [Node -> {"no", "due", "cooling"}]
    /\ \A n \in Node : Len(queue[n]) <= maxPendingPerPeer

\* No session hands up the same packet twice, however its frames are copied,
\* delayed or sent again: a copy in flight has a counter the session has seen
\* (tunnel.go ErrReplay, envelope.go DecryptFrame).
AtMostOncePerSession == \A n \in Node : Has(n) => \A p \in Packet : crypto[n].up[p] <= 1

\* No process is handed the same packet twice, unless the network copies the
\* sealed frame.  A packet may be sent twice - once under a session, once
\* more when the salvage ring is replayed after a rekey - and sessions are
\* dropped and derived again from the same keys, but the second sealing is
\* for another process than the first (tunnel.go replaySalvage).  A copied
\* frame is the exception: a session dropped and derived again from the same
\* keys opens its second copy with a fresh replay window.
AtMostOncePerProcess == \A n \in Node : \A p \in Packet \ Echoed : got[n][p] <= 1

\* All three of these.
SessionSound == TypeOK /\ AtMostOncePerSession /\ AtMostOncePerProcess

\* A key exchange with a peer in use ends in a session: whatever is lost,
\* delayed, dropped or restarted, the retransmits, the key requests (which
\* break the deadlock of a peer that takes our frames for keepalives of a
\* session we lack) and the path reset after a give-up bring one.
SessionComes ==
    \A n \in Node :
        (pend[n] > 0 /\ ~Has(n) /\ used[n]) ~> (Has(n) \/ ~used[n])

\* Key exchanges die out: once the applications are quiet and the faults are
\* spent, no frame is answered by a frame for ever.  (The comment in
\* HandleAuthFrame names the storm of replies this must not become.)
NoKeyExchangeStorm == <>[](\A n \in Node : chan[n] = <<>>)
=============================================================================
