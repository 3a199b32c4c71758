------------------------------- MODULE Paths -------------------------------
(***************************************************************************)
(* How two daemons choose between the direct path and the beacon relay:    *)
(* the per-peer routing state (pkg/daemon/routing), the tunnel entry and   *)
(* its resolution (ensureTunnel), the blackhole heuristic of WriteFrame,   *)
(* the relay admissions of handleRelayDeliver, maybeRequestRekey and       *)
(* onKeyInstalled, the direct-upgrade probes, the path watchdog's reset,   *)
(* the dial's switch to the relay, and the reaping of unused peers.        *)
(*                                                                         *)
(* Everything a node keeps about its peer is one record, tun[n]; an        *)
(* operator named after a Go function maps the record before the call to   *)
(* the record after it.  The session key is present or absent (module      *)
(* Session is about its exchange).  The direct path works in both          *)
(* directions or in neither; the relay works.  A data frame takes no time  *)
(* (every timer here is seconds long); key-exchange frames in flight form  *)
(* a set, so they are reordered freely.                                    *)
(***************************************************************************)
EXTENDS Integers, FiniteSets

CONSTANTS Node,                    \* the two daemons
          BlackholeMissesRequired, \* silent sends before a flip to relay
          DirectClearsRequired,    \* direct frames before a flip back
          SendErrThreshold,        \* ICMP errors before a flip to relay
          pathProbeMax,            \* probes before a path is reset
          DialDirectRetries, DialMaxRetries,
          Scenarios                \* the bounds of a behaviour, one of these:
\* [up: the direct path at the start, established: the peers start with a
\*  session in use, closes: the applications may close it, silences: silences outlast DirectBlackholeThreshold,
\*  hidden: the nodes registered relay-only, away: those that do not run,
\*  slow: each node's threads that may be overtaken between two locks,
\*  flaps, regFlaps: changes of the
\*  direct path and of the registry, resets, dials: those of each node]

ASSUME NodeAssumption == \E x, y \in Node : x # y /\ Node = {x, y}
ASSUME BoundAssumption ==
    /\ BlackholeMissesRequired \in Nat \ {0} /\ DirectClearsRequired \in Nat \ {0}
    /\ SendErrThreshold \in Nat \ {0} /\ pathProbeMax \in Nat
    /\ DialDirectRetries \in Nat /\ DialMaxRetries \in Nat

VARIABLES tun,     \* the tunnel and routing state a node has for its peer
          removing,   \* RemovePeer, which takes a lock at a time, or NotRemoving
          installing, \* a key exchange between the install of its key and the
                      \* hook, <<path, kind, there was a key>>, or <<>>
          cache,   \* resolveCache and epCache have the peer
          writing, \* a frame between the two locks of MaybeFlipBlackhole
          upgrade, \* tryDirectUpgrade: probes still to send, 0 when not running
          probes,  \* pathPeerState.probesSent
          dial,    \* the dial in progress, or NoDial
          orphan,  \* orphanSeen has the peer
          use,     \* the two applications have a connection open
          air,     \* the frames in flight to a node
          up,      \* the direct path works
          reg,     \* the registry answers
          sc,      \* the scenario
          flaps, regFlaps, resets, dials

vars == <<tun, removing, installing, cache, writing, upgrade, probes, dial, orphan, use, air, up,
          reg, sc, flaps, regFlaps, resets, dials>>

Peer(n) == CHOOSE p \in Node : p # n
Frame == {"direct", "relay"} \X {"kx", "kxreq"}
NoDial == [retries |-> 0, direct |-> 0, relayActive |-> FALSE,
           here |-> FALSE, open |-> FALSE,
           look |-> "none"]   \* what the dial saw of the pin before it clears
                              \* the relay flag

\* What RemovePeer leaves: no entry in any of the per-peer maps.
Removed ==
    [peer |-> "none",      \* tm.peers: no entry, a direct address, the beacon's
     key |-> FALSE,        \* envelope.Has
     viaRelay |-> FALSE,   \* keyViaRelay
     relay |-> FALSE, pinned |-> FALSE,       \* relayPeers, relayPinned
     late |-> FALSE,       \* history: the pin came after the look of the dial
                           \* that has cleared the relay flag since
     misses |-> 0, clears |-> 0, errs |-> 0,
     heard |-> FALSE,      \* lastDirectRecv has the peer
     silence |-> "none",   \* since lastDirectRecv or firstOutboundSend: <= 8 s or more
     inbound |-> "none"]   \* since lastInboundDecrypt: < 55 s or more
\* No call of RemovePeer is under way.
NotRemoving == [at |-> 0, reset |-> FALSE, relay |-> FALSE, crossed |-> FALSE]

\* A session on the direct path that frames have used both ways.
Talking == [Removed EXCEPT !.peer = "direct", !.key = TRUE, !.heard = TRUE,
                           !.silence = "short", !.inbound = "recent"]

----------------------------------------------------------------------------
\* pkg/daemon/routing: the relay flag, its pin and the counters.

SetRelayPeer(s, relay) == [s EXCEPT !.relay = relay]
SetRelayPeerPinned(s, relay) ==
    [s EXCEPT !.relay = relay, !.pinned = relay, !.late = FALSE]
UnpinRelayPeer_Never(s) == s
UnpinRelayPeer_ClearsRelay(s) == SetRelayPeerPinned(s, FALSE)
UnpinRelayPeer(s) == [s EXCEPT !.pinned = FALSE, !.late = FALSE]
AdmitRelayFromBeacon(s) == SetRelayPeerPinned(s, TRUE)
MarkRelayActivatedIfHadCrypto(s) == IF s.key THEN SetRelayPeer(s, TRUE) ELSE s
RecordDirectRecv(s) == [s EXCEPT !.heard = TRUE, !.silence = "short"]
RecordOutboundSend(s) ==
    [s EXCEPT !.silence = IF @ = "none" THEN "short" ELSE @]

\* After a frame that decrypts: three direct ones take an unpinned peer off
\* the relay, and any one starts the count of silent sends over.
ClearRelayOnDirect(s, via) ==
    LET t == [s EXCEPT !.misses = 0]
    IN  IF via = "relay" \/ ~s.relay \/ s.pinned THEN t
        ELSE IF s.clears + 1 >= DirectClearsRequired
             THEN [t EXCEPT !.relay = FALSE, !.clears = 0]
             ELSE [t EXCEPT !.clears = @ + 1]

HandleSendError(s) ==
    IF s.errs + 1 >= SendErrThreshold /\ ~s.relay
    THEN [SetRelayPeerPinned(s, TRUE) EXCEPT !.errs = 0]
    ELSE [s EXCEPT !.errs = IF @ < SendErrThreshold THEN @ + 1 ELSE @]

\* MaybeFlipBlackhole up to its first unlock: is this send a silent one?
LooksSilent(s) == ~s.relay /\ s.silence = "long"
\* ... and under the write lock, which looks only at the relay flag again.
CountMiss(s) ==
    IF s.relay THEN s
    ELSE IF s.misses + 1 >= BlackholeMissesRequired
         THEN [SetRelayPeerPinned(s, TRUE) EXCEPT !.misses = 0]
         ELSE [s EXCEPT !.misses = @ + 1]
MaybeFlipBlackhole(s) == IF LooksSilent(s) THEN CountMiss(s) ELSE s

\* What a sent frame becomes: the paths it travels, and the state after.  A
\* frame for a dead direct path, or for the beacon's address without the relay
\* wrapping, is lost; the socket may report an ICMP error.
Transmit(s) ==
    IF s.relay THEN {[s |-> RecordOutboundSend(s), via |-> {"relay"}]}
    ELSE IF s.peer = "direct" /\ up
         THEN {[s |-> RecordOutboundSend(s), via |-> {"direct"}]}
         ELSE {[s |-> RecordOutboundSend(s), via |-> {}],
               [s |-> HandleSendError(s), via |-> {}]}
WriteFrame(s) == Transmit(MaybeFlipBlackhole(s))

\* A key exchange goes out with a relayed copy while the peer is not flagged.
sendKeyExchangeToNode(s) ==
    {[w EXCEPT !.via = @ \cup IF w.s.relay THEN {} ELSE {"relay"}] :
        w \in WriteFrame(s)}

----------------------------------------------------------------------------
\* The tunnel entry: ensureTunnel, AddPeer and the handlers of frames.

\* The address a registry answer (or the endpoint cache) has for the peer of
\* n: that of a relay-only node is replaced by the beacon's.
Address(n) == IF Peer(n) \in sc.hidden THEN "beacon" ELSE "direct"
AddPeer(n, s) == [s EXCEPT !.peer = Address(n)]

\* ensureTunnel reaches the peer of n: there is an entry, or one can be made.
Reachable(n) ==
    tun[n].peer # "none" \/ cache[n].resolve \/ reg \/ cache[n].ep

\* The state after ensureTunnel, for a reachable peer.  The endpoint cache,
\* the fallback while the registry is silent, knows nothing of relay-only.
ensureTunnel(n, s, c) ==
    IF s.peer # "none" THEN s
    ELSE IF (c.resolve \/ reg) /\ Peer(n) \in sc.hidden
         THEN AddPeer(n, SetRelayPeerPinned(s, TRUE))
         ELSE AddPeer(n, s)
forgetPeerResolution == [resolve |-> FALSE, ep |-> FALSE]
CacheAfter(s, c) ==
    IF s.peer = "none" /\ (c.resolve \/ reg)
    THEN [resolve |-> TRUE, ep |-> TRUE] ELSE c

\* A frame that does not decrypt: remember where it came from, admit the
\* relay if that is all that is known, and ask for a key exchange.
maybeRequestRekey(s, via) ==
    LET t == IF s.peer # "none" THEN s
             ELSE [s EXCEPT !.peer = IF via = "relay" THEN "beacon" ELSE "direct"]
    IN  IF via = "relay" /\ s.peer # "direct"
        THEN AdmitRelayFromBeacon(t) ELSE t

\* The hook after a key exchange was accepted: a direct one sets the address;
\* a relayed one admits the relay unless a direct address is known.
onKeyInstalled(s, via, had) ==
    LET t == [s EXCEPT !.inbound = "recent",
                       !.viaRelay = IF had THEN @ ELSE via = "relay"]
    IN  IF via = "direct" THEN [t EXCEPT !.peer = "direct"]
        ELSE IF s.peer = "direct" THEN t
             ELSE AdmitRelayFromBeacon([t EXCEPT !.peer = "beacon"])

\* A frame that decrypts.
Decrypted(s, via) ==
    LET t == [ClearRelayOnDirect(s, via) EXCEPT !.inbound = "recent"]
    IN  IF via = "direct" THEN [RecordDirectRecv(t) EXCEPT !.peer = "direct"]
        ELSE t

\* The beacon delivered a frame: a peer with a session and no direct address
\* is marked for the relay before the inner frame is looked at.
handleRelayDeliver(s) ==
    IF s.peer = "direct" /\ s.key THEN s
    ELSE LET t == MarkRelayActivatedIfHadCrypto(s)
         IN  IF s.key /\ s.peer = "none" THEN [t EXCEPT !.peer = "beacon"] ELSE t

\* A key-exchange frame of n leaves on the paths of w.
PutKx(n, kind, w) ==
    /\ tun' = [tun EXCEPT ![n] = w.s]
    /\ air' = IF Peer(n) \in sc.away THEN air
              ELSE [air EXCEPT ![Peer(n)] = @ \cup {<<v, kind>> : v \in w.via}]

\* A data frame of n arrives, or is lost when it took no path: the peer
\* decrypts it, or lacks the key and asks for a key exchange.
PutData(n, w) ==
    IF w.via = {} \/ Peer(n) \in sc.away THEN tun' = [tun EXCEPT ![n] = w.s] /\ UNCHANGED air
    ELSE LET m == Peer(n)
             via == CHOOSE v \in w.via : TRUE
             s == IF via = "relay" THEN handleRelayDeliver(tun[m]) ELSE tun[m]
         IN  IF s.key
             THEN /\ tun' = [tun EXCEPT ![n] = w.s, ![m] = Decrypted(s, via)]
                  /\ UNCHANGED air
             ELSE \E x \in sendKeyExchangeToNode(maybeRequestRekey(s, via)) :
                    /\ tun' = [tun EXCEPT ![n] = w.s, ![m] = x.s]
                    /\ air' = [air EXCEPT ![n] =
                                   @ \cup {<<v, "kxreq">> : v \in x.via}]

----------------------------------------------------------------------------
Init ==
    /\ sc \in Scenarios
    /\ tun = [n \in Node |-> IF sc.established THEN Talking ELSE Removed]
    /\ removing = [n \in Node |-> NotRemoving]
    /\ installing = [n \in Node |-> <<>>]
    /\ cache = [n \in Node |-> forgetPeerResolution]
    /\ writing = [n \in Node |-> FALSE]
    /\ upgrade = [n \in Node |-> 0]
    /\ probes = [n \in Node |-> 0]
    /\ dial = [n \in Node |-> NoDial]
    /\ orphan = [n \in Node |-> FALSE]
    /\ use = sc.established
    /\ air = [n \in Node |-> {}]
    /\ up = sc.up
    /\ reg = TRUE
    /\ flaps = 0 /\ regFlaps = 0
    /\ resets = [n \in Node |-> 0]
    /\ dials = [n \in Node |-> 0]

env == <<use, up, reg, sc, flaps, regFlaps>>
threads == <<removing, installing>>
own == <<writing, upgrade, probes, orphan, threads>>

\* No thread of n is between two of its locks; those that are, if they are
\* slow, may be overtaken there.
Idle(n) == removing[n].at = 0 /\ installing[n] = <<>> /\ dial[n].look = "none"
Between(n) ==
    (IF removing[n].at = 0 THEN {} ELSE {IF removing[n].reset THEN "reset" ELSE "reap"})
    \cup (IF installing[n] = <<>> THEN {} ELSE {"install"})
    \cup (IF dial[n].look = "none" THEN {} ELSE {"dial"})
Free == {n \in Node : ~(Between(n) \subseteq sc.slow[n])} = {}
\* Frames in flight are much faster than the timers; so are threads than the
\* timers of seconds.
Still == (\A n \in Node : air[n] = {}) /\ Free
Calm == \A n \in Node : air[n] = {} /\ Idle(n)
\* peeractivity.go: a peer with an open connection is not idle; nor is it,
\* for two more minutes, after its last use (not told apart here).
idle == ~use

\* Application data or a keepalive to a peer in use: WriteFrame, whose
\* blackhole check reads under one lock and counts under another.
Write(n) ==
    /\ ~idle /\ tun[n].key /\ tun[n].peer # "none" /\ ~writing[n] /\ Free
    /\ IF LooksSilent(tun[n])
       THEN writing' = [writing EXCEPT ![n] = TRUE] /\ UNCHANGED <<tun, air>>
       ELSE /\ \E w \in Transmit(tun[n]) : PutData(n, w)
            /\ UNCHANGED writing
    /\ UNCHANGED <<threads, cache, upgrade, probes, dial, orphan, resets, dials, env>>
WriteLocked(n) ==
    /\ writing[n] /\ Free
    /\ writing' = [writing EXCEPT ![n] = FALSE]
    /\ \E w \in Transmit(CountMiss(tun[n])) : PutData(n, w)
    /\ UNCHANGED <<threads, cache, upgrade, probes, dial, orphan, resets, dials, env>>

\* A key exchange arrives and its key is installed ...
ReceiveKx(n, f) ==
    LET s == IF f[1] = "relay" THEN handleRelayDeliver(tun[n]) ELSE tun[n]
    IN  /\ f \in air[n] /\ installing[n] = <<>> /\ Free
        /\ air' = [air EXCEPT ![n] = @ \ {f}]
        /\ tun' = [tun EXCEPT ![n] = [s EXCEPT !.key = TRUE]]
        /\ installing' = [installing EXCEPT ![n] = <<f[1], f[2], s.key>>]
        /\ removing' = [removing EXCEPT ![n].crossed = removing[n].at \in 1..5]
        /\ UNCHANGED <<cache, writing, upgrade, probes, orphan, dial, resets, dials, env>>
\* ... then the hook runs, and the node answers an exchange that asks for its
\* key, or that brought it its first.
KeyInstalled(n) ==
    LET i == installing[n]
        s == onKeyInstalled(tun[n], i[1], i[3])
    IN  /\ i # <<>>
        /\ installing' = [installing EXCEPT ![n] = <<>>]
        /\ IF i[2] = "kxreq" \/ ~i[3]
           THEN \E w \in sendKeyExchangeToNode(s) : PutKx(n, "kx", w)
           ELSE tun' = [tun EXCEPT ![n] = s] /\ UNCHANGED air
        /\ UNCHANGED <<cache, removing, writing, upgrade, probes, orphan, dial, resets, dials, env>>

----------------------------------------------------------------------------
\* RemovePeer: the session, the tunnel entry, the routing state, the key
\* exchange's state and keyViaRelay, each under its own lock.

Wiped(s, at) ==
    CASE at = 1 -> [s EXCEPT !.key = FALSE]
      [] at = 2 -> [s EXCEPT !.peer = "none"]
      [] at = 3 -> [Removed EXCEPT !.peer = s.peer, !.key = s.key,
                                   !.viaRelay = s.viaRelay, !.inbound = s.inbound]
      [] at = 4 -> [s EXCEPT !.inbound = "none"]
      [] at = 5 -> [s EXCEPT !.viaRelay = FALSE]

\* It has been called, by a path reset (with the relay flag that reset found)
\* or by a reaper.  crossed is history: the removal and the install of a key,
\* the last of each, overlapped.
Called(n, at, reset, relay) ==
    /\ removing[n].at = 0
    /\ removing' = [removing EXCEPT ![n] =
           [at |-> at, reset |-> reset, relay |-> relay,
            crossed |-> IF at = 1 THEN installing[n] # <<>> ELSE removing[n].crossed]]
RemovePeer(n) ==
    LET r == removing[n]
    IN  /\ r.at \in 1..5
        /\ tun' = [tun EXCEPT ![n] = Wiped(@, r.at)]
        /\ removing' = [removing EXCEPT ![n].at = IF r.at = 5 /\ ~r.reset THEN 0 ELSE @ + 1]
        /\ UNCHANGED <<installing, cache, writing, upgrade, probes, orphan, dial, air,
                       resets, dials, env>>

\* rekeyRetransmitLoop: while the key is missing the exchange is repeated,
\* and after a few attempts the peer is flagged for the relay.
rekeyRetransmit(n) ==
    /\ tun[n].peer # "none" /\ ~tun[n].key /\ Calm
    /\ use \/ dial[n].open
    /\ \E s \in {tun[n], SetRelayPeer(tun[n], TRUE)} :
          \E w \in sendKeyExchangeToNode(s) : PutKx(n, "kxreq", w)
    /\ UNCHANGED <<cache, own, dial, resets, dials, env>>

\* Time: more than DirectBlackholeThreshold without a direct frame, and more
\* than pathSilenceThreshold without any frame.
FallSilent(n) ==
    /\ Calm
    /\ \/ /\ sc.silences /\ tun[n].silence = "short"
          /\ tun' = [tun EXCEPT ![n].silence = "long"]
       \/ /\ resets[n] < sc.resets[n] /\ tun[n].inbound = "recent"
          /\ tun' = [tun EXCEPT ![n].inbound = "silent"]
    /\ UNCHANGED <<cache, own, dial, air, resets, dials, env>>

\* A relayed peer in use gets one direct-upgrade attempt at a time ...
relayProbeTick(n) ==
    tun[n].relay /\ ~idle /\ tun[n].peer # "none" /\ upgrade[n] = 0 /\ Calm
\* ... which, with the peer's real address known, takes the pin off, punches,
\* and sends a few probes to that address.
tryDirectUpgrade(n) ==
    /\ relayProbeTick(n)
    /\ cache[n].resolve \/ reg
    /\ Peer(n) \notin sc.hidden
    /\ tun' = [tun EXCEPT ![n] = UnpinRelayPeer(@)]
    /\ upgrade' = [upgrade EXCEPT ![n] = DirectClearsRequired]
    /\ cache' = [cache EXCEPT ![n].resolve = TRUE]
    /\ UNCHANGED <<threads, writing, probes, dial, orphan, air, resets, dials, env>>
SendDirectProbeTo(n) ==
    /\ upgrade[n] > 0 /\ Free
    /\ IF ~tun[n].key
       THEN upgrade' = [upgrade EXCEPT ![n] = 0] /\ UNCHANGED <<tun, air>>
       ELSE /\ upgrade' = [upgrade EXCEPT ![n] = @ - 1]
            /\ PutData(n, [s |-> RecordOutboundSend(tun[n]),
                    via |-> IF up THEN {"direct"} ELSE {}])
    /\ UNCHANGED <<threads, cache, writing, probes, dial, orphan, resets, dials, env>>

\* resetPeerPath: take the pin off, forget the resolution, and drop the tunnel
\* and the session of a peer that has a tunnel;
resetPeerPath(n) ==
    LET s == tun[n]
    IN  /\ resets' = [resets EXCEPT ![n] = @ + 1]
        /\ tun' = [tun EXCEPT ![n] = IF s.pinned THEN SetRelayPeerPinned(s, FALSE) ELSE s]
        /\ cache' = [cache EXCEPT ![n] = forgetPeerResolution]
        /\ Called(n, IF s.peer # "none" THEN 1 ELSE 6, TRUE, s.relay)
        /\ UNCHANGED <<installing, air>>
\* then keep the relay in use, without its pin, resolve the peer again and push
\* a key exchange.
PathReset(n) ==
    LET t == IF removing[n].relay THEN SetRelayPeer(tun[n], TRUE) ELSE tun[n]
        e == ensureTunnel(n, t, cache[n])
    IN  /\ removing[n].at = 6
        /\ removing' = [removing EXCEPT ![n] = [NotRemoving EXCEPT !.crossed = removing[n].crossed]]
        /\ IF Reachable(n)
           THEN /\ cache' = [cache EXCEPT ![n] = CacheAfter(t, @)]
                /\ \E w \in sendKeyExchangeToNode(e) : PutKx(n, "kxreq", w)
           ELSE /\ tun' = [tun EXCEPT ![n] = t]
                /\ UNCHANGED <<cache, air>>
        /\ UNCHANGED <<installing, writing, upgrade, probes, orphan, dial, resets, dials, env>>

\* The path watchdog looks at peers in use that have a session:
pathWatchTick(n) == ~idle /\ tun[n].peer # "none" /\ tun[n].key /\ Calm
\* it probes a silent one, resets it when the probes are spent, and forgets
\* them when it is heard.
pathWatchPeer(n) ==
    /\ pathWatchTick(n)
    /\ \/ /\ tun[n].inbound = "recent" /\ probes[n] > 0
          /\ probes' = [probes EXCEPT ![n] = 0]
          /\ UNCHANGED <<tun, threads, air, cache, resets>>
       \/ /\ tun[n].inbound = "silent" /\ probes[n] < pathProbeMax
          /\ probes' = [probes EXCEPT ![n] = @ + 1]
          /\ \E w \in WriteFrame(tun[n]) : PutData(n, w)
          /\ UNCHANGED <<threads, cache, resets>>
       \/ /\ tun[n].inbound = "silent" /\ probes[n] = pathProbeMax
          /\ resets[n] < sc.resets[n]
          /\ probes' = [probes EXCEPT ![n] = 0]
          /\ resetPeerPath(n)
    /\ UNCHANGED <<writing, upgrade, dial, orphan, dials, env>>
\* `pilotctl prefer-direct`, or a key exchange that was given up.
PreferDirect(n) ==
    /\ tun[n] # Removed /\ resets[n] < sc.resets[n] /\ Free
    /\ resetPeerPath(n)
    /\ UNCHANGED <<writing, upgrade, probes, orphan, dial, dials, env>>

----------------------------------------------------------------------------
\* dialConnectionLocked: the tunnel, the first SYN, then a timer.

\* A SYN, or while it waits for a key, the key exchange.
WriteSyn(n, s) ==
    IF s.key THEN \E w \in WriteFrame(s) : PutData(n, w)
    ELSE \E w \in sendKeyExchangeToNode(s) : PutKx(n, "kxreq", w)
Dial(n) ==
    LET s == ensureTunnel(n, tun[n], cache[n])
    IN  /\ ~use /\ dial[n] = NoDial /\ dials[n] < sc.dials[n] /\ Reachable(n) /\ Still
        /\ dials' = [dials EXCEPT ![n] = @ + 1]
        /\ cache' = [cache EXCEPT ![n] = CacheAfter(tun[n], @)]
        /\ dial' = [dial EXCEPT ![n] =
               [NoDial EXCEPT !.relayActive = s.relay, !.open = TRUE, !.direct =
                       IF s.relay /\ s.pinned THEN 0 ELSE DialDirectRetries]]
        /\ WriteSyn(n, s)
        /\ UNCHANGED <<own, resets, env>>

\* Onto the relay: at once when it is the only path the peer has proven, else
\* when the direct retries are spent.
ViaRelayOnly(s, d) ==
    s.key /\ ~d.relayActive /\ d.retries < d.direct /\ s.viaRelay /\ ~s.heard
Switches(s, d) ==
    ViaRelayOnly(s, d) \/ (d.retries + 1 = d.direct /\ ~d.relayActive)

Ended_Pinned(s, d) ==
    IF d.here THEN [NoDial EXCEPT !.look = IF s.pinned THEN "pinned" ELSE "unpinned"]
    ELSE NoDial
\* The dial is over: its own flip to the relay is not to outlive it, unless it
\* was pinned; it looks at the pin ...
Ended(s, d) ==
    IF d.here /\ ~s.pinned THEN [NoDial EXCEPT !.look = "unpinned"] ELSE NoDial
\* ... and then, under another lock, clears the relay flag.
Unflip(n) ==
    LET s == tun[n]
    IN  /\ dial[n].look # "none"
        /\ dial' = [dial EXCEPT ![n] = NoDial]
        /\ tun' = [tun EXCEPT ![n] =
               [SetRelayPeer(s, FALSE) EXCEPT
                    !.late = s.pinned /\ (@ \/ dial[n].look = "unpinned")]]
        /\ UNCHANGED <<own, cache, air, resets, dials, env>>

\* The timer.  While the key is missing it does not count, for at most
\* DialKeyExchangeWait; after that it does, so a count may come at any time.
DialStep(n) ==
    LET d == dial[n]
        s == IF Switches(tun[n], d) THEN SetRelayPeer(tun[n], TRUE) ELSE tun[n]
        e == IF Switches(tun[n], d)
             THEN [d EXCEPT !.relayActive = TRUE, !.here = TRUE, !.retries = @ + 1,
                            !.direct = IF ViaRelayOnly(tun[n], d) THEN 0 ELSE @]
             ELSE [d EXCEPT !.retries = @ + 1]
    IN  /\ d.open /\ Calm
        /\ IF e.retries > DialMaxRetries
           THEN /\ dial' = [dial EXCEPT ![n] = Ended(s, e)]
                /\ tun' = [tun EXCEPT ![n] = s]
                /\ cache' = [cache EXCEPT ![n] = forgetPeerResolution]
                /\ UNCHANGED air
           ELSE /\ dial' = [dial EXCEPT ![n] = e]
                /\ IF s.peer = "none"
                   THEN tun' = [tun EXCEPT ![n] = s] /\ UNCHANGED air
                   ELSE WriteSyn(n, s)
                /\ UNCHANGED cache
        /\ UNCHANGED <<own, resets, dials, env>>
DialTimer_WaitsForKey(n) == tun[n].key /\ DialStep(n)
DialTimer(n) == DialStep(n)
DialCancelled(n) ==
    /\ dial[n].open /\ Free
    /\ dial' = [dial EXCEPT ![n] = Ended(tun[n], @)]
    /\ UNCHANGED <<own, tun, cache, air, resets, dials, env>>
\* The SYN-ACK (streams are the subject of Stream and Ports): it can come
\* once both ends have the session.
DialAnswered(n) ==
    /\ dial[n].open /\ tun[n].key /\ tun[Peer(n)].key /\ Free
    /\ dial' = [dial EXCEPT ![n] = NoDial]
    /\ use' = TRUE
    /\ UNCHANGED <<own, tun, cache, air, up, reg, sc, flaps, regFlaps, resets, dials>>
CloseAll ==
    /\ use /\ sc.closes /\ Free
    /\ use' = FALSE
    /\ UNCHANGED <<own, tun, cache, dial, air, up, reg, sc, flaps, regFlaps, resets, dials>>

----------------------------------------------------------------------------
\* idleSweepLoop: reapStalePeers and reapOrphanedPeerState, five minutes
\* after the last contact with a peer that has no connection.

Active(n) == use \/ dial[n].open
Contact(s) == s.silence # "none" \/ s.inbound # "none"
Orphaned(s) == s.peer = "none" /\ s # Removed
Quiet(n) == Still /\ ~writing[n] /\ upgrade[n] = 0

forgetPeer(n) == Called(n, 1, FALSE, FALSE)
reapStalePeers(n) ==
    /\ ~Active(n) /\ Quiet(n) /\ tun[n].peer # "none" /\ Contact(tun[n])
    /\ forgetPeer(n)
    /\ UNCHANGED <<tun, installing, writing, upgrade, probes, orphan, cache, dial, air,
                   resets, dials, env>>
reapOrphanedPeerState(n) ==
    /\ Free
    /\ IF Active(n) \/ tun[n].peer # "none" \/ tun[n] = Removed
       THEN orphan[n] /\ orphan' = [orphan EXCEPT ![n] = FALSE] /\ UNCHANGED removing
       ELSE /\ Quiet(n)
            /\ IF ~Contact(tun[n]) /\ ~orphan[n]
               THEN orphan' = [orphan EXCEPT ![n] = TRUE] /\ UNCHANGED removing
               ELSE /\ orphan' = [orphan EXCEPT ![n] = FALSE]
                    /\ forgetPeer(n)
    /\ UNCHANGED <<tun, installing, writing, upgrade, probes, cache, dial, air, resets,
                   dials, env>>
\* ResolveCacheTTL, and reapCaches an hour later.
reapCaches(n) ==
    /\ Calm
    /\ \/ cache[n].resolve /\ cache' = [cache EXCEPT ![n].resolve = FALSE]
       \/ ~cache[n].resolve /\ cache[n].ep /\ cache' = [cache EXCEPT ![n].ep = FALSE]
    /\ UNCHANGED <<own, tun, dial, air, resets, dials, env>>

\* The direct path or the registry goes away or comes back.
Flap ==
    /\ Free
    /\ \/ /\ flaps < sc.flaps
          /\ up' = ~up /\ flaps' = flaps + 1
          /\ UNCHANGED <<reg, regFlaps>>
       \/ /\ regFlaps < sc.regFlaps
          /\ reg' = ~reg /\ regFlaps' = regFlaps + 1
          /\ UNCHANGED <<up, flaps>>
    /\ UNCHANGED <<own, tun, cache, dial, use, air, sc, resets, dials>>

\* A thread of n goes on to its next lock.
GoOn(n) == KeyInstalled(n) \/ RemovePeer(n) \/ PathReset(n) \/ Unflip(n)

Upkeep(n) ==
    \/ Write(n) \/ WriteLocked(n) \/ (\E f \in Frame : ReceiveKx(n, f)) \/ rekeyRetransmit(n)
    \/ FallSilent(n) \/ tryDirectUpgrade(n) \/ SendDirectProbeTo(n)
    \/ pathWatchPeer(n) \/ DialTimer(n)
    \/ reapStalePeers(n) \/ reapOrphanedPeerState(n)
Next ==
    \/ \E n \in Node : \/ GoOn(n) \/ Upkeep(n) \/ PreferDirect(n) \/ Dial(n)
                       \/ DialCancelled(n) \/ DialAnswered(n) \/ reapCaches(n)
    \/ CloseAll \/ Flap

Spec == Init /\ [][Next]_vars

\* Timers fire, frames arrive, threads go on, and peers in use are written to.
Fairness ==
    \A n \in Node :
        /\ WF_vars(Write(n)) /\ WF_vars(WriteLocked(n)) /\ WF_vars(GoOn(n))
        /\ WF_vars(\E f \in Frame : ReceiveKx(n, f))
        /\ WF_vars(rekeyRetransmit(n)) /\ WF_vars(DialTimer(n))
        /\ WF_vars(tryDirectUpgrade(n)) /\ WF_vars(SendDirectProbeTo(n))
        /\ WF_vars(FallSilent(n)) /\ WF_vars(reapOrphanedPeerState(n))
FairSpec == Spec /\ Fairness
----------------------------------------------------------------------------
\* What a node may keep about its peer, and about a dial.
Tunnel ==
    [peer : {"none", "direct", "beacon"}, key : BOOLEAN, viaRelay : BOOLEAN,
     relay : BOOLEAN, pinned : BOOLEAN, late : BOOLEAN, misses : 0..BlackholeMissesRequired - 1,
     clears : 0..DirectClearsRequired - 1, errs : 0..SendErrThreshold,
     heard : BOOLEAN, silence : {"none", "short", "long"},
     inbound : {"none", "recent", "silent"}]
DialState ==
    [retries : 0..DialMaxRetries, direct : 0..DialDirectRetries,
     relayActive : BOOLEAN, here : BOOLEAN, open : BOOLEAN,
     look : {"none", "unpinned", "pinned"}]
Removal == [at : 0..6, reset : BOOLEAN, relay : BOOLEAN, crossed : BOOLEAN]
Install == {<<>>} \cup ({"direct", "relay"} \X {"kx", "kxreq"} \X BOOLEAN)

\* Type correctness: the counters stay below their thresholds, and no dial
\* sends a SYN past its retry budget.
TypeOK ==
    /\ tun \in [Node -> Tunnel] /\ air \in [Node -> SUBSET Frame]
    /\ dial \in [Node -> DialState]
    /\ removing \in [Node -> Removal] /\ installing \in [Node -> Install]
    /\ cache \in [Node -> [resolve : BOOLEAN, ep : BOOLEAN]]
    /\ upgrade \in [Node -> 0..DirectClearsRequired]
    /\ probes \in [Node -> 0..pathProbeMax]
    /\ writing \in [Node -> BOOLEAN] /\ orphan \in [Node -> BOOLEAN]

\* The routing maps: a pin stands without the relay flag it protects only when
\* it came after the look of the dial that cleared the flag; and what was heard
\* directly counts against the silence.
RoutingAgrees(s) ==
    /\ s.pinned /\ ~s.relay => s.late
    /\ s.heard => s.silence # "none"

\* A session has a tunnel entry, and the path watchdog a time to judge it by.
SessionAgrees(s) == s.key => s.peer # "none" /\ s.inbound # "none"
\* Neither RemovePeer nor the install of a key is under way, and the last of
\* each did not overlap.
Undisturbed(n) ==
    removing[n].at = 0 /\ installing[n] = <<>> /\ ~removing[n].crossed

\* The types; the per-peer maps of each node agree, whichever of the handlers,
\* timers and reapers touched them last, but for what two races leave: a pin
\* that comes while a dial takes its relay flip back (dialConnectionLocked),
\* and a key installed while RemovePeer runs, until the next key exchange or
\* removal that runs alone; and a dial that flipped its peer to the relay
\* knows it, so it does so once, and none is half closed.
PathsSound ==
    /\ TypeOK
    /\ \A n \in Node :
        /\ RoutingAgrees(tun[n])
        /\ Undisturbed(n) => SessionAgrees(tun[n])
        /\ dial[n].here => dial[n].relayActive
        /\ ~dial[n].open /\ dial[n].look = "none" => dial[n] = NoDial

\* When the direct path works for good and the peers stay in use, neither end
\* stays on the relay: tryDirectUpgrade unpins a flipped peer and its probes
\* let the other end's ClearRelayOnDirect take it back to direct.
DirectRecovers ==
    \A n \in Node :
        <>[](up /\ reg /\ use /\ sc.hidden = {}) => []<>(~tun[n].relay)

\* When the direct path dies for good and the peers stay in use, the two do
\* not both keep sending into it: MaybeFlipBlackhole moves at least one end
\* to the relay, and the direct-upgrade attempts do not move it back.
OneEndLeaves ==
    <>[](~up /\ use) => <>[](\E n \in Node : tun[n].relay)

\* Nothing lingers.  The per-peer state of a node that has no tunnel entry
\* (what a path reset leaves when the peer cannot be resolved) does not stay
\* for the daemon's lifetime: reapOrphanedPeerState drops it once no connection
\* is open.  Every dial ends: with an answer, a cancellation, or its retry
\* budget spent on the two paths, also when the key exchange never completes.
NothingLingers ==
    \A n \in Node :
        /\ Orphaned(tun[n]) ~> ~Orphaned(tun[n]) \/ Active(n)
        /\ dial[n].open ~> ~dial[n].open
============================================================================
