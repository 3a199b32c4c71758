------------------------------ MODULE AddrWatch ------------------------------
(***************************************************************************)
(* The watcher of this node's own address: what it remembers between ticks *)
(* (addrWatchState), when it decides that the node has moved, and the      *)
(* recovery that tells the beacon, the peers and the registry.  The host's *)
(* route, its public address, and the beacon in use change at any time.    *)
(***************************************************************************)
EXTENDS Integers, Sequences, FiniteSets, SequencesExt

CONSTANTS
  Scenarios,            \* what may happen, and how often
  addrRegistryRetryMax,
  ProbeRepeats          \* len(addrAnnounceRetryDelays)

VARIABLES
  sc,     \* the scenario
  left,   \* bounds on moves, faults and losses
  net,    \* the host's network: its address (0 offline), public IP, beacon
  obs,    \* the two latest discover replies, newest first
  st,     \* addrWatchState
  held,   \* gaps that have not passed: "any" and one per reason
  peer,   \* the address the peer sends to
  bk,     \* the beacon's endpoint of this node; its update limit is armed; history: a
          \* follow-up's registration was lost and none has been accepted since
  regAt,  \* the address and public IP the registry holds
  fu,     \* addrAnnounceFollowUp goroutines: probes left before the last step
  moved,  \* history: changes of the host's or the public address
  ran     \* history: recoveries that announced a move

vars == <<sc, left, net, obs, st, held, peer, bk, regAt, fu, moved, ran>>

None == [beacon |-> 0, ip |-> 0]
\* The source address of the route to a beacon.
Route(b) == IF net.host = 0 THEN 0 ELSE IF sc.routes THEN 10 * net.host + b ELSE net.host

Init ==
  /\ sc \in Scenarios
  /\ left = sc.left
  /\ net = [host |-> 1, pub |-> 1, beacon |-> 1]
  /\ obs = [i \in 1 .. 2 |-> [beacon |-> 1, ip |-> 1]]
  /\ st = [beacon |-> 1, local |-> Route(1), announced |-> Route(1), observed |-> 1, current |-> 1,
           asked |-> FALSE, retries |-> 0]
  /\ held = {}
  /\ peer = 1 /\ bk = [at |-> 1, armed |-> FALSE, missed |-> FALSE] /\ regAt = <<1, 1>>
  /\ fu = <<>>
  /\ moved = 0 /\ ran = 0

Spend(k) == left[k] > 0 /\ left' = [left EXCEPT ![k] = @ - 1]

----------------------------------------------------------------------------
(***************************************************************************)
(* The world.                                                              *)
(***************************************************************************)

\* Onto another network, perhaps after a time without one.
Move ==
  /\ Spend("moves")
  /\ \E off \in (IF sc.offline THEN BOOLEAN ELSE {FALSE}) :
        net' = [net EXCEPT !.host = IF off THEN 0 ELSE moved + 2, !.pub = moved + 2]
  /\ moved' = moved + 1
  /\ UNCHANGED <<sc, obs, st, held, peer, bk, regAt, fu, ran>>
BackOnline ==
  /\ net.host = 0
  /\ net' = [net EXCEPT !.host = moved + 1]
  /\ UNCHANGED <<sc, left, obs, st, held, peer, bk, regAt, fu, moved, ran>>
\* The NAT gets another public address; the host's own stays.  Only while
\* the watcher has a baseline: it takes a change before that for the baseline.
Renumbered ==
  /\ st.observed # 0 /\ Spend("nats")
  /\ net' = [net EXCEPT !.pub = moved + 2]
  /\ moved' = moved + 1
  /\ UNCHANGED <<sc, obs, st, held, peer, bk, regAt, fu, ran>>
\* beaconRefreshTick picks the other beacon, while there is a network.
BeaconSwitched ==
  /\ net.host # 0 /\ Spend("switches")
  /\ net' = [net EXCEPT !.beacon = 3 - @]
  /\ UNCHANGED <<sc, obs, st, held, peer, bk, regAt, fu, moved, ran>>
\* A registration, one datagram: lost, dropped by the beacon as too soon
\* after another, or taken; never sent without a network.
RegisterWithBeacon(lost) ==
  bk' = IF net.host # 0 /\ ~lost /\ ~bk.armed
        THEN [at |-> net.host, armed |-> TRUE, missed |-> FALSE] ELSE bk
\* The beacon's reply: stored as the latest, and now and then naming another
\* address than it should.
Replied(ip) == obs' = <<[beacon |-> net.beacon, ip |-> ip], obs[1]>>
KeepaliveReply ==
  /\ net.host # 0
  /\ \/ Replied(net.pub) /\ UNCHANGED left
     \/ Replied(99) /\ Spend("noise")
  /\ RegisterWithBeacon(FALSE)
  /\ obs' # obs \/ bk'.at # bk.at
  /\ st' = [st EXCEPT !.asked = FALSE]
  /\ UNCHANGED <<sc, net, held, peer, regAt, fu, moved, ran>>
\* Time passes: a gap ends, the shared one first; the beacon's limit on endpoint updates expires.
TimePasses ==
  /\ \/ \E g \in held : ("any" \in held => g = "any") /\ held' = held \ {g} /\ UNCHANGED bk
     \/ bk.armed /\ bk' = [bk EXCEPT !.armed = FALSE] /\ UNCHANGED held
  /\ UNCHANGED <<sc, left, net, obs, st, peer, regAt, fu, moved, ran>>

----------------------------------------------------------------------------
(***************************************************************************)
(* addrWatchState's methods, on values.                                    *)
(***************************************************************************)

noteLocal(s, a) ==
  IF a = 0 THEN s ELSE [s EXCEPT !.local = a, !.announced = IF @ = 0 THEN a ELSE @]
noteBeacon(s, b) ==
  LET kept == s.local # s.announced
  IN  [s EXCEPT !.beacon = b, !.observed = 0, !.current = 0, !.asked = FALSE,
                !.local = IF kept THEN @ ELSE 0, !.announced = IF kept THEN @ ELSE 0]
noteObserved(s, latest, prev) ==
  IF latest.ip = 0 \/ prev.ip = 0 \/ latest.beacon # s.beacon \/ prev.beacon # s.beacon
     \/ latest.ip # prev.ip THEN s
  ELSE [s EXCEPT !.current = latest.ip, !.observed = IF @ = 0 THEN latest.ip ELSE @]
wantConfirm(s, latest) ==
  latest.ip # 0 /\ latest.beacon = s.beacon /\ latest.ip # s.current /\ ~s.asked
pending(s) ==
  IF s.local # s.announced THEN "local"
  ELSE IF s.observed # 0 /\ s.current # s.observed THEN "observed"
  ELSE IF s.retries > 0 THEN "registry" ELSE "none"
due(s) == pending(s) # "none" /\ "any" \notin held /\ pending(s) \notin held
began(s, reason) ==
  [s EXCEPT !.announced = s.local,
            !.observed = CASE reason = "local" -> 0 [] reason = "observed" -> s.current [] OTHER -> @,
            !.current = IF reason = "local" THEN 0 ELSE @,
            !.retries = IF reason = "registry" THEN @ - 1 ELSE 0]
\* The registry-only retries are spaced from the move they belong to.
Gaps(reason) == {"any", reason} \cup (IF reason = "registry" THEN {} ELSE {"registry"})
finished(s, reason, ok) ==
  [s EXCEPT !.retries = IF ok THEN 0 ELSE IF reason = "registry" THEN @ ELSE addrRegistryRetryMax]

----------------------------------------------------------------------------
(***************************************************************************)
(* The tick, the recovery and its follow-up.                               *)
(***************************************************************************)

\* addrWatchTick up to its decision: one last sample on the old route when
\* the beacon has changed, then the sample and the replies of the new one.
Sampled ==
  LET b == net.beacon
      old == IF st.announced # 0 THEN noteLocal(st, Route(st.beacon)) ELSE st
      s0 == IF b = st.beacon THEN st ELSE noteBeacon(old, b)
  IN  noteObserved(noteLocal(s0, Route(b)), obs[1], obs[2])

\* recoverFromAddrChange's registry half: over a fresh connection.
registryAnswers(ok) ==
  regAt' = IF ok THEN <<net.host, net.pub>> ELSE regAt
\* One probe to the peer, which learns our address from its source.
announceToPeers(lost) == peer' = IF lost THEN peer ELSE net.host

\* The registration goes out before the probes and again with the registry
\* half, which is all that a registry retry does: unheard means every one lost.
recoverFromAddrChange(s, reason, ok, lost, unheard) ==
  LET announce == reason # "registry"
      sent == IF announce THEN 2 ELSE 1
  IN  /\ registryAnswers(ok)
      /\ (lost => announce /\ left.probes > 0)
      /\ (unheard => left.beacon >= sent)
      /\ left' = [left EXCEPT !.registry = IF ok THEN @ ELSE @ - 1,
                              !.probes = IF lost THEN @ - 1 ELSE @,
                              !.beacon = IF unheard THEN @ - sent ELSE @]
      /\ RegisterWithBeacon(unheard)
      /\ IF announce
         THEN /\ announceToPeers(lost)
              /\ fu' = Append(fu, ProbeRepeats)
              /\ ran' = ran + 1
         ELSE UNCHANGED <<peer, fu, ran>>
      /\ st' = finished(began(s, reason), reason, ok)
      /\ held' = held \cup Gaps(reason)
      /\ obs' = IF reason = "local" THEN <<None, None>> ELSE obs

\* The confirming registration, and the reply to it unless one of the two is lost.
Confirm ==
  \/ Replied(net.pub) /\ RegisterWithBeacon(FALSE) /\ UNCHANGED left
  \/ Spend("beacon") /\ UNCHANGED <<obs, bk>>
addrWatchTick ==
  /\ LET s == Sampled
         confirm == net.host # 0 /\ wantConfirm(s, obs[1])
     IN  \/ /\ due(s) /\ net.host # 0
            /\ \E ok \in {TRUE, left.registry = 0}, lost \in {FALSE, left.probes > 0},
                  unheard \in {FALSE, left.beacon > 0} :
                 recoverFromAddrChange(s, pending(s), ok, lost, unheard)
         \/ /\ ~(due(s) /\ net.host # 0)
            /\ st' = [s EXCEPT !.asked = @ \/ confirm]
            /\ IF confirm THEN Confirm ELSE UNCHANGED <<left, obs, bk>>
            /\ UNCHANGED <<held, peer, regAt, fu, ran>>
  /\ UNCHANGED <<sc, net, moved>>

\* The probe is repeated while the peer has not answered from the new
\* address and a probe can be sent; past the beacon's limit the registration
\* is repeated once.
Reprobes(i) ==
  /\ fu[i] > 0
  /\ \/ /\ net.host = 0 \/ peer = net.host
        /\ fu' = [fu EXCEPT ![i] = 0] /\ UNCHANGED <<left, peer>>
     \/ /\ net.host # 0 /\ peer # net.host
        /\ \/ announceToPeers(FALSE) /\ UNCHANGED left
           \/ announceToPeers(TRUE) /\ Spend("probes")
        /\ fu' = [fu EXCEPT ![i] = @ - 1]
  /\ UNCHANGED bk
Reregisters_Never(i) ==
  /\ fu[i] = 0 /\ (~bk.armed \/ bk.at = net.host)
  /\ fu' = RemoveAt(fu, i)
  /\ UNCHANGED <<left, peer, bk>>
Reregisters(i) ==
  /\ fu[i] = 0 /\ (~bk.armed \/ bk.at = net.host)
  /\ \/ net.host # 0 /\ RegisterWithBeacon(FALSE) /\ UNCHANGED left
     \/ net.host # 0 /\ Spend("beacon") /\ bk' = [bk EXCEPT !.missed = bk.at # net.host]
     \/ net.host = 0 /\ UNCHANGED left /\ bk' = [bk EXCEPT !.missed = TRUE]
  /\ fu' = RemoveAt(fu, i)
  /\ UNCHANGED peer
addrAnnounceFollowUp(i) ==
  /\ Reprobes(i) \/ Reregisters(i)
  /\ UNCHANGED <<sc, net, obs, st, held, regAt, moved, ran>>

FollowUp == \E i \in DOMAIN fu : addrAnnounceFollowUp(i)
Next == Move \/ BackOnline \/ Renumbered \/ BeaconSwitched \/ KeepaliveReply \/ TimePasses
        \/ addrWatchTick \/ FollowUp
\* The watcher ticks every second, gaps end, replies to the keepalives come,
\* and a host without a network gets one back.
Fairness == WF_vars(BackOnline) /\ WF_vars(KeepaliveReply /\ obs'[1].ip = net.pub) /\ WF_vars(TimePasses)
            /\ WF_vars(addrWatchTick) /\ WF_vars(FollowUp)
Spec == Init /\ [][Next]_vars /\ Fairness

----------------------------------------------------------------------------
\* The types; retries are owed only up to their maximum.
TypeOK ==
  /\ st.retries \in 0 .. addrRegistryRetryMax
  /\ held \subseteq {"any", "local", "observed", "registry"}
  /\ \A i \in DOMAIN fu : fu[i] \in 0 .. ProbeRepeats
  /\ Len(obs) = 2
  /\ st.beacon \in 0 .. 2 /\ net.beacon \in 1 .. 2

\* Every move is announced in the end: the peer sends to the present address,
\* the beacon relays to it and the registry holds it, with the public address
\* seen with it, although moves come inside the cooldown, probes and
\* registrations are lost and the registry fails.
Announced == peer = net.host /\ bk.at = net.host /\ regAt = <<net.host, net.pub>>
MoveIsAnnounced == []<>Announced

\* A recovery is never run for nothing: not for a beacon that is reached from
\* another address or sees another one, nor for a reply no second confirms.
NoSpuriousRecovery == ran <= moved

\* Once a recovery and its follow-up are over and nothing else has moved, the
\* beacon relays to the present address, although it dropped the updates that
\* came too soon after another, and although every registration of the recovery
\* itself was lost: only a loss of the repeat leaves it at the old address,
\* until the next registration it accepts.
BeaconFollows ==
  (net.host # 0 /\ fu = <<>> /\ st.announced # 0 /\ st.announced = Route(st.beacon)) 
    => bk.at = net.host \/ bk.missed
=============================================================================
