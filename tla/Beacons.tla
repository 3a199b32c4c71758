------------------------------- MODULE Beacons -------------------------------
(***************************************************************************)
(* Which beacon the daemon uses: the operator's bootstrap list merged with *)
(* what the registry lists, a sticky pick by the hash of the identity key, *)
(* an optional override by measured round-trip times, and the on-disk list *)
(* a cold start falls back to.  Beacons are numbers: their order is the    *)
(* order sort.Strings gives the addresses.                                 *)
(***************************************************************************)
EXTENDS Integers, Sequences, FiniteSets, SequencesExt

CONSTANTS
  Beacon,     \* addresses, a set of positive numbers
  Private,    \* those of them only hosts of one private network reach
  MaxAge,     \* BeaconCacheMaxAge, in ticks
  Scenarios   \* [bootstrap, listed, probe, cache0, keys] and budgets

VARIABLES
  sc, left, \* the scenario and what is left of its budgets
  alive,    \* the registry answers
  listed,   \* the registry's beacons, in the order it answers
  rtt,      \* [Beacon -> 0 .. 3]: the round trip, 0 when a beacon is down
  key,      \* the hash of the identity key
  pick,     \* beaconSelection.currentPick
  tunnel,   \* the tunnel's beacon address
  at,       \* the beacon this node last registered with
  disk,     \* beacons.json: [addrs, age], age -1 when there is none
  first     \* the loop's firstTick

vars == <<sc, left, alive, listed, rtt, key, pick, tunnel, at, disk, first>>
Spend(b) == left[b] > 0 /\ left' = [left EXCEPT ![b] = @ - 1]

----------------------------------------------------------------------------
(***************************************************************************)
(* Lists and picks.                                                        *)
(***************************************************************************)

FilterUnreachable(list) == SelectSeq(list, LAMBDA a : a \notin Private)
Sorted(S) == SetToSortSeq(S, LAMBDA a, b : a < b)
\* FetchBeaconList: what the registry lists, reachable, in a fixed order.
FetchBeaconList(list) == Sorted(ToSet(FilterUnreachable(list)))
\* MergeBeaconLists: the bootstrap first, no address twice.
MergeBeaconLists(boot, disc) == boot \o SelectSeq(disc, LAMBDA a : a \notin ToSet(boot))
PickBeacon(list, k) == list[(k % Len(list)) + 1]

\* PickBeaconWithRTT: the hash pick, unless it does not answer or takes more
\* than twice as long as the fastest (the first such in the list).
Fastest(list) ==
  CHOOSE i \in DOMAIN list : /\ rtt[list[i]] > 0
        /\ \A j \in DOMAIN list : rtt[list[j]] > 0 =>
             rtt[list[i]] < rtt[list[j]] \/ (rtt[list[i]] = rtt[list[j]] /\ i <= j)
PickBeaconWithRTT(list, k) ==
  LET hash == PickBeacon(list, k)
      best == list[Fastest(list)]
  IN  IF rtt[hash] = 0 \/ rtt[hash] > 2 * rtt[best] THEN best ELSE hash

\* ComputeRefreshDecision and the probe's override.
Probes(list) == sc.probe /\ Len(list) > 1 /\ \E i \in DOMAIN list : rtt[list[i]] > 0
NewPick(list) == IF Probes(list) THEN PickBeaconWithRTT(list, key) ELSE PickBeacon(list, key)
ComputeRefreshDecision(disc) == MergeBeaconLists(sc.bootstrap, disc)

\* SaveBeaconCache writes a temporary file and renames it.
SaveBeaconCache(addrs) == disk' = [addrs |-> addrs, age |-> 0]
\* LoadBeaconCache drops unreachable addresses an older version saved.
LoadBeaconCache == FilterUnreachable(disk.addrs)

----------------------------------------------------------------------------
\* Start: the hash pick of the bootstrap list.  Without one (-beacon unset)
\* there is no selection and no loop.
Init ==
  /\ sc \in Scenarios /\ left = sc.budgets
  /\ listed = sc.listed /\ rtt = sc.rtt /\ key = sc.key
  /\ pick = PickBeacon(sc.bootstrap, sc.key) /\ tunnel = pick /\ at = pick
  /\ disk = sc.disk /\ first = TRUE /\ alive = TRUE

Moves(new) == pick' = new /\ tunnel' = new /\ at' = new
Refreshes(disc) ==
  LET list == ComputeRefreshDecision(disc)
  IN  \/ /\ NewPick(list) = pick
         /\ IF disc # <<>> THEN SaveBeaconCache(disc) ELSE UNCHANGED disk
         /\ UNCHANGED <<left, pick, tunnel, at>>
      \/ /\ NewPick(list) # pick /\ SaveBeaconCache(disc) /\ UNCHANGED left
         /\ Moves(NewPick(list))
      \/ /\ NewPick(list) # pick /\ Spend("errors")   \* SetBeaconAddr fails
         /\ UNCHANGED <<pick, tunnel, at, disk>>

\* beaconRefreshTick with the registry answering.
beaconRefreshTick ==
  /\ alive /\ Refreshes(FetchBeaconList(listed)) /\ first' = FALSE
  /\ UNCHANGED <<sc, alive, listed, rtt, key>>
\* The registry fails: the first tick uses a list on disk that is not too
\* old; any other keeps the pick.
CacheUsed == ~alive /\ first /\ disk.age >= 0 /\ LoadBeaconCache # <<>> /\ disk.age <= MaxAge
CachedTick ==
  /\ ~alive /\ first' = FALSE
  /\ IF CacheUsed THEN Refreshes(LoadBeaconCache) ELSE UNCHANGED <<left, pick, tunnel, at, disk>>
  /\ UNCHANGED <<sc, alive, listed, rtt, key>>

beaconRefreshLoop == beaconRefreshTick \/ CachedTick

RegistryDown ==
  /\ alive /\ Spend("outages") /\ alive' = FALSE
  /\ UNCHANGED <<sc, listed, rtt, key, pick, tunnel, at, disk, first>>
RegistryBack ==
  /\ ~alive /\ alive' = TRUE
  /\ UNCHANGED <<sc, left, listed, rtt, key, pick, tunnel, at, disk, first>>
\* The process starts again: the hash pick of the bootstrap list.
Restart ==
  /\ Spend("restarts") /\ Moves(PickBeacon(sc.bootstrap, key)) /\ first' = TRUE
  /\ UNCHANGED <<sc, alive, listed, rtt, key, disk>>
\* RotateKey: another identity key.
RotateKey ==
  /\ Spend("rotations") /\ key' = key + 1
  /\ UNCHANGED <<sc, alive, listed, rtt, pick, tunnel, at, disk, first>>
\* Beacons come and go, the registry lists them in another order, routes
\* change.
ListChanges ==
  /\ Spend("changes") /\ listed' \in sc.lists
  /\ UNCHANGED <<sc, alive, rtt, key, pick, tunnel, at, disk, first>>
RouteChanges ==
  /\ Spend("routes") /\ \E b \in Beacon, r \in 0 .. 3 : rtt' = [rtt EXCEPT ![b] = r]
  /\ UNCHANGED <<sc, alive, listed, key, pick, tunnel, at, disk, first>>
TimePasses ==
  /\ disk.age \in 0 .. MaxAge
  /\ disk' = [disk EXCEPT !.age = @ + 1]
  /\ UNCHANGED <<sc, left, alive, listed, rtt, key, pick, tunnel, at, first>>

Next ==
  \/ beaconRefreshLoop \/ RegistryDown \/ RegistryBack \/ Restart \/ RotateKey
  \/ ListChanges \/ RouteChanges \/ TimePasses
\* The loop ticks every minute, and an outage of the registry ends.
Spec == Init /\ [][Next]_vars /\ WF_vars(RegistryBack) /\ WF_vars(beaconRefreshTick)

----------------------------------------------------------------------------
TypeOK ==
  /\ pick \in Beacon /\ at \in Beacon
  /\ ToSet(listed) \subseteq Beacon /\ rtt \in [Beacon -> 0 .. 3]
  /\ ToSet(disk.addrs) \subseteq Beacon /\ disk.age \in -1 .. MaxAge + 1

\* The beacon relayed traffic goes through is the one the selection thinks it
\* picked and the one this node registered with, whatever failed in between
\* (beaconRefreshTick).
OneBeacon == tunnel = pick /\ at = pick

\* A private beacon is used only where the operator configured it: neither
\* the registry's list nor the list on disk brings one in.
NoForeignPrivate == pick \in Private => pick \in ToSet(sc.bootstrap)

\* The bootstrap list never reaches the disk: a private entry would follow
\* the file to another network.
BootstrapNotSaved == disk.age = 0 => ToSet(disk.addrs) \cap Private = {}

\* The registry answering the same beacons in another order moves no node:
\* the pick depends on the set only, routes and key staying the same.
Tuned == pick = NewPick(ComputeRefreshDecision(Sorted(ToSet(FilterUnreachable(listed)))))
SameSetSamePick ==
  (Tuned /\ alive /\ first' = FALSE /\ UNCHANGED <<listed, rtt, key, left>>) => pick' = pick
OrderDoesNotMatter == [][SameSetSamePick]_vars

\* Once lists, routes and keys settle, the node uses the beacon its key
\* selects: it neither flaps nor stays with one that is gone.
Settled ==
  LET list == MergeBeaconLists(sc.bootstrap, Sorted(ToSet(listed) \ Private))
  IN  pick = (IF Probes(list) THEN PickBeaconWithRTT(list, key) ELSE list[(key % Len(list)) + 1])
PickSettles == []<>Settled

=============================================================================
