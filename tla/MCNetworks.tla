----------------------------- MODULE MCNetworks -----------------------------
(***************************************************************************)
(* Which beacon the node uses and its connection to it in compat mode, which *)
(* networks it is in, and the peers of its managed networks, each module on *)
(* its own small instance.  The case is chosen at the start; the other     *)
(* modules' variables stay 0.                                              *)
(***************************************************************************)
EXTENDS Integers, Sequences

CONSTANT Question   \* "all", or the finding the run shows
Cases == IF Question = "policy" THEN {"membership"} 
         ELSE {"beacons", "wss", "membership", "managed"}

VARIABLES case, sc, left
VARIABLES alive, listed, rtt, key, pick, tunnel, at, disk, first
VARIABLES member, allowed, assigned, netPolicies, memberTags, managed,
          runners, nodeNets, bus, plugin, snap, load, tick
VARIABLES beacon, wire, conn, sup, pinger, sender, writeMu, recvCh,
          goodbye, reader, queue, taking, done, closing, keyLive
VARIABLES roster, peers, file, cyc, stopped, clock

\* What may happen in a run of each module: sums of small scenarios.
\* Beacons
BBounds == [errors |-> 0, outages |-> 0, restarts |-> 0, rotations |-> 0, changes |-> 0, routes |-> 0]
BS == [bootstrap |-> <<2>>, listed |-> <<3, 1, 4>>, lists |-> {<<1, 3, 4>>, <<3, 1, 4>>, <<3, 2, 1>>, <<1, 2>>, <<4>>, <<>>}, rtt |-> [b \in 1 .. 4 |-> 1], probe |-> FALSE, key |-> 5,
      disk |-> [addrs |-> <<>>, age |-> -1], budgets |-> BBounds]
BOld == [addrs |-> <<1, 4>>, age |-> 1]
BScenarios == {
  [BS EXCEPT !.budgets = [BBounds EXCEPT !.changes = 2, !.errors = 1]],
  [BS EXCEPT !.bootstrap = <<4>>, !.budgets = [BBounds EXCEPT !.changes = 1, !.rotations = 1, !.restarts = 1]],
  [BS EXCEPT !.disk = BOld, !.budgets = [BBounds EXCEPT !.restarts = 1, !.outages = 1, !.changes = 1]],
  [BS EXCEPT !.probe = TRUE, !.budgets = [BBounds EXCEPT !.routes = 2, !.rotations = 1]],
  [BS EXCEPT !.probe = TRUE, !.budgets = [BBounds EXCEPT !.routes = 1, !.changes = 1]] }
\* Membership
MMNet == {"a", "b"}
MBounds == [errors |-> 0, joins |-> 0, leaves |-> 0, moves |-> 0, edits |-> 0, restarts |-> 0]
MS == [member |-> {"a"}, allowed |-> [n \in MMNet |-> "closed"], rules |-> {"a", "b"}, expr |-> {"b"}, budgets |-> MBounds]
MWith(b) == [MS EXCEPT !.budgets = b]
MScenarios == {
  MWith([MBounds EXCEPT !.moves = 3]),
  [MWith([MBounds EXCEPT !.joins = 1, !.leaves = 1]) EXCEPT !.member = {}],
  MWith([MBounds EXCEPT !.joins = 1, !.moves = 1]),
  MWith([MBounds EXCEPT !.joins = 1, !.errors = 1]),
  MWith([MBounds EXCEPT !.moves = 2, !.errors = 1]),
  MWith([MBounds EXCEPT !.edits = 1, !.leaves = 1]),
  MWith([MBounds EXCEPT !.errors = 2, !.edits = 1]),
  MWith([MBounds EXCEPT !.errors = 1, !.restarts = 1, !.moves = 1]) }
\* Wss
TBounds == [dials |-> 3, faults |-> 0, outages |-> 0, frames |-> 0, sends |-> 0, rotations |-> 0, stops |-> 0]
TS == [budgets |-> TBounds]
TScenarios == {
  [TS EXCEPT !.budgets = [TBounds EXCEPT !.faults = 2, !.sends = 1, !.outages = 1]],
  [TS EXCEPT !.budgets = [TBounds EXCEPT !.frames = 5, !.stops = 1]],
  [TS EXCEPT !.budgets = [TBounds EXCEPT !.faults = 1, !.frames = 2, !.stops = 1]],
  [TS EXCEPT !.budgets = [TBounds EXCEPT !.faults = 1, !.sends = 1, !.stops = 1]],
  [TS EXCEPT !.budgets = [TBounds EXCEPT !.faults = 1, !.rotations = 1]] }
\* Managed
GBounds == [errors |-> 0, changes |-> 0, forced |-> 0, restarts |-> 0]
GS == [pruneBy |-> "age", budgets |-> GBounds]
GScenarios == {
  [GS EXCEPT !.budgets.forced = 1, !.budgets.errors = 1],
  [GS EXCEPT !.budgets.forced = 1, !.pruneBy = "activity"],
  [GS EXCEPT !.budgets.changes = 1, !.budgets.errors = 1],
  [GS EXCEPT !.budgets.restarts = 1, !.budgets.errors = 1],
  [GS EXCEPT !.budgets.restarts = 1, !.budgets.forced = 1] }

B == INSTANCE Beacons WITH Scenarios <- BScenarios, Beacon <- 1 .. 4, Private <- {4}, MaxAge <- 2
M == INSTANCE Membership WITH Scenarios <- MScenarios, Net <- MMNet
T == INSTANCE Wss WITH Scenarios <- TScenarios, RecvBuffer <- 2, RecvChSize <- 1
G == INSTANCE Managed WITH Scenarios <- GScenarios, Node <- {"n1", "n2", "n3"}, Self <- "me",
       Links <- 1, PruneN <- 1, FillN <- 1, Grace <- 1, MaxTime <- 2

Bvars == <<alive, listed, rtt, key, pick, tunnel, at, disk, first>>
Mvars == <<member, allowed, assigned, netPolicies, memberTags, managed, runners, nodeNets, bus, plugin, snap, load, tick>>
Tvars == <<beacon, wire, conn, sup, pinger, sender, writeMu, recvCh, goodbye, reader, queue, taking, done, closing, keyLive>>
Gvars == <<roster, peers, file, cyc, stopped, clock>>
BV == <<sc, left, Bvars>>
MV == <<sc, left, Mvars>>
TV == <<sc, left, Tvars>>
GV == <<sc, left, Gvars>>
allvars == <<case, sc, left, Bvars, Mvars, Tvars, Gvars>>
BOff == alive = 0 /\ listed = 0 /\ rtt = 0 /\ key = 0 /\ pick = 0 /\ tunnel = 0 /\ at = 0 /\ disk = 0 /\ first = 0
MOff == member = 0 /\ allowed = 0 /\ assigned = 0 /\ netPolicies = 0 /\ memberTags = 0 /\ managed = 0 /\ runners = 0 /\ nodeNets = 0 /\ bus = 0 /\ plugin = 0 /\ snap = 0 /\ load = 0 /\ tick = 0
TOff == beacon = 0 /\ wire = 0 /\ conn = 0 /\ sup = 0 /\ pinger = 0 /\ sender = 0 /\ writeMu = 0 /\ recvCh = 0 /\ goodbye = 0 /\ reader = 0 /\ queue = 0 /\ taking = 0 /\ done = 0 /\ closing = 0 /\ keyLive = 0
GOff == roster = 0 /\ peers = 0 /\ file = 0 /\ cyc = 0 /\ stopped = 0 /\ clock = 0

MCInit ==
  /\ case \in Cases
  /\ \/ case = "beacons" /\ B!Init /\ MOff /\ TOff /\ GOff
     \/ case = "membership" /\ M!Init /\ BOff /\ TOff /\ GOff
     \/ case = "wss" /\ T!Init /\ BOff /\ MOff /\ GOff
     \/ case = "managed" /\ G!Init /\ BOff /\ MOff /\ TOff
MCNext ==
  /\ UNCHANGED case
  /\ \/ case = "beacons" /\ B!Next /\ UNCHANGED <<Mvars, Tvars, Gvars>>
     \/ case = "membership" /\ M!Next /\ UNCHANGED <<Bvars, Tvars, Gvars>>
     \/ case = "wss" /\ T!Next /\ UNCHANGED <<Bvars, Mvars, Gvars>>
     \/ case = "managed" /\ G!Next /\ UNCHANGED <<Bvars, Mvars, Tvars>>

\* The fairness of each module, in its case.
Fairness ==
  /\ WF_BV(case = "beacons" /\ B!RegistryBack)
  /\ WF_BV(case = "beacons" /\ B!beaconRefreshTick)
  /\ WF_MV(case = "membership" /\ M!Tick)
  /\ WF_MV(case = "membership" /\ M!Works)
  /\ WF_MV(case = "membership" /\ M!handleNetworkEvent)
  /\ WF_MV(case = "membership" /\ M!PluginHandles)
  /\ WF_MV(case = "membership" /\ M!CacheExpires)
  /\ WF_TV(case = "wss" /\ T!supervise)
  /\ WF_TV(case = "wss" /\ T!idlePing)
  /\ WF_TV(case = "wss" /\ ~T!Stuck /\ T!SendGoes)
  /\ WF_TV(case = "wss" /\ T!Stuck /\ T!KernelGivesUp)
  /\ WF_TV(case = "wss" /\ T!readLoop)
  /\ WF_TV(case = "wss" /\ T!routeLoop)
  /\ WF_TV(case = "wss" /\ T!Close)
  /\ WF_TV(case = "wss" /\ T!BeaconBack)
  /\ WF_GV(case = "managed" /\ G!Runs)
  /\ WF_GV(case = "managed" /\ G!Steps("forced"))
  /\ WF_GV(case = "managed" /\ G!NewManagedEngine)
  /\ WF_GV(case = "managed" /\ G!TimePasses)
MCSpec == MCInit /\ [][MCNext]_allvars /\ Fairness

-----------------------------------------------------------------------------

\* What no step does: move a node because the same beacons come in another
\* order (Beacons, PickBeacon); stop an engine or runner for an outage of the
\* registry (Membership, networkSyncLoop); give up a compat connection that
\* works, but by Close or a pong not read (Wss, Send); prune a peer within its
\* grace (Managed, prune).
NetworksSteps ==
  [][CASE case = "beacons" -> B!SameSetSamePick
       [] case = "membership" -> M!KeepsRunning
       [] case = "wss" -> T!FreshKept
       [] case = "managed" -> G!GraceKept]_allvars

\* FailClosed of Membership: a port restriction is lifted only by an answer
\* of the registry that no longer has it (loadNetworkPolicies).
FailClosed == [][case = "membership" => M!LiftedByAnswer]_allvars

\* What each component comes to, again and again: the node uses the beacon its
\* key selects (Beacons, ComputeRefreshDecision); port policies, member tags,
\* engines and runners are the registry's, whatever order ticks, joins, leaves
\* and reloads ran in (Membership, reconcileMembership); the compat connection
\* works, however it was lost, and a Close has returned (Wss, supervise,
\* drainReads); a managed node has its peers again, and its file holds them
\* (Managed, runCycle, persist).
NetworksSettle ==
  []<>(CASE case = "beacons" -> B!Settled
         [] case = "membership" -> M!Settled
         [] case = "wss" -> T!Connected /\ T!Ends
         [] case = "managed" -> G!Peered)
=============================================================================
