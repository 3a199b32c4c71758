----------------------------- MODULE Membership -----------------------------
(***************************************************************************)
(* Network membership: the registry's list of the networks this node is    *)
(* in, and what the daemon derives from it: the port policies it enforces, *)
(* its member tags, the managed engines and the policy runners.  Three     *)
(* goroutines refresh the policies (the five-minute tick, a local client's *)
(* join, its leave), events carry joins and leaves to two subscribers, and *)
(* a snapshot on disk bridges a restart.                                   *)
(***************************************************************************)
EXTENDS Integers, Sequences, FiniteSets

CONSTANTS
  Net,        \* networks other than the backbone, network 0
  Scenarios   \* what may happen: [member, rules, expr] of Net and budgets

VARIABLES
  sc, left,     \* the scenario and what is left of its budgets
  member,       \* the registry: networks this node is a member of
  allowed,      \* the registry: [Net -> {"open", "closed"}], the port policies
  assigned,     \* the registry: [Net -> 0 .. 1], this node's tags
  netPolicies,  \* [Net -> {"none", "open", "closed"}]
  memberTags,   \* [Net -> -1 .. 1], -1 when absent
  managed,      \* networks with a managed engine
  runners,      \* networks with a policy runner (the policy plugin)
  nodeNets,     \* nodeNetworksCache: [at: "zero", "fresh", "old", nets]
  bus,          \* events on their way to the daemon's own subscriber
  plugin,       \* events on their way to the policy plugin
  snap,         \* networks.json: [policies, tags]
  load,         \* loadNetworkPolicies, per goroutine
  tick          \* the goroutine of Start and networkSyncLoop

daemon == <<netPolicies, memberTags, managed, runners, nodeNets>>
registry == <<member, allowed, assigned>>
vars == <<sc, left, registry, daemon, bus, plugin, snap, load, tick>>

Loader == {"main", "join", "leave"}
NoLoad == [pc |-> "idle", nets |-> {}, prior |-> [n \in Net |-> "none"],
           got |-> [n \in Net |-> "none"]]
NoTick == [pc |-> "idle", new |-> {}, old |-> {}, listed |-> FALSE]
Spend(b) == left[b] > 0 /\ left' = [left EXCEPT ![b] = @ - 1]
\* A registry call answers, or fails and spends an error.
Answers == UNCHANGED left
Fails == Spend("errors")

Init ==
  /\ sc \in Scenarios /\ left = sc.budgets
  /\ member = sc.member /\ allowed = sc.allowed /\ assigned = [n \in Net |-> 0]
  /\ netPolicies = [n \in Net |-> "none"] /\ memberTags = [n \in Net |-> -1]
  /\ managed = {} /\ runners = {} /\ nodeNets = [at |-> "zero", nets |-> {}]
  /\ bus = <<>> /\ plugin = <<>>
  /\ snap = [policies |-> [n \in Net |-> "none"], tags |-> [n \in Net |-> -1]]
  /\ load = [p \in Loader |-> NoLoad]
  /\ tick = [NoTick EXCEPT !.pc = "snapshot"]

----------------------------------------------------------------------------
(***************************************************************************)
(* The membership list and the port policies.                              *)
(***************************************************************************)

\* nodeNetworks: the cached list while it is fresh, else a Lookup; nothing
\* tells the caller of a failed one from a node in no network.
nodeNetworks(got) ==
  \/ nodeNets.at = "fresh" /\ got = nodeNets.nets /\ UNCHANGED <<nodeNets, left>>
  \/ nodeNets.at # "fresh" /\ Answers /\ got = member /\ nodeNets' = [at |-> "fresh", nets |-> member]
  \/ nodeNets.at # "fresh" /\ Fails /\ got = {} /\ UNCHANGED nodeNets

\* The cached list turns a second old; the tick's reload follows its Lookup at
\* once.
CacheExpires ==
  /\ nodeNets.at = "fresh" /\ load["main"].pc # "begin" /\ nodeNets' = [nodeNets EXCEPT !.at = "old"]
  /\ UNCHANGED <<sc, left, registry, netPolicies, memberTags, managed, runners, bus, plugin,
                 snap, load, tick>>
invalidateNodeNetworksCache == nodeNets' = [at |-> "zero", nets |-> {}]

\* loadNetworkPolicies starts: the list, and the policies known so far.
LoadBegins(p) ==
  /\ load[p].pc = "begin"
  /\ \E got \in SUBSET Net :
       /\ nodeNetworks(got)
       /\ load' = [load EXCEPT ![p] = [@ EXCEPT !.pc = "fetch", !.nets = got, !.prior = netPolicies]]
  /\ UNCHANGED <<sc, registry, netPolicies, memberTags, managed, runners, bus, plugin, snap, tick>>

\* GetNetworkPolicy of each network, three attempts at each.
LoadFetches(p) ==
  /\ load[p].pc = "fetch"
  /\ \E bad \in {{}} \cup {{n} : n \in load[p].nets} :
       /\ IF bad = {} THEN Answers ELSE Fails
       /\ load' = [load EXCEPT ![p] =
            [@ EXCEPT !.pc = "store",
                      !.got = [n \in Net |-> IF n \notin load[p].nets THEN "none"
                                             ELSE IF n \in bad THEN "error" ELSE allowed[n]]]]
  /\ UNCHANGED <<sc, registry, daemon, bus, plugin, snap, tick>>

\* A failed fetch keeps the policy the load found when it started.
mergeNetworkPolicies(prior, got) == [n \in Net |-> IF got[n] = "error" THEN prior[n] ELSE got[n]]

LoadStores(p) ==
  /\ load[p].pc = "store"
  /\ netPolicies' = mergeNetworkPolicies(load[p].prior, load[p].got)
  /\ load' = [load EXCEPT ![p] = NoLoad]
  /\ UNCHANGED <<sc, left, registry, memberTags, managed, runners, nodeNets, bus, plugin, snap, tick>>

StartsLoad(p) == load' = [load EXCEPT ![p] = [NoLoad EXCEPT !.pc = "begin"]]
clearNetworkState_KeepsTags(S) ==
  netPolicies' = [n \in Net |-> IF n \in S THEN "none" ELSE netPolicies[n]] /\ UNCHANGED memberTags
clearNetworkState(S) ==
  /\ netPolicies' = [n \in Net |-> IF n \in S THEN "none" ELSE netPolicies[n]]
  /\ memberTags' = [n \in Net |-> IF n \in S THEN -1 ELSE memberTags[n]]
isPortAllowed(n) == netPolicies[n] # "closed"

----------------------------------------------------------------------------
(***************************************************************************)
(* The tick.                                                               *)
(***************************************************************************)

Idle == tick.pc = "idle" /\ load["main"].pc = "idle"
\* nodeNetworksFresh asks; a failed Lookup skips the tick.  Five minutes
\* separate two ticks: the events of the last one have been handled.
TickAsks ==
  /\ Idle /\ bus = <<>> /\ plugin = <<>>
  /\ \/ Answers /\ tick' = [NoTick EXCEPT !.pc = "asked", !.new = member]
     \/ Fails /\ UNCHANGED tick
  /\ UNCHANGED <<sc, registry, daemon, bus, plugin, snap, load>>

\* The networks the daemon has any state of.
knownNetworkSet ==
  {n \in Net : netPolicies[n] # "none" \/ memberTags[n] # -1} \cup managed \cup runners

\* The answer is cached, the known networks noted, and the policies reloaded.
TickBegins ==
  /\ tick.pc = "asked" /\ tick' = [tick EXCEPT !.pc = "load", !.old = knownNetworkSet]
  /\ nodeNets' = [at |-> "fresh", nets |-> tick.new] /\ StartsLoad("main")
  /\ UNCHANGED <<sc, left, registry, netPolicies, memberTags, managed, runners, bus, plugin, snap>>

TickLists ==
  /\ tick.pc = "load" /\ load["main"].pc = "idle"
  /\ \E ok \in BOOLEAN : (IF ok THEN Answers ELSE Fails) /\ tick' = [tick EXCEPT !.pc = "tags", !.listed = ok]
  /\ UNCHANGED <<sc, registry, daemon, bus, plugin, snap, load>>

\* GetMemberTags of each network; a failed one leaves the tags as they were.
refreshMemberTagsAndDiff ==
  /\ tick.pc = "tags" /\ tick' = [tick EXCEPT !.pc = "publish"]
  /\ \E bad \in {{}} \cup {{n} : n \in tick.new} :
       /\ IF bad = {} THEN Answers ELSE Fails
       /\ memberTags' = [n \in Net |-> IF n \in tick.new \ bad THEN assigned[n] ELSE memberTags[n]]
  /\ UNCHANGED <<sc, registry, netPolicies, managed, runners, nodeNets, bus, plugin, snap, load>>

Event(t, n, with) == [topic |-> t, net |-> n, with |-> with]
EventsOf(t, S, with) ==
  LET seq[T \in SUBSET S] ==
        IF T = {} THEN <<>>
        ELSE LET n == CHOOSE x \in T : TRUE IN <<Event(t, n, n \in with)>> \o seq[T \ {n}]
  IN  seq[S]

\* The payload of network.joined has the rules when ListNetworks answered,
\* and the policy when GetExprPolicy did too.
buildJoinPayload(n) == tick.listed /\ n \in sc.rules
PolicyInPayload(n) == tick.listed /\ n \in sc.expr

\* saveNetworkSnapshot writes a temporary file and renames it.
saveNetworkSnapshot(policies, tags) == snap' = [policies |-> policies, tags |-> tags]

\* Joins are published, the state of lost networks dropped and their leaves
\* published, and the snapshot saved.  (network.tags_changed has no
\* subscriber that acts on it.)
reconcileMembership ==
  LET joined == tick.new \ tick.old
      gone == tick.old \ tick.new
  IN  /\ tick.pc = "publish" /\ tick' = NoTick
      /\ \E ok \in BOOLEAN :
           /\ IF ok THEN Answers ELSE (joined \cap sc.expr # {} /\ Fails)
           /\ bus' = bus \o EventsOf("joined", joined, {n \in joined : buildJoinPayload(n)})
                         \o EventsOf("left", gone, {})
           /\ plugin' = plugin \o EventsOf("joined", joined, {n \in joined : ok /\ PolicyInPayload(n)})
                               \o EventsOf("left", gone, {})
      /\ clearNetworkState(gone)
      /\ saveNetworkSnapshot(netPolicies', memberTags')
      /\ UNCHANGED <<sc, registry, managed, runners, nodeNets, load>>

\* The daemon's own subscriber: an engine is started when none runs, and
\* stopped when the network was left.
handleNetworkEvent ==
  /\ bus # <<>> /\ bus' = Tail(bus)
  /\ managed' = CASE Head(bus).topic = "left" -> managed \ {Head(bus).net}
                  [] Head(bus).with -> managed \cup {Head(bus).net}
                  [] OTHER -> managed
  /\ UNCHANGED <<sc, left, registry, netPolicies, memberTags, runners, nodeNets, plugin, snap,
                 load, tick>>
\* The policy plugin's.
PluginHandles ==
  /\ plugin # <<>> /\ plugin' = Tail(plugin)
  /\ runners' = CASE Head(plugin).topic = "left" -> runners \ {Head(plugin).net}
                  [] Head(plugin).with -> runners \cup {Head(plugin).net}
                  [] OTHER -> runners
  /\ UNCHANGED <<sc, left, registry, netPolicies, memberTags, managed, nodeNets, bus, snap,
                 load, tick>>

----------------------------------------------------------------------------
(***************************************************************************)
(* Start and a restart.                                                    *)
(***************************************************************************)

\* loadNetworkSnapshot fills what is missing; then the policies are loaded.
loadNetworkSnapshot ==
  /\ tick.pc = "snapshot" /\ tick' = [tick EXCEPT !.pc = "runners"]
  /\ netPolicies' = [n \in Net |-> IF netPolicies[n] = "none" THEN snap.policies[n] ELSE netPolicies[n]]
  /\ memberTags' = [n \in Net |-> IF memberTags[n] = -1 THEN snap.tags[n] ELSE memberTags[n]]
  /\ StartsLoad("main")
  /\ UNCHANGED <<sc, left, registry, managed, runners, nodeNets, bus, plugin, snap>>

\* loadPolicyRunners, then startManaged: ListNetworks, and the members'.
loadPolicyRunners ==
  /\ tick.pc = "runners" /\ load["main"].pc = "idle" /\ tick' = [tick EXCEPT !.pc = "engines"]
  /\ \/ Fails /\ UNCHANGED <<runners, nodeNets>>
     \/ \E got \in SUBSET Net : nodeNetworks(got) /\ runners' = runners \cup (got \cap sc.expr)
  /\ UNCHANGED <<sc, registry, netPolicies, memberTags, managed, bus, plugin, snap, load>>
startManaged ==
  /\ tick.pc = "engines" /\ tick' = NoTick
  /\ \/ Fails /\ UNCHANGED <<managed, nodeNets>>
     \/ \E got \in SUBSET Net : nodeNetworks(got) /\ managed' = managed \cup (got \cap sc.rules)
  /\ UNCHANGED <<sc, registry, netPolicies, memberTags, runners, bus, plugin, snap, load>>

Restart ==
  /\ Spend("restarts")
  /\ netPolicies' = [n \in Net |-> "none"] /\ memberTags' = [n \in Net |-> -1]
  /\ managed' = {} /\ runners' = {} /\ invalidateNodeNetworksCache
  /\ bus' = <<>> /\ plugin' = <<>> /\ load' = [p \in Loader |-> NoLoad]
  /\ tick' = [NoTick EXCEPT !.pc = "snapshot"]
  /\ UNCHANGED <<sc, registry, snap>>

----------------------------------------------------------------------------
(***************************************************************************)
(* The local client (IPC serves once Start is done) and the administrator. *)
(***************************************************************************)

Serving == tick.pc \notin {"snapshot", "runners", "engines"}

\* handleNetwork, join: the runner starts from the answer's policy, and the
\* policies reload in the background.  No managed engine is started.
handleNetworkJoin ==
  \E n \in Net \ member :
    /\ Serving /\ load["join"].pc = "idle" /\ Spend("joins")
    /\ member' = member \cup {n} /\ invalidateNodeNetworksCache
    /\ StartsLoad("join") /\ runners' = runners \cup ({n} \cap sc.expr)
    /\ UNCHANGED <<sc, allowed, assigned, netPolicies, memberTags, managed, bus, plugin, snap, tick>>

\* handleNetwork, leave: the registry first; the rest in the background.
handleNetworkLeave ==
  \E n \in member :
    /\ Serving /\ load["leave"].pc = "idle" /\ Spend("leaves")
    /\ member' = member \ {n} /\ invalidateNodeNetworksCache
    /\ load' = [load EXCEPT !["leave"] = [NoLoad EXCEPT !.pc = "clean", !.nets = {n}]]
    /\ UNCHANGED <<sc, allowed, assigned, netPolicies, memberTags, managed, runners, bus, plugin,
                   snap, tick>>
\* StopPolicyRunner and StopManagedEngine, clearNetworkState, and a reload.
LeaveCleans ==
  /\ load["leave"].pc = "clean"
  /\ runners' = runners \ load["leave"].nets /\ managed' = managed \ load["leave"].nets
  /\ clearNetworkState(load["leave"].nets) /\ StartsLoad("leave")
  /\ UNCHANGED <<sc, left, registry, nodeNets, bus, plugin, snap, tick>>

\* The administrator adds or removes the node (not while it starts), changes
\* ports or tags.
Administers ==
  /\ \/ \E n \in Net : Serving /\ Spend("moves") /\ UNCHANGED <<allowed, assigned>>
          /\ member' = (IF n \in member THEN member \ {n} ELSE member \cup {n})
     \/ \E n \in member : Spend("edits") /\ UNCHANGED <<member, assigned>>
          /\ allowed' = [allowed EXCEPT ![n] = IF @ = "open" THEN "closed" ELSE "open"]
     \/ \E n \in member : Spend("edits") /\ UNCHANGED <<member, allowed>>
          /\ assigned' = [assigned EXCEPT ![n] = 1 - @]
  /\ UNCHANGED <<sc, daemon, bus, plugin, snap, load, tick>>

Tick == TickAsks \/ TickBegins \/ TickLists \/ refreshMemberTagsAndDiff \/ reconcileMembership
Start == loadNetworkSnapshot \/ loadPolicyRunners \/ startManaged
Load(p) == LoadBegins(p) \/ LoadFetches(p) \/ LoadStores(p)
Handles == handleNetworkEvent \/ PluginHandles
Works == Start \/ LeaveCleans \/ \E p \in Loader : Load(p)
Next ==
  \/ Tick \/ Works \/ Handles \/ CacheExpires
  \/ handleNetworkJoin \/ handleNetworkLeave \/ Administers \/ Restart

\* Goroutines run, the ticker ticks, and what is cached grows old.
Fairness == WF_vars(Tick) /\ WF_vars(Works) /\ WF_vars(handleNetworkEvent) /\ WF_vars(PluginHandles)
            /\ WF_vars(CacheExpires)
Spec == Init /\ [][Next]_vars /\ Fairness

----------------------------------------------------------------------------
TypeOK ==
  /\ member \subseteq Net /\ managed \subseteq Net /\ runners \subseteq Net
  /\ netPolicies \in [Net -> {"none", "open", "closed"}] /\ memberTags \in [Net -> -1 .. 1]
  /\ nodeNets.at \in {"zero", "fresh", "old"} /\ nodeNets.nets \subseteq Net
  /\ \A p \in Loader : load[p].pc \in {"idle", "clean", "begin", "fetch", "store"}
  /\ tick.pc \in {"idle", "asked", "load", "tags", "publish", "snapshot", "runners", "engines"}
  /\ bus # <<>> => Head(bus).topic \in {"joined", "left"}

Current ==   \* what the registry says is what the daemon enforces
  \A n \in Net : /\ netPolicies[n] = (IF n \in member THEN allowed[n] ELSE "none")
                 /\ memberTags[n] = (IF n \in member THEN assigned[n] ELSE -1)
EnginesOfMembers == managed \subseteq member /\ runners \subseteq member
Discovered ==
  (sc.budgets.errors = 0 /\ sc.budgets.joins = 0) =>
    \A n \in member : (n \in sc.rules => n \in managed) /\ (n \in sc.expr => n \in runners)
\* Once the registry's answers settle, whatever order the tick, joins, leaves
\* and their background reloads ran in (reconcileMembership): the enforced
\* port policies and the member tags are the registry's; no engine or runner
\* of a network this node left runs, not even one a late network.joined
\* started (handleNetworkLeftInternal); and a network the administrator put
\* this node in has its engine and runner, when no registry call failed
\* meanwhile and no client joined one.
Settled == Current /\ EnginesOfMembers /\ Discovered
MembershipSettles == []<>Settled

\* An outage of the registry stops no engine and no runner: only a network
\* that was left, or a restart, does (reconcileMembership's nil check).  A
\* client's join is left out: one that falls between the tick's question and
\* its look at the known networks is taken for a network left.
KeepsRunning ==
  (sc.budgets.moves + sc.budgets.leaves + sc.budgets.joins = 0 /\ tick'.pc # "snapshot") =>
     managed \subseteq managed' /\ runners \subseteq runners'
OutageStopsNothing == [][KeepsRunning]_vars

\* A port restriction in force is lifted only by an answer of the registry
\* that no longer has it, or when the network is left.
LiftedByAnswer ==
  \A p \in Loader, n \in Net :
    (load[p].pc = "store" /\ load'[p].pc = "idle" /\ n \in member
      /\ ~isPortAllowed(n) /\ netPolicies'[n] # "closed") => load[p].got[n] = "open"
FailClosed == [][LiftedByAnswer]_vars

=============================================================================
