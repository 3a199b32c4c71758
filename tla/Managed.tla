------------------------------- MODULE Managed -------------------------------
(***************************************************************************)
(* One network's ManagedEngine: the peer set it keeps by pruning and       *)
(* filling, its timer goroutine, a local client's forced cycle running     *)
(* beside it, the file it persists to, and the engine being stopped and    *)
(* created again from that file.                                           *)
(***************************************************************************)
EXTENDS Integers, FiniteSets, FiniteSetsExt

CONSTANTS
  Node,        \* other members and former members of the network
  Self,        \* this node's id, also in the member list
  Links, PruneN, FillN,  \* the network's rules
  Grace,       \* the grace period, in ticks of the clock; 0 for none
  MaxTime,     \* bound: the clock
  Scenarios    \* what may happen: [pruneBy: "age" or "activity"] and budgets

VARIABLES
  sc, left, \* the scenario and what is left of its budgets
  roster,   \* the registry: members of the network
  peers,    \* me.peers: [node -> AddedAt], a function on the present peers
  file,     \* the persisted peers; what an engine is created with
  cyc,      \* the goroutines "timer" and "forced": [pc, got, snap]
  stopped,  \* stopCh closed
  clock

vars == <<sc, left, roster, peers, file, cyc, stopped, clock>>
Proc == {"timer", "forced"}
Empty == [n \in {} |-> 0]
NoCycle == [pc |-> "idle", got |-> {}, snap |-> Empty]
Without(fn, S) == [n \in DOMAIN fn \ S |-> fn[n]]
With(fn, S) == [n \in DOMAIN fn \cup S |-> IF n \in DOMAIN fn THEN fn[n] ELSE clock]
Known == DOMAIN peers
Sets(p, r) == cyc' = [cyc EXCEPT ![p] = r]
Spend(k) == left[k] > 0 /\ left' = [left EXCEPT ![k] = @ - 1]
\* rankedPeers by activity: LastSeen is never written, so any order.
Activity == sc.pruneBy = "activity"

Init ==
  /\ sc \in Scenarios /\ left = sc.budgets
  /\ roster = Node \cup {Self} /\ peers = Empty /\ file = Empty
  /\ cyc = [p \in Proc |-> IF p = "timer" THEN [NoCycle EXCEPT !.pc = "boot"] ELSE NoCycle]
  /\ stopped = FALSE /\ clock = 0

----------------------------------------------------------------------------
\* prune: the first PruneN of the ranking that are past their grace.
Eligible == {n \in Known : Grace = 0 \/ clock - peers[n] >= Grace}
prune(S) ==
  /\ S \subseteq Eligible /\ Cardinality(S) = Min({PruneN, Cardinality(Eligible)})
  /\ Activity \/ \A n \in S, k \in Eligible \ S : peers[n] <= peers[k]

\* fill: at most FillN of the members not yet held, within the limit.
fill(got, S) ==
  LET candidates == got \ ({Self} \cup Known)
      available == Max({0, Links - Cardinality(Known)})
  IN  S \subseteq candidates
      /\ Cardinality(S) = Min({FillN, available, Cardinality(candidates)})

\* The timer goroutine with no peers: Bootstrap asks for the member list ...
BootAsks ==
  /\ cyc["timer"].pc = "boot"
  /\ IF Known # {} THEN Sets("timer", NoCycle) /\ UNCHANGED left
     ELSE \/ Sets("timer", [NoCycle EXCEPT !.pc = "bootFill", !.got = roster]) /\ UNCHANGED left
          \/ Sets("timer", NoCycle) /\ Spend("errors")
  /\ UNCHANGED <<sc, roster, peers, file, stopped, clock>>
\* ... and adds up to Links of them to whatever is there by then.
Bootstrap ==
  /\ cyc["timer"].pc = "bootFill"
  /\ LET candidates == cyc["timer"].got \ {Self} IN
       \E S \in SUBSET candidates :
         /\ Cardinality(S) = Min({Links, Cardinality(candidates)})
         /\ peers' = With(peers, S)
  /\ Sets("timer", [NoCycle EXCEPT !.pc = "save"])
  /\ UNCHANGED <<sc, left, roster, file, stopped, clock>>

\* runCycle: prune under the lock, ...
CyclePrunes(p) ==
  /\ \E S \in SUBSET Known : prune(S) /\ peers' = Without(peers, S)
  /\ Sets(p, [NoCycle EXCEPT !.pc = "ask"])
\* ... fetch the members outside it (five attempts), ...
CycleAsks(p) ==
  /\ cyc[p].pc = "ask"
  /\ \/ Sets(p, [NoCycle EXCEPT !.pc = "fill", !.got = roster]) /\ UNCHANGED left
     \/ Sets(p, NoCycle) /\ Spend("errors")
  /\ UNCHANGED <<sc, roster, peers, file, stopped, clock>>
\* ... and fill under it again.
CycleFills(p) ==
  /\ cyc[p].pc = "fill"
  /\ \E S \in SUBSET cyc[p].got : fill(cyc[p].got, S) /\ peers' = With(peers, S)
  /\ Sets(p, [NoCycle EXCEPT !.pc = "save"])
  /\ UNCHANGED <<sc, left, roster, file, stopped, clock>>

\* persist: a copy under the lock, the atomic write after it.
PersistCopies(p) ==
  /\ cyc[p].pc = "save" /\ Sets(p, [NoCycle EXCEPT !.pc = "write", !.snap = peers])
  /\ UNCHANGED <<sc, left, roster, peers, file, stopped, clock>>
PersistWrites(p) ==
  /\ cyc[p].pc = "write" /\ Sets(p, NoCycle)
  /\ \/ file' = cyc[p].snap /\ UNCHANGED left
     \/ Spend("errors") /\ UNCHANGED file
  /\ UNCHANGED <<sc, roster, peers, stopped, clock>>

\* cycleLoop: a tick of the timer, unless stopped.
cycleLoop ==
  /\ cyc["timer"].pc = "idle" /\ ~stopped /\ CyclePrunes("timer")
  /\ UNCHANGED <<sc, left, roster, file, stopped, clock>>
\* handleManaged, cycle: ForceCycle in a goroutine the client waits 5 s for.
ForceCycle ==
  /\ cyc["forced"].pc = "idle" /\ ~stopped /\ Spend("forced") /\ CyclePrunes("forced")
  /\ UNCHANGED <<sc, roster, file, stopped, clock>>

\* Stop closes stopCh; the loop ends between cycles.
StopEngine ==
  /\ ~stopped /\ Spend("restarts") /\ stopped' = TRUE
  /\ UNCHANGED <<sc, roster, peers, file, cyc, clock>>
load == file
\* A new engine for the network loads the file.
\* Stop does not wait for a forced cycle: that one goes on
\* with the old engine's peers and writes them over the file.
NewManagedEngine ==
  /\ stopped /\ cyc["timer"].pc = "idle"
  /\ stopped' = FALSE /\ peers' = load
  /\ \E S \in SUBSET roster :
       LET f == cyc["forced"]
           rest == CASE f.pc \in {"idle", "write"} -> f
                     [] OTHER -> [NoCycle EXCEPT !.pc = "write", !.snap = With(peers, S)]
       IN  /\ IF f.pc \in {"ask", "fill"} THEN fill(roster, S) ELSE S = {}
           /\ cyc' = [timer |-> [NoCycle EXCEPT !.pc = "boot"], forced |-> rest]
  /\ UNCHANGED <<sc, left, roster, file, clock>>

MembersChange ==
  /\ Spend("changes")
  /\ \E n \in Node : roster' = (IF n \in roster THEN roster \ {n} ELSE roster \cup {n})
  /\ UNCHANGED <<sc, peers, file, cyc, stopped, clock>>
TimePasses ==
  /\ clock < MaxTime /\ clock' = clock + 1
  /\ UNCHANGED <<sc, left, roster, peers, file, cyc, stopped>>

Steps(p) == CycleAsks(p) \/ CycleFills(p) \/ PersistCopies(p) \/ PersistWrites(p)
Runs == BootAsks \/ Bootstrap \/ cycleLoop \/ Steps("timer")
Next ==
  \/ Runs \/ Steps("forced") \/ ForceCycle
  \/ StopEngine \/ NewManagedEngine \/ MembersChange \/ TimePasses
Spec == Init /\ [][Next]_vars
             /\ WF_vars(Runs) /\ WF_vars(Steps("forced")) /\ WF_vars(NewManagedEngine) /\ WF_vars(TimePasses)

----------------------------------------------------------------------------
TypeOK ==
  /\ roster \subseteq Node \cup {Self} /\ Known \subseteq Node
  /\ \A n \in Known : peers[n] \in 0 .. MaxTime
  /\ \A p \in Proc : cyc[p].pc \in {"idle", "boot", "bootFill", "ask", "fill", "save", "write"}

\* However cycles, a forced cycle and the bootstrap interleave, the engine
\* holds at most Links peers more than its rules allow, and only because a
\* bootstrap can follow a forced fill (Bootstrap, fill).
LinksBounded == Cardinality(Known) <= 2 * Links

\* A peer added less than the grace period ago is not pruned (prune); only
\* a new engine starting from its file drops one.
GraceKept ==
  ~stopped => \A n \in Known \ DOMAIN peers' : Grace = 0 \/ clock - peers[n] >= Grace
GraceIsKept == [][GraceKept]_vars

\* An engine whose bootstrap failed, or that pruned every peer and then got
\* no member list, comes to have peers again while there are any (runCycle),
\* and the file comes to hold them (persist), so that a new engine resumes
\* with them.
Peered == file = peers /\ (Known # {} \/ roster \subseteq {Self})
PeersComeBack == []<>Peered
=============================================================================
