------------------------------ MODULE Watchdog ------------------------------
(***************************************************************************)
(* The receive watchdog: one action per tick of rxWatchdogLoop, the soft   *)
(* recoveries, the hard exit for the supervisor to respawn the process,    *)
(* the conditions that withhold it, and the breaker that counts the exits  *)
(* of the earlier processes in a file, which may be missing, unreadable or *)
(* not writable.  Time is counted in ticks.                                *)
(***************************************************************************)
EXTENDS Integers, Sequences, SequencesExt

CONSTANTS
  Scenarios,           \* what may happen to the node
  rxSilenceThreshold, dialWedgeThreshold, rxWatchdogSoftMax,
  rxWedgeMinUptime, rxWedgeRegistryFresh, suspendGapThreshold,
  rxWedgeLoopWindow, rxWedgeLoopMax

VARIABLES
  sc,     \* the scenario
  left,   \* bounds on wedges, suspends, registry outages and file errors
  world,  \* "well", "deaf" (nothing arrives) or "mute" (no dial succeeds)
  regUp,  \* the registry answers the heartbeats
  up,     \* the process: its age in ticks, or -1 between exit and respawn
  wd,     \* rxWatchdogState, and consecutiveDialTimeouts
  regAge, \* ticks since the registry last answered, or -1 for never
  log,    \* the exit log: how many ticks ago each exit in it was
  exits,  \* history: how many ticks ago each exit was
  errs,   \* history: how many ticks ago each error of the exit log was
  ev      \* history: what spoke against the transport since it last worked

vars == <<sc, left, world, regUp, up, wd, regAge, log, exits, errs, ev>>

Sat(n, max) == IF n > max THEN max ELSE n
NewProcess == [silent |-> 0, sent |-> FALSE, soft |-> 0, recvd |-> FALSE, suspendSeen |-> FALSE, dials |-> 0]
NoEvidence == [quiet |-> 0, past |-> 0, fails |-> 0]
Init ==
  /\ sc \in Scenarios
  /\ left = sc.left
  /\ world = "well" /\ regUp = TRUE
  /\ up = 0 /\ wd = NewProcess
  /\ regAge = 0
  /\ log = <<>> /\ exits = <<>> /\ errs = <<>> /\ ev = NoEvidence

Spend(k) == left[k] > 0 /\ left' = [left EXCEPT ![k] = @ - 1]
Wedge ==
  /\ world = "well" /\ up >= 0 /\ wd.recvd /\ Spend("wedges")
  /\ world' \in sc.kinds
  /\ UNCHANGED <<sc, regUp, up, wd, regAge, log, exits, errs, ev>>
RegistryFlips ==
  /\ regUp => Spend("outages")
  /\ ~regUp => UNCHANGED left
  /\ regUp' = ~regUp
  /\ UNCHANGED <<sc, world, up, wd, regAge, log, exits, errs, ev>>

----------------------------------------------------------------------------
\* n ticks go by: what is older than the window is forgotten.
Recent(s) == SelectSeq(s, LAMBDA a : a <= rxWedgeLoopWindow)
Older(s, n) == [i \in DOMAIN s |-> Sat(s[i] + n, rxWedgeLoopWindow + 1)]
Age(n) == IF n < 0 THEN n ELSE Sat(n, rxWedgeRegistryFresh + 1)

\* rxWatchdogResume: the transport is re-established, and the silence of
\* the time asleep is not counted.
rxWatchdogResume_KeepsBaseline(s) == [s EXCEPT !.suspendSeen = TRUE, !.dials = 0]
rxWatchdogResume(s) ==
  [s EXCEPT !.silent = 0, !.sent = FALSE, !.soft = 0, !.suspendSeen = TRUE, !.dials = 0]

\* Nothing arrived for the threshold although enough was sent, or a run of
\* dials timed out.
dialWedged(s) == s.dials >= dialWedgeThreshold
rxSilentWedge(s) == s.silent >= rxSilenceThreshold /\ s.sent

\* The exit log lies beside the identity file, if there is one.  One read or
\* write of it may fail: the look at it, the second read before the new line is
\* added, or the write, which leaves the old file or, cut off, an empty one.
Works == [look |-> TRUE, again |-> TRUE, file |-> "new"]
Errors == {[Works EXCEPT !.look = FALSE], [Works EXCEPT !.again = FALSE],
           [Works EXCEPT !.file = "old"], [Works EXCEPT !.file = "empty"]}
recentRxWedgeExits(l, readable) == IF sc.persists /\ readable THEN Recent(l) ELSE <<>>
recordRxWedgeExit(l, io) ==
  CASE ~sc.persists \/ io.file = "old" -> l
    [] io.file = "empty" -> <<>>
    [] OTHER -> Append(recentRxWedgeExits(l, io.again), 0)

\* What withholds the exit: the process never received anything and never
\* slept, the registry is not reached either, the process is young, or there
\* were as many exits lately as the breaker tolerates.
withheld_NoBreaker(s, age, recent, rage) ==
  \/ ~s.recvd /\ ~s.suspendSeen
  \/ rage < 0 \/ rage > rxWedgeRegistryFresh
  \/ age < rxWedgeMinUptime
withheld(s, age, recent, rage) ==
  \/ ~s.recvd /\ ~s.suspendSeen
  \/ rage < 0 \/ rage > rxWedgeRegistryFresh
  \/ age < rxWedgeMinUptime
  \/ Len(recent) >= rxWedgeLoopMax

\* rxWatchdogTick's decision on the state after this tick's counters: the
\* next state of the watchdog and whether it exits.
rxWatchdogTick(s, rx, age, recent, rage) ==
  IF rx /\ ~dialWedged(s)
  THEN [st |-> [s EXCEPT !.silent = 0, !.sent = FALSE, !.soft = 0], exit |-> FALSE]
  ELSE LET s1 == IF rx THEN [s EXCEPT !.silent = 0, !.sent = FALSE] ELSE s
       IN  IF ~rxSilentWedge(s1) /\ ~dialWedged(s1) THEN [st |-> s1, exit |-> FALSE]
           ELSE IF s1.soft < rxWatchdogSoftMax
           THEN [st |-> [s1 EXCEPT !.soft = @ + 1, !.dials = 0], exit |-> FALSE]
           ELSE IF withheld(s1, age, recent, rage) THEN [st |-> [s1 EXCEPT !.soft = 0], exit |-> FALSE]
           ELSE [st |-> s1, exit |-> TRUE]

\* What there is to say against the transport after a tick: ticks without a
\* packet; those of them past the threshold, since a packet arrived and no
\* dial failed; and dials that timed out since one succeeded.
Evidence(rx, dials) ==
  LET quiet == IF rx THEN 0 ELSE Sat(ev.quiet + 1, rxSilenceThreshold)
  IN  [quiet |-> quiet,
       past |-> IF rx /\ dials <= 0 THEN 0
                ELSE Sat(ev.past + (IF quiet = rxSilenceThreshold THEN 1 ELSE 0), rxWatchdogSoftMax + 1),
       fails |-> IF dials < 0 THEN 0
                 ELSE Sat(ev.fails + dials, (rxWatchdogSoftMax + 1) * dialWedgeThreshold)]

\* One tick, n ticks after the last (more than the threshold: the host was
\* suspended), in which rx, tx and the dials happened.  A registry that
\* answers is heard by the heartbeat, or by the recovery of this tick.  An
\* error of the exit log counts when the tick ends in an exit.
Tick(n, rx, tx, dials, soon, io) ==
  LET resumed == n >= suspendGapThreshold
      s0 == [wd EXCEPT !.silent = Sat(@ + n, rxSilenceThreshold), !.sent = @ \/ tx,
                       !.recvd = @ \/ rx,
                       !.dials = IF dials < 0 THEN 0 ELSE Sat(@ + dials, dialWedgeThreshold)]
      s1 == IF resumed THEN rxWatchdogResume(s0) ELSE s0
      age == Sat(up + n, rxWedgeMinUptime)
      rage == IF regUp /\ soon THEN 0 ELSE Age(regAge + n)
      l == Older(log, n)
      r == rxWatchdogTick(s1, rx /\ ~resumed, age, recentRxWedgeExits(l, io.look), rage)
      now == IF r.exit THEN <<0>> ELSE <<>>
  IN  /\ up >= 0
      /\ r.exit \/ io = Works
      /\ wd' = r.st
      /\ regAge' = rage
      /\ up' = IF r.exit THEN -1 ELSE age
      /\ log' = IF r.exit THEN recordRxWedgeExit(l, io) ELSE Recent(l)
      /\ exits' = Recent(Older(exits, n)) \o now
      /\ errs' = Recent(Older(errs, n)) \o (IF io = Works THEN <<>> ELSE now)
      /\ ev' = IF resumed THEN NoEvidence ELSE Evidence(rx, dials)
      /\ UNCHANGED <<sc, regUp>>

\* Packets and dials as the world allows: a well node hears from its peers,
\* and its dials succeed but for those to a peer that is gone; a deaf one hears
\* nothing, so its dials time out; a mute one hears the peers' keepalives while
\* its own dials time out.
Hearing(io) ==
  \/ /\ world = "well"
     /\ \/ \E k \in {-1, 0} \cup sc.stray, tx \in BOOLEAN : Tick(1, TRUE, tx, k, TRUE, io)
        \/ \E k \in {0} \cup sc.stray : Tick(1, FALSE, FALSE, k, TRUE, io)
  \/ world = "deaf" /\ \E k \in sc.dials : Tick(1, FALSE, TRUE, k, TRUE, io)
  \/ world = "mute" /\ \E rx \in BOOLEAN, k \in sc.dials : Tick(1, rx, TRUE, k, TRUE, io)
Awake ==
  /\ \/ Hearing(Works) /\ UNCHANGED left
     \/ \E io \in Errors : Spend("errors") /\ Hearing(io)
  /\ UNCHANGED world
Asleep ==
  /\ Spend("suspends")
  /\ \E soon \in BOOLEAN : Tick(suspendGapThreshold, FALSE, FALSE, 0, soon, Works)
  /\ world' = IF sc.sleepDeafens THEN "deaf" ELSE world
\* The supervisor starts a new process; the wedge is gone if a restart can
\* cure it.
Respawn ==
  /\ up = -1
  /\ up' = 0 /\ wd' = NewProcess /\ ev' = NoEvidence
  /\ regAge' = IF regUp THEN 0 ELSE -1
  /\ world' = IF sc.cures THEN "well" ELSE world
  /\ UNCHANGED <<sc, left, regUp, log, exits, errs>>

Next == Wedge \/ RegistryFlips \/ Awake \/ Asleep \/ Respawn
Fairness == WF_vars(Awake) /\ WF_vars(Respawn) /\ WF_vars(RegistryFlips /\ ~regUp)
Spec == Init /\ [][Next]_vars /\ Fairness

----------------------------------------------------------------------------
\* The types; the soft attempts never pass their maximum.
TypeOK ==
  /\ wd.soft \in 0 .. rxWatchdogSoftMax /\ wd.silent \in 0 .. rxSilenceThreshold
  /\ wd.dials \in 0 .. dialWedgeThreshold
  /\ up \in -1 .. rxWedgeMinUptime /\ regAge \in -1 .. rxWedgeRegistryFresh + 1
  /\ world \in {"well", "deaf", "mute"}

\* However often the process is respawned into the same wedge, it exits at
\* most rxWedgeLoopMax times within the window, and as many times more for
\* each read or write of the exit log that failed in it: no restart loop.
\* Without an identity file there is no log, and nothing stops the loop
\* (rxWedgeExitLogPath).
NoRestartLoop ==
  sc.persists => Len(Recent(exits)) <= rxWedgeLoopMax * (1 + Len(Recent(errs)))

\* The process gives up only on evidence of its own time awake: for each soft
\* recovery and for the exit, a tick past a whole silence threshold, since
\* packets last arrived with no dial failing, or a run of dial timeouts, since
\* a dial last succeeded.  Time asleep and an earlier wedge never count.
Exhausted ==
  up >= 0 /\ up' = -1 =>
    ev'.past + ev'.fails \div dialWedgeThreshold >= rxWatchdogSoftMax + 1
ExitOnlyWedged == [][Exhausted]_vars

\* A node that has gone deaf and that a restart would cure is cured, unless
\* the registry stays away.
Hears == ~sc.cures \/ world # "deaf"
CurableIsCured == []<>Hears
=============================================================================
