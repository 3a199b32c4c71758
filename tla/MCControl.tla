----------------------------- MODULE MCControl ------------------------------
(***************************************************************************)
(* The components that keep the node known and reachable, each on its own  *)
(* small instance, the replay window of a session, and the loss recovery   *)
(* of a connection.  The case is chosen at the start; the other modules'   *)
(* variables stay 0, the replay window's stay as they start.               *)
(***************************************************************************)
EXTENDS ReplayWindow, Integers, Sequences

Cases == {"replay", "recovery", "addrwatch", "watchdog", "handshakes",
          "congestion"}

VARIABLES case, sc, left
VARIABLES addr, reg, link, me, lock, job, noted, hb, ask, retry, op,
          skipped
VARIABLES net, obs, st, held, peer, bk, regAt, fu, moved, ran
VARIABLES world, regUp, up, wd, regAge, log, exits, errs, ev
VARIABLES inbox, parked, asked, since, pokeDue, tokens, closed, waiting,
          poll, extra, wake, settling, client, trusted, stop, owed,
          failed, answers, lost
VARIABLES snd, sendSeq, open, handling, data, acks, rcv, ooo

\* What may happen in a run of each module: sums of small scenarios.
\* Recovery
RBounds == [moves |-> 0, sleeps |-> 0, softs |-> 0, faults |-> 0, errors |-> 0, slow |-> 0, names |-> 0,
            views |-> 0]
RS == [public |-> TRUE, host |-> 1, left |-> RBounds]
RScenarios == {
  [RS EXCEPT !.left = [RBounds EXCEPT !.moves = 1, !.faults = 1]],
  [RS EXCEPT !.left = [RBounds EXCEPT !.moves = 1, !.errors = 2]],
  [RS EXCEPT !.left = [RBounds EXCEPT !.faults = 1, !.errors = 1]],
  [RS EXCEPT !.left = [RBounds EXCEPT !.moves = 1, !.slow = 1]],
  [RS EXCEPT !.left = [RBounds EXCEPT !.slow = 1, !.faults = 1]],
  [RS EXCEPT !.left = [RBounds EXCEPT !.moves = 2]],
  [RS EXCEPT !.left = [RBounds EXCEPT !.moves = 1, !.softs = 1]],
  [RS EXCEPT !.left = [RBounds EXCEPT !.sleeps = 1, !.moves = 1]],
  [RS EXCEPT !.left = [RBounds EXCEPT !.sleeps = 1, !.faults = 1]],
  [RS EXCEPT !.left = [RBounds EXCEPT !.faults = 1, !.names = 1], !.host = 0],
  [RS EXCEPT !.left = [RBounds EXCEPT !.faults = 1, !.names = 2]],
  [RS EXCEPT !.left = [RBounds EXCEPT !.faults = 1, !.views = 2]] }
\* AddrWatch
ABounds == [moves |-> 0, nats |-> 0, switches |-> 0, noise |-> 0, registry |-> 0, probes |-> 0, beacon |-> 0]
AS == [routes |-> FALSE, offline |-> FALSE, left |-> ABounds]
AScenarios == {
  [AS EXCEPT !.left = [ABounds EXCEPT !.moves = 2, !.registry = 1]],
  [AS EXCEPT !.left = [ABounds EXCEPT !.moves = 1, !.probes = 2, !.registry = 3], !.offline = TRUE],
  [AS EXCEPT !.left = [ABounds EXCEPT !.moves = 1, !.nats = 1, !.noise = 1]],
  [AS EXCEPT !.left = [ABounds EXCEPT !.moves = 2, !.beacon = 2]],
  [AS EXCEPT !.left = [ABounds EXCEPT !.moves = 1, !.beacon = 3], !.offline = TRUE],
  [AS EXCEPT !.left = [ABounds EXCEPT !.moves = 1, !.switches = 2, !.noise = 1], !.routes = TRUE] }
\* Watchdog
DBounds == [wedges |-> 0, suspends |-> 0, outages |-> 0, errors |-> 0]
DS == [left |-> DBounds, kinds |-> {"deaf"}, cures |-> TRUE, dials |-> {0}, stray |-> {},
       sleepDeafens |-> FALSE, persists |-> TRUE]
DScenarios == {
  [DS EXCEPT !.left = [DBounds EXCEPT !.wedges = 1, !.suspends = 1], !.cures = FALSE],
  [DS EXCEPT !.left = [DBounds EXCEPT !.wedges = 2, !.outages = 1]],
  [DS EXCEPT !.left = [DBounds EXCEPT !.wedges = 1], !.dials = 0 .. 1, !.stray = {1}],
  [DS EXCEPT !.left = [DBounds EXCEPT !.suspends = 2, !.outages = 1], !.sleepDeafens = TRUE],
  [DS EXCEPT !.left = [DBounds EXCEPT !.wedges = 1, !.errors = 2], !.kinds = {"mute"}, !.cures = FALSE, !.dials = {2}],
  [DS EXCEPT !.left = [DBounds EXCEPT !.wedges = 1], !.kinds = {"mute"}, !.cures = FALSE, !.dials = {2}, !.persists = FALSE],
  [DS EXCEPT !.left = [DBounds EXCEPT !.wedges = 1], !.kinds = {"mute"}, !.cures = FALSE, !.dials = 0 .. 2] }
\* Congestion
QB(d, a, e, p, w) == [budgets |-> [data |-> d, ack |-> a, early |-> e, park |-> p], eager |-> w]
QScenarios == {QB(2, 0, 0, 0, TRUE), QB(1, 1, 0, 0, TRUE), QB(1, 0, 1, 0, TRUE), QB(1, 0, 0, 1, TRUE), QB(1, 0, 0, 0, FALSE)}

R == INSTANCE Recovery WITH Scenarios <- RScenarios, HeartbeatReregThresh <- 2,
       addrRegistryRetryMax <- 2
A == INSTANCE AddrWatch WITH Scenarios <- AScenarios, addrRegistryRetryMax <- 3, ProbeRepeats <- 2
D == INSTANCE Watchdog WITH Scenarios <- DScenarios, rxSilenceThreshold <- 2,
       dialWedgeThreshold <- 2, rxWatchdogSoftMax <- 2, rxWedgeMinUptime <- 3,
       rxWedgeRegistryFresh <- 3, suspendGapThreshold <- 4, rxWedgeLoopWindow <- 13,
       rxWedgeLoopMax <- 2
H == INSTANCE HandshakePoll WITH Peer <- {"p", "q"}, MaxParked <- 1, MaxRequests <- 2, MaxFailed <- 1,
       handshakeMaxWaiting <- 1, handshakePokeBurst <- 1
Q == INSTANCE Congestion WITH Scenarios <- QScenarios, Data <- 11, Mss <- 1, InitialCongWin <- 6,
       MaxCongWin <- 10, Room <- 8, AckPath <- 1, MaxRetxAttempts <- 5

Rvars == <<addr, reg, link, me, lock, job, noted, hb, ask, retry, op, skipped>>
Avars == <<net, obs, st, held, peer, bk, regAt, fu, moved, ran>>
Dvars == <<world, regUp, up, wd, regAge, log, exits, errs, ev>>
Hvars == <<inbox, parked, asked, since, pokeDue, tokens, closed, waiting, poll, extra, wake, settling, client, trusted, stop, owed, failed, answers, lost>>
Qvars == <<snd, sendSeq, open, handling, data, acks, rcv, ooo>>
RV == <<sc, left, Rvars>>
AV == <<sc, left, Avars>>
DV == <<sc, left, Dvars>>
HV == <<Hvars>>
QV == <<sc, left, Qvars>>
allvars == <<case, sc, left, vars, Rvars, Avars, Dvars, Hvars, Qvars>>
ROff == addr = 0 /\ reg = 0 /\ link = 0 /\ me = 0 /\ lock = 0 /\ job = 0 /\ noted = 0 /\ hb = 0 /\ ask = 0 /\ retry = 0 /\ op = 0 /\ skipped = 0
AOff == net = 0 /\ obs = 0 /\ st = 0 /\ held = 0 /\ peer = 0 /\ bk = 0 /\ regAt = 0 /\ fu = 0 /\ moved = 0 /\ ran = 0
DOff == world = 0 /\ regUp = 0 /\ up = 0 /\ wd = 0 /\ regAge = 0 /\ log = 0 /\ exits = 0 /\ errs = 0 /\ ev = 0
HOff == inbox = 0 /\ parked = 0 /\ asked = 0 /\ since = 0 /\ pokeDue = 0 /\ tokens = 0 /\ closed = 0 /\ waiting = 0 /\ poll = 0 /\ extra = 0 /\ wake = 0 /\ settling = 0 /\ client = 0 /\ trusted = 0 /\ stop = 0 /\ owed = 0 /\ failed = 0 /\ answers = 0 /\ lost = 0
QOff == snd = 0 /\ sendSeq = 0 /\ open = 0 /\ handling = 0 /\ data = 0 /\ acks = 0 /\ rcv = 0 /\ ooo = 0

MCInit ==
  /\ case \in Cases /\ Init
  /\ \/ case = "replay" /\ sc = 0 /\ left = 0 /\ ROff /\ AOff /\ DOff /\ HOff /\ QOff
     \/ case = "recovery" /\ R!Init /\ AOff /\ DOff /\ HOff /\ QOff
     \/ case = "addrwatch" /\ A!Init /\ ROff /\ DOff /\ HOff /\ QOff
     \/ case = "watchdog" /\ D!Init /\ ROff /\ AOff /\ HOff /\ QOff
     \/ case = "handshakes" /\ H!Init /\ sc = 0 /\ left = 0 /\ ROff /\ AOff /\ DOff /\ QOff
     \/ case = "congestion" /\ Q!Init /\ ROff /\ AOff /\ DOff /\ HOff
MCNext ==
  /\ UNCHANGED case
  /\ \/ case = "replay" /\ Next /\ UNCHANGED <<sc, left, Rvars, Avars, Dvars, Hvars, Qvars>>
     \/ case = "recovery" /\ R!Next /\ UNCHANGED <<vars, Avars, Dvars, Hvars, Qvars>>
     \/ case = "addrwatch" /\ A!Next /\ UNCHANGED <<vars, Rvars, Dvars, Hvars, Qvars>>
     \/ case = "watchdog" /\ D!Next /\ UNCHANGED <<vars, Rvars, Avars, Hvars, Qvars>>
     \/ case = "handshakes" /\ H!Next /\ UNCHANGED <<sc, left, vars, Rvars, Avars, Dvars, Qvars>>
     \/ case = "congestion" /\ Q!Next /\ UNCHANGED <<vars, Rvars, Avars, Dvars, Hvars>>

\* The fairness of each module, in its case.
Fairness ==
  /\ WF_RV(case = "recovery" /\ R!RegistryUp)
  /\ WF_RV(case = "recovery" /\ R!TimePasses)
  /\ WF_RV(case = "recovery" /\ R!Recover)
  /\ WF_RV(case = "recovery" /\ R!RetryRegistry)
  /\ WF_RV(case = "recovery" /\ R!Run)
  /\ WF_RV(case = "recovery" /\ R!Beat)
  /\ WF_RV(case = "recovery" /\ R!ConfigWritten)
  /\ WF_RV(case = "recovery" /\ R!hostnameReannounceLoop)
  /\ WF_AV(case = "addrwatch" /\ A!BackOnline)
  /\ WF_AV(case = "addrwatch" /\ A!KeepaliveReply /\ obs'[1].ip = net.pub)
  /\ WF_AV(case = "addrwatch" /\ A!TimePasses)
  /\ WF_AV(case = "addrwatch" /\ A!addrWatchTick)
  /\ WF_AV(case = "addrwatch" /\ A!FollowUp)
  /\ WF_DV(case = "watchdog" /\ D!Awake)
  /\ WF_DV(case = "watchdog" /\ D!Respawn)
  /\ WF_DV(case = "watchdog" /\ D!RegistryFlips /\ ~regUp)
  /\ WF_HV(case = "handshakes" /\ H!RegistryAnswers)
  /\ WF_HV(case = "handshakes" /\ H!PollProcesses)
  /\ WF_HV(case = "handshakes" /\ H!WakeRound)
  /\ WF_HV(case = "handshakes" /\ H!ExtraRound)
  /\ WF_HV(case = "handshakes" /\ H!Settle)
  /\ WF_HV(case = "handshakes" /\ H!TimePasses)
  /\ WF_QV(case = "congestion" /\ UNCHANGED sc /\ Q!sendSegment)
  /\ WF_QV(case = "congestion" /\ UNCHANGED sc /\ Q!AckArrives)
  /\ WF_QV(case = "congestion" /\ UNCHANGED sc /\ Q!ProcessAck)
  /\ WF_QV(case = "congestion" /\ UNCHANGED sc /\ Q!DeliverInOrder)
  /\ WF_QV(case = "congestion" /\ UNCHANGED sc /\ Q!Quiet /\ Q!retransmitUnacked)
MCSpec == MCInit /\ [][MCNext]_allvars /\ Fairness

-----------------------------------------------------------------------------
\* NothingLost of HandshakePoll: only a reply that does not arrive, or the
\* deadline of the shutdown, loses an answer (begin, end, shutdown).
NothingLost == case = "handshakes" => H!NothingLost

\* NoRestartLoop of Watchdog: where the exits can be logged at all, at most
\* rxWedgeLoopMax of them in a window, and as many again for each time the log
\* could not be read or written (recentRxWedgeExits, recordRxWedgeExit).
NoRestartLoop == case = "watchdog" => D!NoRestartLoop

\* The types of the module at hand, and
\* - Congestion: window and ssthresh keep their floors and caps (WindowKept),
\*   a recovery ends at data that is out and not acknowledged, also with a
\*   stale SendSeq (RecoveryHasEnd), and in fast recovery, while the hole is
\*   open, no more is in the network than when the loss was seen
\*   (RecoveryBacksOff; ProcessAck, retransmitUnacked, WindowAvailable);
\* - AddrWatch: no recovery without a move (NoSpuriousRecovery), and after the
\*   follow-up the beacon relays to the present address, unless the repeated
\*   registration itself was lost (BeaconFollows; noteObserved,
\*   addrAnnounceFollowUp).
ControlSound ==
  CASE case = "congestion" -> Q!TypeOK /\ Q!WindowKept /\ Q!RecoveryHasEnd /\ Q!RecoveryBacksOff
    [] case = "addrwatch" -> A!TypeOK /\ A!NoSpuriousRecovery /\ A!BeaconFollows
    [] case = "recovery" -> R!TypeOK
    [] case = "watchdog" -> D!TypeOK
    [] case = "handshakes" -> H!TypeOK
    [] case = "replay" -> TypeOK

\* The heartbeat replaces only a registry connection that is dead or that its
\* own call timed out on, never one a recovery has put in its place (Recovery,
\* reconnectRegistrySerialised), and the watchdog exits only on the evidence of
\* a whole silence, awake, or of as many runs of dial timeouts without one that
\* succeeds, through all soft recoveries (Watchdog, rxWatchdogTick).
ControlSteps ==
  [][CASE case = "recovery" -> R!ReplacesDead
       [] case = "watchdog" -> D!Exhausted
       [] OTHER -> TRUE]_allvars

\* What each component comes to, again and again: the registry holds the
\* present address, hostname, visibility and trust (Recovery,
\* reestablishTransport, restoreRegistryState); every move has reached peer,
\* beacon and registry (AddrWatch, addrAnnounceFollowUp); a deaf node that a restart
\* cures hears (Watchdog, escalateRxWedge); an accepted poke has got a poll
\* that starts after it, and an answer waited for is fetched (HandshakePoll,
\* claimLocked, end); all data is acknowledged (Congestion,
\* retransmitUnacked, fastRetransmit).
ControlSettles ==
  []<>(CASE case = "recovery" -> R!RecordRight
         [] case = "addrwatch" -> A!Announced
         [] case = "watchdog" -> D!Hears
         [] case = "handshakes" -> H!Served
         [] case = "congestion" -> Q!AllAcked
         [] OTHER -> TRUE)
=============================================================================
