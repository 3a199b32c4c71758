------------------------------ MODULE Recovery ------------------------------
(***************************************************************************)
(* Keeping the registry's record of this node right: the heartbeat and its *)
(* re-registration (trustRepublishLoop), the recovery shared by the        *)
(* address watcher, the host-resume handler and the rx watchdog            *)
(* (reestablishTransport), what a re-registration restores, the hostname   *)
(* re-announcement and the local commands that change the record.  The     *)
(* registry restarts, reaps and fails; the node moves and sleeps, which    *)
(* leaves its registry connection half open.                               *)
(***************************************************************************)
EXTENDS Integers, FiniteSets

CONSTANTS
  Scenarios,             \* what may happen, and how often
  HeartbeatReregThresh,
  addrRegistryRetryMax

VARIABLES
  sc,     \* the scenario
  left,   \* bounds: faults, commands and moves still to come
  addr,   \* this node's address, a number
  reg,    \* the registry: up, and its record of this node
  link,   \* the registry connection: which one (alternating), source address, half open,
          \* and whether a heartbeat timed out on it although it works (history)
  me,     \* the node: id, config, and whether the registry answered lately
  lock,   \* who holds reestablishMu
  job,    \* the re-registration the holder runs
  noted,  \* the latest accepted re-registration: how recent, how complete
  hb,     \* trustRepublishLoop
  ask,    \* recoveries waiting for the lock: "move", "resume", "soft"
  retry,  \* registry retries the address watcher still owes
  op,     \* a local command between its registry call and its config write
  skipped \* values whose restoring write failed or raced a command

vars == <<sc, left, addr, reg, link, me, lock, job, noted, hb, ask, retry, op, skipped>>

NoJob == [pc |-> "none", full |-> FALSE, trust |-> FALSE, complete |-> TRUE, v |-> 0]
NoOp == [kind |-> "none", v |-> 0]

Init ==
  /\ sc \in Scenarios
  /\ left = sc.left
  /\ addr = 1
  /\ reg = [up |-> TRUE, id |-> 1, ep |-> 1, vis |-> sc.public, host |-> sc.host, trust |-> TRUE]
  /\ link = [nth |-> 0, addr |-> 1, dead |-> FALSE, hung |-> FALSE]
  /\ me = [id |-> 1, vis |-> sc.public, host |-> sc.host, fresh |-> TRUE]
  /\ lock = "none" /\ job = NoJob
  /\ noted = [recent |-> FALSE, full |-> FALSE]
  /\ hb = [pc |-> "idle", fails |-> 0, same |-> TRUE, noted |-> FALSE]
  /\ ask = {} /\ retry = 0
  /\ op = NoOp
  /\ skipped = {}

Known == reg.id = me.id
Dead == link.dead \/ link.addr # addr
\* A call reaches the registry.
Reaches == reg.up /\ ~Dead
\* A call that reaches it may still fail, while the scenario has failures.
Spend(k) == left[k] > 0 /\ left' = [left EXCEPT ![k] = @ - 1]

----------------------------------------------------------------------------
(***************************************************************************)
(* The world.                                                              *)
(***************************************************************************)

Move ==
  /\ Spend("moves")
  /\ addr' = addr + 1
  /\ ask' = ask \cup {"move"}
  /\ UNCHANGED <<sc, reg, link, me, lock, job, noted, hb, retry, op, skipped>>
\* The host sleeps; on resume nothing is recent and the connection is gone.
Suspend ==
  /\ Spend("sleeps")
  /\ link' = [link EXCEPT !.dead = TRUE]
  /\ noted' = [noted EXCEPT !.recent = FALSE]
  /\ ask' = ask \cup {"resume"}
  /\ UNCHANGED <<sc, addr, reg, me, lock, job, hb, retry, op, skipped>>
\* rxWatchdogTick's soft recovery.
SoftRecovery ==
  /\ Spend("softs")
  /\ ask' = ask \cup {"soft"}
  /\ UNCHANGED <<sc, addr, reg, link, me, lock, job, noted, hb, retry, op, skipped>>
\* The registry restarts without this node, or without its hostnames, or is
\* unreachable for a while.
RegistryFault ==
  /\ Spend("faults")
  /\ \/ reg' = [reg EXCEPT !.id = 0]
     \/ reg' = [reg EXCEPT !.host = 0]
     \/ reg.up /\ reg' = [reg EXCEPT !.up = FALSE]
  /\ UNCHANGED <<sc, addr, link, me, lock, job, noted, hb, ask, retry, op, skipped>>
RegistryUp ==
  /\ ~reg.up
  /\ reg' = [reg EXCEPT !.up = TRUE]
  /\ UNCHANGED <<sc, left, addr, link, me, lock, job, noted, hb, ask, retry, op, skipped>>
\* Five minutes without an answer; reestablishCoalesce passes.
TimePasses ==
  /\ \/ me.fresh /\ ~Reaches /\ me' = [me EXCEPT !.fresh = FALSE] /\ UNCHANGED noted
     \/ noted.recent /\ noted' = [noted EXCEPT !.recent = FALSE] /\ UNCHANGED me
  /\ UNCHANGED <<sc, left, addr, reg, link, lock, job, hb, ask, retry, op, skipped>>

----------------------------------------------------------------------------
(***************************************************************************)
(* Connecting and registering.                                             *)
(***************************************************************************)

\* dialRegistryClient: the new connection has the current source address.
forceReconnectRegistry ==
  link' = [nth |-> 1 - link.nth, addr |-> addr, dead |-> FALSE, hung |-> FALSE]

\* What the registry does with a registration over the connection: a node
\* it does not know gets a new record, under a new id.
Registered ==
  IF Known THEN [reg EXCEPT !.ep = link.addr]
  ELSE [reg EXCEPT !.ep = link.addr, !.id = me.id + 1, !.vis = FALSE, !.host = 0, !.trust = FALSE]

\* registerEndpoint, and what has to be restored after it.  reRegisterEndpoint
\* restores everything under a new id, and visibility and hostname when the
\* reply lacks the configured hostname.
Restores(j, r) ==
  IF j.full \/ r.id # me.id THEN {"state", "trust"}
  ELSE IF me.host # 0 /\ r.host # me.host THEN {"state"} ELSE {}
registerEndpoint ==
  /\ job.pc = "register"
  /\ \/ /\ Reaches
        /\ LET r == Registered
               what == Restores(job, r)
           IN  /\ reg' = r
               /\ me' = [me EXCEPT !.id = r.id, !.fresh = TRUE]
               /\ job' = [job EXCEPT !.pc = IF what = {} THEN "note" ELSE "vis",
                                     !.trust = "trust" \in what]
        /\ UNCHANGED left
     \/ /\ ~Reaches \/ left.errors > 0
        /\ left' = IF Reaches THEN [left EXCEPT !.errors = @ - 1] ELSE left
        /\ job' = [job EXCEPT !.pc = "failed"]
        /\ UNCHANGED <<reg, me>>
  /\ UNCHANGED <<sc, addr, link, lock, noted, hb, ask, retry, op, skipped>>

\* One write of restoreRegistryState.  An error is logged, the run counts as
\* incomplete and nothing repeats the write.
Write(r, what, next) ==
  \/ /\ Reaches /\ Known
     /\ reg' = r
     /\ job' = [job EXCEPT !.pc = next]
     /\ UNCHANGED <<left, skipped>>
  \/ /\ ~Reaches \/ ~Known \/ left.errors > 0
     /\ left' = IF Reaches /\ Known THEN [left EXCEPT !.errors = @ - 1] ELSE left
     /\ job' = [job EXCEPT !.pc = next, !.complete = FALSE]
     /\ skipped' = skipped \cup {what}
     /\ UNCHANGED reg
restoreRegistryState ==
  /\ LET afterHost == IF job.trust THEN "trust" ELSE "note"
     IN  \/ /\ job.pc = "vis"
            /\ job' = [job EXCEPT !.pc = IF me.vis THEN "visw" ELSE "host"]
            /\ skipped' = IF op.kind = "vis" THEN skipped \cup {"vis"} ELSE skipped
            /\ UNCHANGED <<left, reg>>
         \/ job.pc = "visw" /\ Write([reg EXCEPT !.vis = TRUE], "vis", "host")
         \/ /\ job.pc = "host"
            /\ job' = [job EXCEPT !.pc = IF me.host # 0 THEN "hostw" ELSE afterHost, !.v = me.host]
            /\ UNCHANGED <<left, reg, skipped>>
         \/ job.pc = "hostw" /\ Write([reg EXCEPT !.host = job.v], "host", afterHost)
         \/ job.pc = "trust" /\ Write([reg EXCEPT !.trust = TRUE], "trust", "note")
  /\ UNCHANGED <<sc, addr, link, me, lock, noted, hb, ask, retry, op>>

----------------------------------------------------------------------------
(***************************************************************************)
(* reestablishTransport, for whoever holds the lock.                       *)
(***************************************************************************)

reestablishedRecently(full) == noted.recent /\ (full => noted.full)
Opts(cause) == [fresh |-> cause \in {"move", "resume"}, full |-> cause # "move",
                always |-> cause = "move"]

\* A recovery gets the lock; the registry half is skipped when a
\* re-registration that covers it has just been done.
reestablishTransport(cause) ==
  LET o == Opts(cause)
  IN  /\ lock = "none" /\ cause \in ask
      /\ IF reestablishedRecently(o.full) /\ ~o.always
         THEN ask' = ask \ {cause} /\ UNCHANGED <<lock, job>>
         ELSE /\ lock' = cause
              /\ ask' = ask \ {cause}
              /\ job' = [NoJob EXCEPT !.pc = IF o.fresh THEN "dial" ELSE "register",
                                      !.full = o.full \/ ~me.fresh]
      /\ UNCHANGED <<sc, left, addr, reg, link, me, noted, hb, retry, op, skipped>>
\* The dial outlasts an outage, or gives up after its last attempt.
JobDials ==
  /\ job.pc = "dial"
  /\ \/ /\ reg.up
        /\ forceReconnectRegistry
        /\ hb' = [hb EXCEPT !.same = hb.pc = "idle"]
        /\ job' = [job EXCEPT !.pc = "register"]
        /\ UNCHANGED left
     \/ /\ ~reg.up /\ Spend("errors")
        /\ job' = [job EXCEPT !.pc = "failed"]
        /\ UNCHANGED <<link, hb>>
  /\ UNCHANGED <<sc, addr, reg, me, lock, noted, ask, retry, op, skipped>>

\* noteReestablished, and the end of the run; the address watcher remembers
\* a registry it did not reach and asks again, addrRegistryRetryMax times.
finished(ok) ==
  LET owed == IF ok THEN 0 ELSE IF lock = "retry" THEN retry ELSE addrRegistryRetryMax
  IN  retry' = IF lock \in {"move", "retry"} THEN owed ELSE retry
JobEnds ==
  /\ job.pc \in {"note", "failed"}
  /\ noted' = IF job.pc = "note" THEN [recent |-> TRUE, full |-> job.full /\ job.complete] ELSE noted
  /\ hb' = [hb EXCEPT !.noted = @ \/ (job.pc = "note" /\ hb.pc # "idle")]
  /\ finished(job.pc = "note")
  /\ job' = NoJob /\ lock' = "none"
  /\ UNCHANGED <<sc, left, addr, reg, link, me, ask, op, skipped>>
\* recoverFromAddrChange for a retry still owed, once nothing newer is.
RetryRegistry ==
  /\ retry > 0 /\ lock = "none" /\ "move" \notin ask
  /\ retry' = retry - 1
  /\ lock' = "retry"
  /\ job' = [NoJob EXCEPT !.pc = "dial", !.full = ~me.fresh]
  /\ UNCHANGED <<sc, left, addr, reg, link, me, noted, hb, ask, op, skipped>>

----------------------------------------------------------------------------
(***************************************************************************)
(* trustRepublishLoop.                                                     *)
(***************************************************************************)

HeartbeatTick ==
  /\ hb.pc = "idle"
  /\ hb' = [hb EXCEPT !.pc = "call"]
  /\ UNCHANGED <<sc, left, addr, reg, link, me, lock, job, noted, ask, retry, op, skipped>>
\* The call: answered, refused as unknown, or failed, at once when a recovery
\* closed the connection under it; or timed out, on a connection that is half
\* open or closed, or whose registry is down or only slow.
HeartbeatReturns ==
  IF hb.same /\ reg.up /\ Known
  THEN /\ hb' = [hb EXCEPT !.pc = "idle", !.fails = 0, !.noted = FALSE]
       /\ me' = [me EXCEPT !.fresh = TRUE]
  ELSE /\ hb' = [hb EXCEPT !.pc = "judge",
                           !.fails = IF hb.same /\ reg.up THEN HeartbeatReregThresh ELSE @ + 1]
       /\ UNCHANGED me
HeartbeatTimesOut ==
  /\ hb' = [hb EXCEPT !.pc = "reconnect", !.fails = @ + 1]
  /\ link' = [link EXCEPT !.hung = @ \/ (hb.same /\ ~Dead)]
  /\ UNCHANGED me
Heartbeat ==
  /\ hb.pc = "call"
  /\ \/ ~(hb.same /\ Dead) /\ HeartbeatReturns /\ UNCHANGED <<left, link>>
     \/ ~(hb.same /\ Reaches) /\ HeartbeatTimesOut /\ UNCHANGED left
     \/ hb.same /\ Reaches /\ HeartbeatTimesOut /\ Spend("slow")
  /\ UNCHANGED <<sc, addr, reg, lock, job, noted, ask, retry, op, skipped>>
\* It reconnects only if nobody has, and re-registers after that, or when
\* whoever reconnected did not get to register.
reconnectRegistrySerialised ==
  /\ hb.pc = "reconnect" /\ lock = "none"
  /\ \/ /\ ~hb.same
        /\ hb' = [hb EXCEPT !.pc = "judge", !.fails = IF hb.noted THEN @ ELSE HeartbeatReregThresh]
        /\ UNCHANGED link
     \/ /\ hb.same /\ reg.up
        /\ forceReconnectRegistry
        /\ hb' = [hb EXCEPT !.pc = "judge", !.fails = HeartbeatReregThresh]
     \/ /\ hb.same /\ ~reg.up
        /\ hb' = [hb EXCEPT !.pc = "judge"] /\ UNCHANGED link
  /\ UNCHANGED <<sc, left, addr, reg, me, lock, job, noted, ask, retry, op, skipped>>
\* At the threshold: back off and re-register in full, unless that has just
\* been done.
trustRepublishLoop ==
  /\ hb.pc = "judge"
  /\ \/ /\ hb.fails < HeartbeatReregThresh
        /\ hb' = [hb EXCEPT !.pc = "idle", !.same = TRUE, !.noted = FALSE]
        /\ UNCHANGED <<lock, job>>
     \/ /\ hb.fails >= HeartbeatReregThresh /\ lock = "none"
        /\ hb' = [pc |-> "idle", fails |-> 0, same |-> TRUE, noted |-> FALSE]
        /\ IF reestablishedRecently(TRUE) THEN UNCHANGED <<lock, job>>
           ELSE lock' = "heartbeat" /\ job' = [NoJob EXCEPT !.pc = "register", !.full = TRUE]
  /\ UNCHANGED <<sc, left, addr, reg, link, me, noted, ask, retry, op, skipped>>

----------------------------------------------------------------------------
(***************************************************************************)
(* The other writers: the hostname loop and the local commands.            *)
(***************************************************************************)

\* handleSetHostname and handleSetVisibility: the registry first, then the
\* local config.
handleSetHostname ==
  /\ op.kind = "none" /\ Reaches /\ Known /\ Spend("names")
  /\ reg' = [reg EXCEPT !.host = me.host + 1]
  /\ op' = [kind |-> "host", v |-> me.host + 1]
  /\ UNCHANGED <<sc, addr, link, me, lock, job, noted, hb, ask, retry, skipped>>
handleSetVisibility ==
  /\ op.kind = "none" /\ Reaches /\ Known /\ Spend("views")
  /\ reg' = [reg EXCEPT !.vis = ~me.vis]
  /\ op' = [kind |-> "vis", v |-> IF me.vis THEN 0 ELSE 1]
  /\ skipped' = IF job.pc = "visw" THEN skipped \cup {"vis"} ELSE skipped
  /\ UNCHANGED <<sc, addr, link, me, lock, job, noted, hb, ask, retry>>
ConfigWritten ==
  /\ op.kind # "none"
  /\ me' = IF op.kind = "host" THEN [me EXCEPT !.host = op.v] ELSE [me EXCEPT !.vis = op.v = 1]
  /\ op' = NoOp
  /\ UNCHANGED <<sc, left, addr, reg, link, lock, job, noted, hb, ask, retry, skipped>>
\* hostnameReannounceLoop.
hostnameReannounceLoop ==
  /\ me.host # 0 /\ Reaches /\ Known /\ reg.host # me.host
  /\ reg' = [reg EXCEPT !.host = me.host]
  /\ UNCHANGED <<sc, left, addr, link, me, lock, job, noted, hb, ask, retry, op, skipped>>

----------------------------------------------------------------------------
Recover == \E cause \in {"move", "resume", "soft"} : reestablishTransport(cause)
Run == registerEndpoint \/ restoreRegistryState \/ JobDials \/ JobEnds
Beat == HeartbeatTick \/ Heartbeat \/ reconnectRegistrySerialised \/ trustRepublishLoop
World == Move \/ Suspend \/ SoftRecovery \/ RegistryFault
Command == handleSetHostname \/ handleSetVisibility
Next == \/ World \/ RegistryUp \/ TimePasses \/ Recover \/ RetryRegistry \/ Run \/ Beat
        \/ Command \/ ConfigWritten \/ hostnameReannounceLoop

\* Every loop keeps ticking and every call returns; an unreachable registry
\* comes back.
Fairness ==
  /\ WF_vars(RegistryUp) /\ WF_vars(TimePasses) /\ WF_vars(Recover) /\ WF_vars(RetryRegistry)
  /\ WF_vars(Run) /\ WF_vars(Beat) /\ WF_vars(ConfigWritten) /\ WF_vars(hostnameReannounceLoop)
Spec == Init /\ [][Next]_vars /\ Fairness

----------------------------------------------------------------------------
\* The types; a re-registration runs exactly while someone holds the lock,
\* and the address watcher never owes more retries than it may make.
TypeOK ==
  /\ (lock = "none") <=> (job.pc = "none")
  /\ lock \in {"none", "move", "resume", "soft", "retry", "heartbeat"}
  /\ hb.pc \in {"idle", "call", "reconnect", "judge"}
  /\ hb.fails \in 0 .. HeartbeatReregThresh + 1
  /\ retry \in 0 .. addrRegistryRetryMax
  /\ skipped \subseteq {"vis", "host", "trust"}
  /\ ask \subseteq {"move", "resume", "soft"}

\* Whatever happened to the registry, the connection or the address, the
\* registry comes to know this node, at its present address and under its
\* present hostname; and it gets back the visibility and the trust pairs,
\* unless a restoring write failed, which restoreRegistryState only logs, or
\* overlapped a command that changes the visibility.
RecordRight ==
  /\ Known /\ reg.ep = addr /\ reg.host = me.host
  /\ "trust" \in skipped \/ reg.trust
  /\ "vis" \in skipped \/ reg.vis = me.vis
RecordCatchesUp == []<>RecordRight

\* The heartbeat replaces only a dead connection or the very one its call
\* timed out on: one that timed out because a recovery replaced the connection
\* under it leaves the new one.
ReplacesDead == link'.nth # link.nth /\ hb.pc = "reconnect" /\ hb'.pc = "judge" => Dead \/ link.hung
WorkingLinkKept == [][ReplacesDead]_vars
=============================================================================
