------------------------------ MODULE Lifecycle ------------------------------
(***************************************************************************)
(* One pilot-daemon process from main to its exit: the plugins and the     *)
(* app-store's child apps, the stages of Daemon.Start, signals and the     *)
(* watchdog's exit request, Daemon.Stop against its budget, StopPlugins,   *)
(* and the deadline that ends a shutdown that hangs.  Time counts seconds  *)
(* from the moment somebody asks the process to stop.                      *)
(***************************************************************************)
EXTENDS Integers

CONSTANTS
  Scenarios,         \* [compat] and budgets: errors, signals, hups, requests, hangs
  drainTimeout,      \* doStop's wait for background goroutines
  daemonStopBudget,
  pluginStopTimeout,
  supervisorExitDeadline

VARIABLES
  sc, left,  \* the scenario and what is left of its budgets
  pc,        \* main
  have,      \* what main and Start have set up
  apps,      \* the app-store's children: "none", "run", "stopped"
  webhook,   \* the webhook plugin is subscribed to the bus
  seen,      \* events it received
  sig,       \* signal.Notify: "default" action, "none" pending, "term", "hup"
  exitReq,   \* supervisorExitRequests holds a request
  exitAt,    \* when the armed deadline ends the process, -1 when not armed
  cause,     \* what ended awaitShutdown: "none", "signal", "request"
  stopper,   \* Daemon.Stop: [pc, at]
  begun,     \* when main entered its present wait
  clock,
  code,      \* exit status, -1 while the process lives
  unheard    \* history: a signal's default action ended the process

vars == <<sc, left, pc, have, apps, webhook, seen, sig, exitReq, exitAt, cause, stopper, begun, clock,
          code, unheard>>
Spend(b) == left[b] > 0 /\ left' = [left EXCEPT ![b] = @ - 1]
Lives == code = -1

Init ==
  /\ sc \in Scenarios /\ left = sc.budgets
  /\ pc = "new" /\ have = {} /\ apps = "none" /\ webhook = FALSE /\ seen = {} /\ sig = "default"
  /\ exitReq = FALSE /\ exitAt = -1 /\ cause = "none" /\ stopper = [pc |-> "no", at |-> 0]
  /\ begun = 0 /\ clock = 0 /\ code = -1 /\ unheard = FALSE

\* Publish reaches whoever is subscribed at that moment; cancelling a
\* subscription and publishing exclude each other.
Publish(topic) == seen' = IF webhook THEN seen \cup {topic} ELSE seen
Subscribe == webhook' = TRUE

----------------------------------------------------------------------------
(***************************************************************************)
(* main up to awaitShutdown.  A stage of Start that fails ends the process *)
(* through fatalAfterPluginStart.                                          *)
(***************************************************************************)

\* The stages, in order.
After == [new |-> "plugins", plugins |-> "identity", identity |-> "transport", transport |-> "listen",
          listen |-> "register", register |-> "connect", connect |-> "announce",
          announce |-> "networks", networks |-> "ipc", ipc |-> "loops", loops |-> "notify"]
StartOthers == UNCHANGED <<sc, sig, exitReq, exitAt, cause, stopper, begun, clock, code, unheard>>
Stage(s) == Lives /\ pc = s /\ pc' = After[s] /\ UNCHANGED left /\ StartOthers
Gets(x) == have' = have \cup {x}
Fails(s) == Lives /\ pc = s /\ Spend("errors") /\ UNCHANGED have /\ StartOthers

\* Flags, daemon.New, the proxy relay and rt.Register: log.Fatalf on error,
\* before any plugin runs.
Configures ==
  \/ Stage("new") /\ Gets("daemon") /\ UNCHANGED <<apps, webhook, seen>>
  \/ Lives /\ pc = "new" /\ Spend("errors") /\ code' = 1
     /\ UNCHANGED <<sc, pc, have, apps, webhook, seen, sig, exitReq, exitAt, cause, stopper, begun, clock, unheard>>
\* StartPlugins; an error leaves the ones started running.
StartPlugins ==
  \/ Stage("plugins") /\ Gets("plugins") /\ apps' = "run" /\ Subscribe /\ UNCHANGED seen
  \/ Fails("plugins") /\ pc' = "fatal" /\ apps' = "run" /\ Subscribe /\ UNCHANGED seen
Plain(s, x) ==
  /\ \/ Stage(s) /\ Gets(x)
     \/ Fails(s) /\ pc' = "fatal"
  /\ UNCHANGED <<apps, webhook, seen>>
\* Start: load or generate the identity, resolve the owner's email.
StartIdentity == Plain("identity", "identity")
\* Choose and validate the transport, find the public endpoint.
StartTransport == Plain("transport", "endpoint")
\* The bus is handed to the tunnels, then the UDP socket is bound; compat
\* binds none.
StartListens ==
  IF sc.compat THEN Stage("listen") /\ UNCHANGED <<have, apps, webhook, seen>> ELSE Plain("listen", "tunnel")
\* Dial the registry (with retries) and register: the node id.
StartRegisters == Plain("register", "registered")
\* compat: the WSS tunnel, which authenticates with the node id.
StartConnects ==
  IF sc.compat THEN Plain("connect", "tunnel") ELSE Stage("connect") /\ UNCHANGED <<have, apps, webhook, seen>>
\* The internal subscriber, node.registered, the first beacon.
StartAnnounces ==
  Stage("announce") /\ Gets("beacon") /\ Publish("node.registered") /\ UNCHANGED <<apps, webhook>>
\* autoJoinNetworks, the snapshot, policies, runners and managed engines.
StartNetworks == Stage("networks") /\ Gets("networks") /\ UNCHANGED <<apps, webhook, seen>>
StartIPC == Plain("ipc", "ipc")
\* The background loops, the watchdogs among them.
StartLoops == Stage("loops") /\ Gets("loops") /\ UNCHANGED <<apps, webhook, seen>>
\* Start returned: the signals are caught from here on.
Notify ==
  /\ Lives /\ pc = "notify" /\ pc' = "serving" /\ sig' = "none"
  /\ UNCHANGED <<sc, left, have, apps, webhook, seen, exitReq, exitAt, cause, stopper, begun, clock, code, unheard>>
Start ==
  \/ Configures \/ StartPlugins \/ StartIdentity \/ StartTransport \/ StartListens \/ StartRegisters
  \/ StartConnects \/ StartAnnounces \/ StartNetworks \/ StartIPC \/ StartLoops \/ Notify

\* StopPlugins ends the subscriptions and the apps within its timeout.
StopPlugins == webhook' = FALSE /\ apps' = "stopped"
fatalAfterPluginStart ==
  /\ Lives /\ pc = "fatal" /\ StopPlugins /\ code' = 1
  /\ UNCHANGED <<sc, left, pc, have, seen, sig, exitReq, exitAt, cause, stopper, begun, clock, unheard>>

----------------------------------------------------------------------------
(***************************************************************************)
(* Who asks for the end.                                                   *)
(***************************************************************************)

\* SIGTERM and SIGHUP: caught while main listens, deadly before and after.
Signalled ==
  /\ Lives /\ \E s \in {"term", "hup"} :
       /\ Spend(IF s = "term" THEN "signals" ELSE "hups")
       /\ IF sig = "default" THEN code' = 143 /\ unheard' = TRUE /\ UNCHANGED sig
          ELSE sig' = (IF sig = "none" THEN s ELSE sig) /\ UNCHANGED <<code, unheard>>
  /\ UNCHANGED <<sc, pc, have, apps, webhook, seen, exitReq, exitAt, cause, stopper, begun, clock>>
\* requestSupervisorExit: the first request arms the deadline, then hands the
\* request to main's channel of capacity one (forwardExitRequest).
requestSupervisorExit ==
  /\ Lives /\ "loops" \in have /\ exitAt = -1 /\ Spend("requests")
  /\ exitAt' = clock + supervisorExitDeadline /\ exitReq' = TRUE
  /\ UNCHANGED <<sc, pc, have, apps, webhook, seen, sig, cause, stopper, begun, clock, code, unheard>>
ExitDeadline ==
  /\ Lives /\ exitAt >= 0 /\ clock >= exitAt /\ code' = 75
  /\ UNCHANGED <<sc, left, pc, have, apps, webhook, seen, sig, exitReq, exitAt, cause, stopper, begun, clock, unheard>>

\* SIGHUP is ignored; after the loop the signals have their default action
\* again (signal.Stop).
awaitShutdown ==
  /\ Lives /\ pc = "serving"
  /\ \/ /\ sig = "hup" /\ sig' = "none" /\ UNCHANGED <<pc, exitReq, cause, stopper, begun>>
     \/ /\ \/ sig = "term" /\ cause' = "signal" /\ UNCHANGED exitReq
           \/ exitReq /\ exitReq' = FALSE /\ cause' = "request"
        /\ sig' = "default" /\ pc' = "teardown" /\ begun' = clock
        /\ stopper' = [pc |-> "drain", at |-> clock]
  /\ UNCHANGED <<sc, left, have, apps, webhook, seen, exitAt, clock, code, unheard>>

----------------------------------------------------------------------------
(***************************************************************************)
(* teardown and shutdown: Stop in a goroutine of its own.                  *)
(***************************************************************************)

\* Stop is done, or its budget is over; then the plugins.
teardown ==
  /\ Lives /\ pc = "teardown" /\ (stopper.pc = "done" \/ clock >= begun + daemonStopBudget)
  /\ pc' = "stopPlugins" /\ begun' = clock
  /\ UNCHANGED <<sc, left, have, apps, webhook, seen, sig, exitReq, exitAt, cause, stopper, clock, code, unheard>>
PluginsStopped ==
  /\ Lives /\ pc = "stopPlugins" /\ StopPlugins /\ pc' = "join"
  /\ UNCHANGED <<sc, left, have, seen, sig, exitReq, exitAt, cause, stopper, begun, clock, code, unheard>>
\* <-daemonDone, then the requested code, or main returns.
shutdown ==
  /\ Lives /\ pc = "join" /\ stopper.pc = "done" /\ code' = (IF cause = "request" THEN 75 ELSE 0)
  /\ UNCHANGED <<sc, left, pc, have, apps, webhook, seen, sig, exitReq, exitAt, cause, stopper, begun, clock, unheard>>

StopStep(from, to) ==
  /\ Lives /\ stopper.pc = from /\ stopper' = [pc |-> to, at |-> clock]
  /\ UNCHANGED <<sc, pc, apps, webhook, sig, exitReq, exitAt, cause, begun, clock, code, unheard>>
\* doStop: the loops end, or the drain's deadline passes.
Drained == StopStep("drain", "publish") /\ have' = have \ {"loops"} /\ UNCHANGED <<left, seen>>
Published == StopStep("publish", "close") /\ Publish("daemon.shutting_down") /\ UNCHANGED <<left, have>>
\* FINs, handshakes, registry, runners, engines, IPC, tunnels, subscriber: any
\* of them may hang when the transport is wedged.
Closed ==
  \/ StopStep("close", "flush") /\ have' = have \ {"registered", "networks", "ipc", "tunnel"}
     /\ UNCHANGED <<left, seen>>
  \/ StopStep("close", "hung") /\ Spend("hangs") /\ UNCHANGED <<have, seen>>
\* The identity is written last.
Flushed == StopStep("flush", "done") /\ UNCHANGED <<left, have, seen>>
doStop == Drained \/ Published \/ Closed \/ Flushed

----------------------------------------------------------------------------
(***************************************************************************)
(* Time passes unless a timer or a bounded wait is due.  Main and Stop run *)
(* at once when nothing holds them.                                        *)
(***************************************************************************)
Due ==
  \/ exitAt >= 0 /\ clock >= exitAt
  \/ stopper.pc = "drain" /\ clock >= stopper.at + drainTimeout
  \/ stopper.pc \in {"publish", "flush"} \/ pc \in {"notify", "fatal"}
  \/ pc = "serving" /\ (sig = "term" \/ exitReq)
  \/ pc = "teardown" /\ (stopper.pc = "done" \/ clock >= begun + daemonStopBudget)
  \/ pc = "stopPlugins" /\ clock >= begun + pluginStopTimeout
  \/ pc = "join" /\ stopper.pc = "done"
Tick ==
  /\ Lives /\ ~Due /\ (exitAt >= 0 \/ cause # "none")
  /\ clock < supervisorExitDeadline + drainTimeout
  /\ clock' = clock + 1
  /\ UNCHANGED <<sc, left, pc, have, apps, webhook, seen, sig, exitReq, exitAt, cause, stopper, begun, code, unheard>>

Ends == fatalAfterPluginStart \/ awaitShutdown \/ ExitDeadline \/ teardown \/ PluginsStopped \/ shutdown \/ doStop
Next == Start \/ Signalled \/ requestSupervisorExit \/ Ends \/ Tick
Fairness == WF_vars(Start) /\ WF_vars(Ends) /\ WF_vars(Tick)
Spec == Init /\ [][Next]_vars /\ Fairness

----------------------------------------------------------------------------
TypeOK ==
  /\ apps \in {"none", "run", "stopped"} /\ sig \in {"default", "none", "term", "hup"}
  /\ code \in {-1, 0, 1, 75, 143} /\ exitAt >= -1
  /\ stopper.pc \in {"no", "drain", "publish", "close", "hung", "flush", "done"}

\* The process does not end before the app-store's apps do: not when a stage
\* of Start fails, and not when Stop hangs until the exit deadline, which
\* leaves room for the budget and the plugins' timeout.  A signal whose
\* default action applies is excluded.
NoOrphans == (~Lives /\ ~unheard) => apps # "run"

\* The webhook plugin sees node.registered and daemon.shutting_down: it is
\* subscribed before Start and until after Stop published, whose drain ends
\* before the budget does (main, teardown).
WebhookSees ==
  /\ "beacon" \in have => "node.registered" \in seen
  /\ pc \in {"stopPlugins", "join"} => "daemon.shutting_down" \in seen

\* An exit the watchdog asked for ends with the status that makes the
\* supervisor start the daemon again, graceful or forced (shutdown, exit.go).
Respawned == (~Lives /\ cause = "request" /\ ~unheard) => code = 75

\* A client that finds the socket finds a registered node with its tunnel and
\* its networks' policies in place (Start's order).
ServesWhole == ("ipc" \in have /\ cause = "none") =>
  {"identity", "endpoint", "registered", "tunnel", "beacon", "networks"} \subseteq have

\* Shutdown completes: the process ends whatever hangs once an exit was asked
\* for; only after a signal may a Stop that hangs keep it (the supervisor then
\* kills it).
Stopped == (cause = "none" \/ ~Lives) \/ (cause = "signal" /\ stopper.pc = "hung" /\ exitAt = -1)
ShutdownEnds == []<>Stopped

=============================================================================
