------------------------------- MODULE MCHost -------------------------------
(***************************************************************************)
(* The daemon on its host: the clients of its socket, what they write on   *)
(* a connection, the commands that start and stop the daemon, its own start *)
(* and shutdown, its way out of the host, its app store and its capped     *)
(* logs, each module on its own small instance.  The case is chosen at the *)
(* start; the variables of the other modules stay 0, those of Sender as    *)
(* they start.                                                             *)
(***************************************************************************)
EXTENDS Sender

CONSTANT Question   \* "all", or the finding the run shows
Cases == IF Question = "sidecar" THEN {"store"}
         ELSE {"ipc", "sender", "daemonctl", "lifecycle", "egress", "store",
               "logcap"}

VARIABLE case
VARIABLES cl, task, lst, conn, push, dgram, sent, stop
VARIABLES proc, pidFile, sock, ctl, agent, wish
VARIABLES pc, have, apps, webhook, seen, sig, exitReq, exitAt, cause,
          stopper, begun, clock, code, unheard
VARIABLES step, plan, argv, penv, mode, final, via, relay, cred, dial,
          told
VARIABLES dir, backups, val, cat, lock, cmd, fd, sup, want, raced, owed
VARIABLES log, copy, tmp, gz, holder, place, up, rot, next, late, cut,
          aged, crashes, made

\* What may happen in a run of each module: sums of small scenarios.
\* Ipc
INone == [c \in {"a", "b"} |-> <<>>]
ICalm == [script |-> INone, leaves |-> FALSE, stalled |-> {}, stops |-> FALSE,
         datagrams |-> 0, conns |-> 0, data |-> 0, closes |-> FALSE]
IOne(s) == [INone EXCEPT !["a"] = s]
IScenarios == {
  \* writes and a close on a dialled connection that the peer may close too
  [ICalm EXCEPT !.script = IOne(<<"dial", "send", "send", "close">>), !.closes = TRUE, !.data = 1],
  \* two dials against the quota, cancelled, by a client that may leave
  [ICalm EXCEPT !.script = IOne(<<"dial", "dial", "cancel", "health">>), !.leaves = TRUE],
  \* a client that leaves while connections and data arrive
  [ICalm EXCEPT !.script = IOne(<<"bind", "dial", "unbind">>), !.leaves = TRUE,
               !.conns = 2, !.data = 1],
  \* more requests than slots and queue of a client that does not read
  [ICalm EXCEPT !.script = IOne(<<"info", "sendToConfirm", "info", "info">>), !.stalled = {"a"}],
  [ICalm EXCEPT !.script = [INone EXCEPT !["a"] = <<"info", "sendTo", "dial">>, !["b"] = <<"bind", "info">>],
               !.stalled = {"a"}, !.datagrams = 1],
  \* two clients want the same port while the server closes
  [ICalm EXCEPT !.script = [INone EXCEPT !["a"] = <<"bind">>, !["b"] = <<"bind", "unbind">>],
               !.stops = TRUE] }
\* Sender
SB(e, s, c) == [err |-> e, sack |-> s, close |-> c]
SW(a, b) == [a |-> a, b |-> b]
SScenarios == {[budgets |-> SB(1, 0, 0), writes |-> SW(<<1, 1>>, <<4>>)],
   [budgets |-> SB(1, 0, 1), writes |-> SW(<<1, 1>>, <<>>)],
   [budgets |-> SB(0, 0, 1), writes |-> SW(<<1>>, <<1>>)],
   [budgets |-> SB(1, 0, 1), writes |-> SW(<<8>>, <<>>)],
   [budgets |-> SB(0, 1, 1), writes |-> SW(<<1, 1, 1>>, <<>>)]}
\* DaemonCtl
CBounds == [starts |-> 0, stops |-> 0, statuses |-> 0, kills |-> 0, failures |-> 0, crashes |-> 0, reuses |-> 0]
CS == [serial |-> TRUE, launchd |-> FALSE, foreground |-> FALSE, file |-> -1, budgets |-> CBounds]
CScenarios == {
  [CS EXCEPT !.budgets = [CBounds EXCEPT !.starts = 2, !.stops = 1, !.statuses = 1, !.crashes = 1, !.reuses = 1]],
  [CS EXCEPT !.budgets = [CBounds EXCEPT !.starts = 3, !.stops = 1, !.kills = 1, !.failures = 1]],
  [CS EXCEPT !.foreground = TRUE, !.file = 0,
            !.budgets = [CBounds EXCEPT !.starts = 2, !.stops = 1, !.crashes = 1, !.kills = 1, !.reuses = 1]],
  [CS EXCEPT !.launchd = TRUE, !.budgets = [CBounds EXCEPT !.starts = 2, !.stops = 2, !.statuses = 1, !.crashes = 1]],
  [CS EXCEPT !.serial = FALSE, !.file = 2,
            !.budgets = [CBounds EXCEPT !.starts = 1, !.stops = 2, !.statuses = 1, !.reuses = 1]] }
\* Lifecycle
LBounds == [errors |-> 0, signals |-> 0, hups |-> 0, requests |-> 0, hangs |-> 0]
LS == [compat |-> FALSE, budgets |-> LBounds]
LScenarios == {
  [LS EXCEPT !.budgets = [LBounds EXCEPT !.errors = 1]],
  [LS EXCEPT !.compat = TRUE, !.budgets = [LBounds EXCEPT !.errors = 1, !.signals = 1, !.hups = 1]],
  [LS EXCEPT !.budgets = [LBounds EXCEPT !.signals = 2, !.requests = 1, !.hangs = 1]] }
\* Egress
EUnset == [s \in {"transport", "proxy", "registry", "beacon", "compat-beacon", "tls", "trust", "fp", "cmd"} |-> ""]
EBounds == [rotate |-> 0, fail |-> 0, dials |-> 0, lookups |-> 0]
EOpen == [udp |-> TRUE, direct |-> "open", connect |-> "passes", beacon |-> TRUE]
ENoShell == [proxy |-> "none", exempt |-> FALSE]
ES == [by |-> "pilotctl", flag |-> EUnset, env |-> EUnset, cfg |-> EUnset, shell |-> ENoShell,
      bin |-> "new", known |-> TRUE, pinned |-> FALSE, sandbox |-> FALSE, default |-> "",
      enterprise |-> FALSE, net |-> EOpen, budgets |-> EBounds]
ENetworks == {[udp |-> u, direct |-> d, connect |-> c, beacon |-> b] :
                u \in BOOLEAN, d \in {"open", "guard", "blocked"},
                c \in {"passes", "refuses"}, b \in BOOLEAN}
EShells == {[proxy |-> p, exempt |-> e] : p \in {"none", "open", "bad"}, e \in BOOLEAN}
EScenarios ==
    \* where the transport is set, for each daemon that may be installed
    {[ES EXCEPT !.bin = b, !.known = k, !.flag["transport"] = f, !.env["transport"] = e,
               !.cfg["transport"] = c, !.net = n] :
        b \in {"new", "noauto", "old"}, k \in BOOLEAN, f \in {"", "compat", "auto"},
        e \in {"", "udp", "auto", "bad"}, c \in {"", "compat", "auto"},
        n \in {EOpen, [EOpen EXCEPT !.udp = FALSE]}}
    \cup \* a service manager, or a downgrade under one
    {[ES EXCEPT !.by = "service", !.bin = b, !.pinned = p, !.default = d, !.cfg["transport"] = c,
               !.env["transport"] = e, !.net.udp = FALSE] :
        b \in {"new", "noauto"}, p \in BOOLEAN, d \in {"", "auto"},
        c \in {"", "udp", "auto", "bad"}, e \in {"", "bad"}}
    \cup \* transport, proxy and network
    {[ES EXCEPT !.cfg["transport"] = t, !.env["proxy"] = p, !.shell = s, !.net = n,
               !.budgets.lookups = 1] :
        t \in {"", "udp", "compat"}, p \in {"", "off", "url"}, s \in EShells, n \in ENetworks}
    \cup \* private networks
    {[ES EXCEPT !.cfg["transport"] = t, !.cfg["registry"] = r, !.env["beacon"] = b,
               !.cfg["compat-beacon"] = c, !.shell = [proxy |-> p, exempt |-> FALSE],
               !.net.udp = u, !.budgets.lookups = 1] :
        t \in {"", "udp", "compat"}, r \in {"", "raw", "own", "tls"}, b \in {"", "own"},
        c \in {"", "own", "unusable"}, p \in {"none", "open"}, u \in BOOLEAN}
    \cup \* trust, and the proxy's three sources
    {[ES EXCEPT !.flag["proxy"] = f, !.env["proxy"] = e, !.cfg["proxy"] = c, !.flag["fp"] = g,
               !.env["trust"] = w, !.enterprise = x, !.bin = b] :
        f \in {"", "cred", "bad"}, e \in {"", "off"}, c \in {"", "url"}, g \in {"", "fp"},
        w \in {"", "system"}, x \in BOOLEAN, b \in {"new", "old"}}
    \cup \* rotating credentials
    {[ES EXCEPT !.env["transport"] = t, !.flag["proxy"] = p, !.cfg["cmd"] = c, !.flag["cmd"] = d,
               !.sandbox = x, !.bin = b,
               !.shell = [proxy |-> "cred", exempt |-> FALSE], !.net.udp = FALSE,
               !.budgets = [EBounds EXCEPT !.rotate = 2, !.fail = 1, !.dials = 2]] :
        t \in {"", "udp"}, p \in {"", "cred"}, c \in {"", "fresh"}, d \in {"", "fresh"},
        x \in BOOLEAN, b \in {"new", "noauto"}}
    \cup \* no daemon
    {[ES EXCEPT !.by = "nobody", !.env["transport"] = t, !.cfg["proxy"] = p, !.shell = s, !.net = n,
               !.sandbox = x, !.env["registry"] = r, !.budgets.lookups = 1] :
        t \in {"", "compat"}, p \in {"", "off", "url", "bad"}, s \in EShells \cup {[proxy |-> "cred", exempt |-> FALSE]},
        n \in {m \in ENetworks : m.udp /\ m.beacon}, x \in BOOLEAN, r \in {"", "own"}}
\* Store
PBounds == [cmds |-> 1, publish |-> 0, fail |-> 0, stuck |-> 0, timeout |-> 0, crash |-> 0,
           replace |-> 0, rewrite |-> 0, delete |-> 0, rescan |-> 0, respawn |-> 0]
PO == [kind |-> "install", force |-> FALSE, reset |-> FALSE, pin |-> 0, local |-> FALSE]
PForce == [PO EXCEPT !.force = TRUE]
PUpgrade == [PO EXCEPT !.kind = "upgrade", !.force = TRUE]
PReset == [PO EXCEPT !.force = TRUE, !.reset = TRUE]
PUninstall == [PO EXCEPT !.kind = "uninstall"]
PS == [procs |-> {1}, installed |-> TRUE, files |-> {"key", "journal"}, unreadable |-> {}, links |-> TRUE, exdev |-> FALSE,
      cat |-> 2, opts |-> {PUpgrade}, budgets |-> PBounds]
PScenarios == {
  \* the running app writes while it is upgraded
  [PS EXCEPT !.budgets = [PBounds EXCEPT !.replace = 2, !.delete = 1]],
  [PS EXCEPT !.budgets = [PBounds EXCEPT !.rewrite = 2]],
  [PS EXCEPT !.links = FALSE, !.exdev = TRUE, !.budgets = [PBounds EXCEPT !.replace = 2, !.delete = 1]],
  \* a pilotctl dies anywhere, and another one comes
  [PS EXCEPT !.opts = {PO, PForce}, !.budgets = [PBounds EXCEPT !.cmds = 2, !.crash = 1, !.replace = 1]],
  [PS EXCEPT !.exdev = TRUE, !.opts = {PReset, PUpgrade}, !.budgets = [PBounds EXCEPT !.cmds = 2, !.crash = 1, !.replace = 1]],
  \* steps fail
  [PS EXCEPT !.files = {"key", "owned"}, !.unreadable = {"owned"}, !.opts = {PForce},
            !.budgets = [PBounds EXCEPT !.cmds = 2, !.fail = 1, !.stuck = 1, !.replace = 1]],
  \* two commands at once
  [PS EXCEPT !.procs = {1, 2}, !.files = {"key"}, !.opts = {PO, PForce, PUpgrade, [PO EXCEPT !.pin = 1], [PO EXCEPT !.pin = 2], [PO EXCEPT !.local = TRUE]},
            !.budgets = [PBounds EXCEPT !.cmds = 2, !.timeout = 1, !.publish = 1]],
  [PS EXCEPT !.procs = {1, 2}, !.files = {"key"}, !.opts = {PForce, PO}, !.budgets = [PBounds EXCEPT !.cmds = 3, !.crash = 1]],
  \* retention
  [PS EXCEPT !.files = {"key"}, !.opts = {PForce, PReset}, !.budgets = [PBounds EXCEPT !.cmds = 3, !.replace = 1]],
  \* uninstall, while the supervisor restarts the app
  [PS EXCEPT !.procs = {1, 2}, !.files = {"key"}, !.opts = {PUpgrade, PUninstall, PO},
            !.budgets = [PBounds EXCEPT !.cmds = 3, !.rescan = 1, !.respawn = 1, !.stuck = 1]],
  [PS EXCEPT !.installed = FALSE, !.files = {}, !.opts = {PO, PUninstall}, !.budgets = [PBounds EXCEPT !.cmds = 2, !.fail = 1, !.rescan = 1]] }
PMixScenarios == {[PS EXCEPT !.budgets = [PBounds EXCEPT !.rewrite = 1, !.replace = 1, !.delete = 1]]}
PAsked == IF Question = "sidecar" THEN PMixScenarios ELSE PScenarios
\* LogCap
GB(d, t, f, m) == [die |-> d, trunc |-> t, fail |-> f, move |-> m]
GL(d, u, p) == [daemon |-> d, updater |-> u, pid |-> p]
GS(b, m, s, l, k, f) == [budgets |-> b, mortal |-> m, start |-> s, lines |-> l, backups |-> k, flock |-> f]
GD == {"daemon"}
GScenarios == {
  GS(GB(1, 1, 0, 0), GD, GL(2, 0, 0), GL(4, 0, 0), TRUE, TRUE),
  GS(GB(2, 0, 0, 0), GD, GL(1, 0, 0), GL(3, 0, 0), TRUE, TRUE),
  GS(GB(0, 0, 1, 1), GD, GL(1, 0, 0), GL(3, 0, 0), TRUE, TRUE),
  GS(GB(0, 1, 1, 0), GD, GL(1, 0, 0), GL(4, 0, 0), TRUE, TRUE),
  GS(GB(1, 0, 0, 0), {"pid"}, GL(1, 1, 1), GL(1, 1, 1), TRUE, TRUE),
  GS(GB(1, 0, 1, 0), {"pid"}, GL(1, 0, 1), GL(1, 0, 2), TRUE, TRUE),
  GS(GB(1, 0, 0, 0), {"daemon", "pid"}, GL(1, 0, 2), GL(1, 0, 2), TRUE, TRUE),
  GS(GB(1, 0, 0, 0), {"pid"}, GL(1, 0, 1), GL(1, 0, 1), TRUE, FALSE),
  GS(GB(0, 0, 0, 0), GD, GL(1, 0, 0), GL(2, 0, 0), FALSE, TRUE)}

I == INSTANCE Ipc WITH Scenarios <- IScenarios, Client <- {"a", "b"}, MaxIPCClients <- 2,
       MaxConnsPerIPCClient <- 1, ipcMaxInflightPerClient <- 2, ipcSendBuffer <- 1,
       MaxConn <- 2, MaxCmds <- 4
Rest == CHOOSE s \in SScenarios : TRUE
S == INSTANCE Sender WITH sc <- Rest, left <- Rest.budgets
C == INSTANCE DaemonCtl WITH Scenarios <- CScenarios, Pid <- {1, 2, 3}, Cmd <- {"a", "b"}
L == INSTANCE Lifecycle WITH Scenarios <- LScenarios, drainTimeout <- 5, daemonStopBudget <- 8,
       pluginStopTimeout <- 5, supervisorExitDeadline <- 15
E == INSTANCE Egress WITH Scenarios <- EScenarios
P == INSTANCE Store WITH Scenarios <- PAsked, Cmd <- {1, 2}, File <- {"key", "journal", "owned"},
       Keep <- 1
G == INSTANCE LogCap WITH Scenarios <- GScenarios, Proc <- {"daemon", "updater", "pid"}, PidLog <- {"pid"},
       Keep <- 2

Ivars == <<cl, task, lst, conn, push, dgram, sent, stop>>
Svars == senderVars
Cvars == <<proc, pidFile, sock, ctl, agent, wish>>
Lvars == <<pc, have, apps, webhook, seen, sig, exitReq, exitAt, cause, stopper, begun, clock, code, unheard>>
Evars == <<step, plan, argv, penv, mode, final, via, relay, cred, dial, told>>
Pvars == <<dir, backups, val, cat, lock, cmd, fd, sup, want, raced, owed>>
Gvars == <<log, copy, tmp, gz, holder, place, up, rot, next, late, cut, aged, crashes, made>>
IV == <<sc, Ivars>>
SV == <<sc, left, Svars>>
CV == <<sc, left, Cvars>>
LV == <<sc, left, Lvars>>
EV == <<sc, left, Evars>>
PV == <<sc, left, Pvars>>
GV == <<sc, left, Gvars>>
allvars == <<case, sc, left, Ivars, Svars, Cvars, Lvars, Evars, Pvars, Gvars>>
IOff == cl = 0 /\ task = 0 /\ lst = 0 /\ conn = 0 /\ push = 0 /\ dgram = 0 /\ sent = 0 /\ stop = 0
SOff == S!Init
COff == proc = 0 /\ pidFile = 0 /\ sock = 0 /\ ctl = 0 /\ agent = 0 /\ wish = 0
LOff == pc = 0 /\ have = 0 /\ apps = 0 /\ webhook = 0 /\ seen = 0 /\ sig = 0 /\ exitReq = 0 /\ exitAt = 0 /\ cause = 0 /\ stopper = 0 /\ begun = 0 /\ clock = 0 /\ code = 0 /\ unheard = 0
EOff == step = 0 /\ plan = 0 /\ argv = 0 /\ penv = 0 /\ mode = 0 /\ final = 0 /\ via = 0 /\ relay = 0 /\ cred = 0 /\ dial = 0 /\ told = 0
POff == dir = 0 /\ backups = 0 /\ val = 0 /\ cat = 0 /\ lock = 0 /\ cmd = 0 /\ fd = 0 /\ sup = 0 /\ want = 0 /\ raced = 0 /\ owed = 0
GOff == log = 0 /\ copy = 0 /\ tmp = 0 /\ gz = 0 /\ holder = 0 /\ place = 0 /\ up = 0 /\ rot = 0 /\ next = 0 /\ late = 0 /\ cut = 0 /\ aged = 0 /\ crashes = 0 /\ made = 0

MCInit ==
  /\ case \in Cases
  /\ \/ case = "ipc" /\ I!Init /\ left = 0 /\ SOff /\ COff /\ LOff /\ EOff /\ POff /\ GOff
     \/ case = "sender" /\ Init /\ IOff /\ COff /\ LOff /\ EOff /\ POff /\ GOff
     \/ case = "daemonctl" /\ C!Init /\ IOff /\ SOff /\ LOff /\ EOff /\ POff /\ GOff
     \/ case = "lifecycle" /\ L!Init /\ IOff /\ SOff /\ COff /\ EOff /\ POff /\ GOff
     \/ case = "egress" /\ E!Init /\ IOff /\ SOff /\ COff /\ LOff /\ POff /\ GOff
     \/ case = "store" /\ P!Init /\ IOff /\ SOff /\ COff /\ LOff /\ EOff /\ GOff
     \/ case = "logcap" /\ G!Init /\ IOff /\ SOff /\ COff /\ LOff /\ EOff /\ POff
MCNext ==
  /\ UNCHANGED case
  /\ \/ case = "ipc" /\ I!Next /\ UNCHANGED <<left, Svars, Cvars, Lvars, Evars, Pvars, Gvars>>
     \/ case = "sender" /\ Next /\ UNCHANGED <<Ivars, Cvars, Lvars, Evars, Pvars, Gvars>>
     \/ case = "daemonctl" /\ C!Next /\ UNCHANGED <<Ivars, Svars, Lvars, Evars, Pvars, Gvars>>
     \/ case = "lifecycle" /\ L!Next /\ UNCHANGED <<Ivars, Svars, Cvars, Evars, Pvars, Gvars>>
     \/ case = "egress" /\ E!Next /\ UNCHANGED <<Ivars, Svars, Cvars, Lvars, Pvars, Gvars>>
     \/ case = "store" /\ P!Next /\ UNCHANGED <<Ivars, Svars, Cvars, Lvars, Evars, Gvars>>
     \/ case = "logcap" /\ G!Next /\ UNCHANGED <<Ivars, Svars, Cvars, Lvars, Evars, Pvars>>

\* The fairness of each module, in its case.
Fairness ==
  /\ \A c \in {"a", "b"} : WF_IV(case = "ipc" /\ I!ClientStep(c))
  /\ \A c \in {"a", "b"} : WF_IV(case = "ipc" /\ I!writeLoop(c))
  /\ \A c \in {"a", "b"} : WF_IV(case = "ipc" /\ I!PushDatagram(c))
  /\ \A c \in {"a", "b"}, k \in 1 .. 4 : WF_IV(case = "ipc" /\ k \in I!Cmd(c) /\ I!TaskStep(c, k))
  /\ WF_IV(case = "ipc" /\ I!CloseClients)
  /\ WF_IV(case = "ipc" /\ \E l \in DOMAIN lst : I!Acceptor(l))
  /\ WF_IV(case = "ipc" /\ \E i \in DOMAIN conn : I!startRecvPusher(i))
  /\ \A w \in {"a", "b"} : WF_SV(case = "sender" /\ UNCHANGED sc /\ WriterStep(w))
  /\ \A f \in {"f", "g"} : WF_SV(case = "sender" /\ UNCHANGED sc /\ FlusherStep(f))
  /\ WF_SV(case = "sender" /\ UNCHANGED sc /\ (CloseSendsTail \/ CloseConnection))
  /\ WF_SV(case = "sender" /\ UNCHANGED sc /\ RemoveConnection)
  /\ WF_CV(case = "daemonctl" /\ C!Commands)
  /\ WF_CV(case = "daemonctl" /\ C!Boots)
  /\ WF_CV(case = "daemonctl" /\ C!Exits)
  /\ WF_CV(case = "daemonctl" /\ C!KeepAlive)
  /\ WF_LV(case = "lifecycle" /\ L!Start)
  /\ WF_LV(case = "lifecycle" /\ L!Ends)
  /\ WF_LV(case = "lifecycle" /\ L!Tick)
  /\ \A c \in {1, 2} : WF_PV(case = "store" /\ UNCHANGED sc /\ P!Step(c))
  /\ \A p \in {"daemon", "updater", "pid"} : WF_GV(case = "logcap" /\ UNCHANGED sc /\ G!Round(p))
  /\ \A p \in {"daemon", "updater", "pid"} : WF_GV(case = "logcap" /\ UNCHANGED sc /\ G!Restarts(p))
MCSpec == MCInit /\ [][MCNext]_allvars /\ Fairness

-----------------------------------------------------------------------------
\* Ipc: what a client writes is handed to its connection in order and a close
\* takes effect after it (handleClient, handleSend); after the cleanup of a
\* client no port is bound for it and no connection it dialled is left
\* (handleClient's cleanup, handleDial).
IpcSound == case = "ipc" => I!TypeOK /\ I!WrittenInOrder /\ I!GoneOwnsNothing

\* DaemonCtl: commands that follow each other, none interrupted, leave at most
\* one daemon, and between them the PID file names it (cmdDaemonStart,
\* cmdDaemonStatus).
DaemonsSound == case = "daemonctl" => C!TypeOK /\ C!SerialOne /\ C!FileNamesDaemon




\* LogCap: a line leaves the disk only with a generation dropped by the limit
\* or in the gap between copy and truncation, wherever a process dies and
\* whoever finishes its copy (rotate, finishStaged, compress); a log keeps its
\* newest generations in order (shiftBackups, unshiftBackups); the copy of a
\* daemon that died is finished by the next rotation in its directory
\* (finishOrphans, holdStaged).
LogsSound == case = "logcap" => G!TypeOK /\ G!LinesKept /\ G!GenerationsKept /\ G!OrphanFinished


\* StateFollows of Store: what the running app wrote last is what the new
\* install holds when the upgrade reports success (carryAppState,
\* reconcileAppState).
StateFollows == [][case = "store" => P!Follows]_allvars

\* What each component comes to, again and again: clients that left are
\* cleaned up and those that stay have their answers (Ipc, writeLoop,
\* dispatch, Close); writes have returned and no remainder stays in the buffer
\* (Sender, flushHeldTail, sendSegment); a stopped daemon stays stopped
\* (DaemonCtl, cmdDaemonStop); shutdown is over, whatever hangs (Lifecycle,
\* requestSupervisorExit); every command has ended, also after one died
\* holding the install lock (Store, lockAppInstall); a log over its limit is
\* truncated, whatever failed before (LogCap, Check).
HostSettles ==
  []<>(CASE case = "ipc" -> I!ClientsServed
         [] case = "sender" -> Quiet
         [] case = "daemonctl" -> C!StoppedIsGone
         [] case = "lifecycle" -> L!Stopped
         [] case = "store" -> P!AllIdle
         [] case = "logcap" -> G!AllCapped
         [] OTHER -> TRUE)
=============================================================================
