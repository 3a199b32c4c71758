------------------------------ MODULE DaemonCtl ------------------------------
(***************************************************************************)
(* pilotctl daemon start, stop and status against the processes of one     *)
(* host: the PID file and its O_EXCL claim, the socket, PIDs the system    *)
(* uses again, crashed daemons and interrupted commands, and the launchd   *)
(* agent that owns the daemon on macOS.  A command is a sequence of file,  *)
(* process and socket operations that other commands interleave with.      *)
(***************************************************************************)
EXTENDS Integers, FiniteSets

CONSTANTS
  Pid,       \* process ids, numbers from 1
  Cmd,       \* pilotctl processes that run at the same time
  Scenarios  \* [serial, launchd, foreground] and budgets

VARIABLES
  sc, left,  \* the scenario and what is left of its budgets
  proc,      \* [Pid -> state]
  pidFile,   \* -1 absent, 0 without a usable PID, else a PID
  sock,      \* the process that bound the socket file, 0 for no file
  ctl,       \* [Cmd -> [op, pc, pid, found]]
  agent,     \* the launchd agent is loaded
  wish       \* history: the last start or stop that took effect

\* "boot", "up", "ending" (SIGTERM received) and "stuck" (it hangs) are daemons;
\* "other" is any other program.
State == {"free", "boot", "up", "ending", "stuck", "other"}
vars == <<sc, left, proc, pidFile, sock, ctl, agent, wish>>
Spend(b) == left[b] > 0 /\ left' = [left EXCEPT ![b] = @ - 1]
NoCmd == [op |-> "none", pc |-> "idle", pid |-> 0, found |-> FALSE]
Daemon(p) == proc[p] \in {"boot", "up", "ending", "stuck"}
Alive == {p \in Pid : Daemon(p)}
processExists(p) == p \in Pid /\ proc[p] # "free"
pidLooksLikeDaemon(p) == processExists(p) /\ Daemon(p)
\* driver.Connect: the socket's owner accepts.
Connects == sock # 0 /\ proc[sock] \in {"up", "stuck"}

Init ==
  /\ sc \in Scenarios /\ left = sc.budgets
  /\ proc = [p \in Pid |-> "free"] /\ pidFile = sc.file /\ sock = 0
  /\ ctl = [c \in Cmd |-> NoCmd] /\ agent = FALSE /\ wish = "none"

Idle == \A c \in Cmd : ctl[c] = NoCmd
Go(c, pc) == ctl' = [ctl EXCEPT ![c].pc = pc]
Ends(c) == ctl' = [ctl EXCEPT ![c] = NoCmd]
Begin(c, op, b) ==
  /\ ctl[c] = NoCmd /\ Spend(b) /\ (sc.serial => Idle)
  /\ ctl' = [ctl EXCEPT ![c] = [NoCmd EXCEPT !.op = op, !.pc = IF sc.launchd THEN "agent" ELSE "read"]]
  /\ UNCHANGED <<sc, proc, pidFile, sock, agent, wish>>
Is(c, op, pc) == ctl[c].op = op /\ ctl[c].pc = pc
\* readPID.
readPID(c, next, none) ==
  /\ ctl' = [ctl EXCEPT ![c].pid = IF pidFile > 0 THEN pidFile ELSE 0,
                        ![c].pc = IF pidFile > 0 THEN next ELSE none]
Removes(c, pc) == pidFile' = -1 /\ Go(c, pc)

----------------------------------------------------------------------------
(***************************************************************************)
(* cmdDaemonStart.                                                         *)
(***************************************************************************)

\* A daemon's PID refuses; a stale one is removed, and so is a file without
\* a usable PID.
StartReads(c) ==
  /\ Is(c, "start", "read") /\ readPID(c, "look", IF pidFile = -1 THEN "claim" ELSE "remove")
  /\ UNCHANGED <<left, proc, pidFile, sock, agent, wish>>
StartLooks_SocketOnly(c) ==
  /\ Is(c, "start", "look") /\ Go(c, IF Connects THEN "refused" ELSE "remove")
  /\ UNCHANGED <<left, proc, pidFile, sock, agent, wish>>
StartLooks(c) ==
  /\ Is(c, "start", "look")
  /\ Go(c, IF pidLooksLikeDaemon(ctl[c].pid) THEN "refused" ELSE "remove")
  /\ UNCHANGED <<left, proc, pidFile, sock, agent, wish>>
StartRemoves(c) ==
  /\ Is(c, "start", "remove") /\ Removes(c, "claim")
  /\ UNCHANGED <<left, proc, sock, agent, wish>>
\* O_CREAT|O_EXCL, with the "0" placeholder.
StartClaims(c) ==
  /\ Is(c, "start", "claim")
  /\ IF pidFile = -1 THEN pidFile' = 0 /\ Go(c, "socket") ELSE Go(c, "refused") /\ UNCHANGED pidFile
  /\ UNCHANGED <<left, proc, sock, agent, wish>>
\* A live socket refuses (the placeholder stays); a stale one is removed.
StartChecksSocket(c) ==
  /\ Is(c, "start", "socket")
  /\ IF Connects THEN Go(c, "refused") /\ UNCHANGED sock ELSE sock' = 0 /\ Go(c, "spawn")
  /\ UNCHANGED <<left, proc, pidFile, agent, wish>>
\* proc.Start, which may fail; then the PID is written.
StartSpawns(c) ==
  /\ Is(c, "start", "spawn") /\ ~sc.foreground
  /\ \/ /\ \E p \in Pid : /\ proc[p] = "free" /\ proc' = [proc EXCEPT ![p] = "boot"]
                          /\ ctl' = [ctl EXCEPT ![c].pc = "record", ![c].pid = p]
        /\ wish' = "start" /\ UNCHANGED left
     \/ Spend("failures") /\ Ends(c) /\ UNCHANGED <<proc, wish>>
  /\ UNCHANGED <<pidFile, sock, agent>>
StartRecords(c) ==
  /\ Is(c, "start", "record") /\ pidFile' = ctl[c].pid /\ Go(c, "wait")
  /\ UNCHANGED <<left, proc, sock, agent, wish>>
\* The child exited: the PID file is removed.  When the socket answers or the
\* deadline passes the daemon goes on.
StartWaits(c) ==
  /\ Is(c, "start", "wait") /\ Ends(c)
  /\ pidFile' = IF Daemon(ctl[c].pid) THEN pidFile ELSE -1
  /\ UNCHANGED <<left, proc, sock, agent, wish>>
\* --foreground: pilotctl writes its own PID, then becomes the daemon.
StartForeground(c) ==
  /\ sc.foreground
  /\ \/ /\ Is(c, "start", "spawn")
        /\ \E p \in Pid : /\ proc[p] = "free" /\ proc' = [proc EXCEPT ![p] = "other"] /\ pidFile' = p
                          /\ ctl' = [ctl EXCEPT ![c].pc = "exec", ![c].pid = p]
        /\ UNCHANGED wish
     \/ /\ Is(c, "start", "exec") /\ proc' = [proc EXCEPT ![ctl[c].pid] = "boot"] /\ Ends(c)
        /\ wish' = "start" /\ UNCHANGED pidFile
  /\ UNCHANGED <<left, sock, agent>>
Refused(c) ==
  /\ ctl[c].pc = "refused" /\ Ends(c) /\ UNCHANGED <<left, proc, pidFile, sock, agent, wish>>
\* The launchd agent: loaded already, or bootstrapped (the wait for its socket
\* changes nothing).
StartAgent(c) ==
  /\ Is(c, "start", "agent")
  /\ IF agent THEN Go(c, "refused") /\ UNCHANGED <<agent, wish>>
              ELSE Ends(c) /\ agent' = TRUE /\ wish' = "start"
  /\ UNCHANGED <<left, proc, pidFile, sock>>
cmdDaemonStart(c) ==
  \/ StartReads(c) \/ StartLooks(c) \/ StartRemoves(c) \/ StartClaims(c) \/ StartChecksSocket(c)
  \/ StartSpawns(c) \/ StartRecords(c) \/ StartWaits(c) \/ StartForeground(c) \/ Refused(c) \/ StartAgent(c)

----------------------------------------------------------------------------
(***************************************************************************)
(* cmdDaemonStop and cmdDaemonStatus.                                      *)
(***************************************************************************)

\* Without a PID the socket's owner is looked up, when the socket answers.
StopReads(c) ==
  /\ Is(c, "stop", "read")
  /\ IF pidFile > 0 THEN readPID(c, "look", "look")
     ELSE IF Connects THEN ctl' = [ctl EXCEPT ![c].pid = sock, ![c].found = TRUE, ![c].pc = "look"]
     ELSE Ends(c)
  /\ UNCHANGED <<left, proc, pidFile, sock, agent, wish>>
\* Only a daemon is signalled.
StopLooks(c) ==
  /\ Is(c, "stop", "look")
  /\ IF pidLooksLikeDaemon(ctl[c].pid)
     THEN Go(c, "wait") /\ proc' = [proc EXCEPT ![ctl[c].pid] = IF @ = "stuck" THEN @ ELSE "ending"]
          /\ UNCHANGED pidFile
     ELSE Ends(c) /\ UNCHANGED proc /\ (IF ctl[c].found THEN UNCHANGED pidFile ELSE pidFile' = -1)
  /\ UNCHANGED <<left, sock, agent, wish>>
StopWaits(c) ==
  /\ Is(c, "stop", "wait") /\ Ends(c) /\ pidFile' = -1 /\ wish' = "stop"
  /\ proc' = [proc EXCEPT ![ctl[c].pid] = IF @ \in {"ending", "stuck"} THEN "free" ELSE @]
  /\ UNCHANGED <<left, sock, agent>>
\* bootout unloads the agent and ends its daemon.
StopAgent(c) ==
  /\ Is(c, "stop", "agent")
  /\ IF agent
     THEN /\ agent' = FALSE /\ wish' = "stop" /\ Ends(c)
          /\ proc' = [p \in Pid |-> IF Daemon(p) THEN "ending" ELSE proc[p]]
     ELSE Go(c, "read") /\ UNCHANGED <<agent, wish, proc>>
  /\ UNCHANGED <<left, pidFile, sock>>
cmdDaemonStop(c) == StopReads(c) \/ StopLooks(c) \/ StopWaits(c) \/ StopAgent(c)

\* A PID file whose process is no daemon is removed when the socket is dead.
StatusReads(c) ==
  /\ ctl[c].op = "status" /\ ctl[c].pc \in {"read", "agent"} /\ readPID(c, "look", "look")
  /\ UNCHANGED <<left, proc, pidFile, sock, agent, wish>>
StatusLooks(c) ==
  /\ Is(c, "status", "look")
  /\ ctl' = [ctl EXCEPT ![c].found = pidLooksLikeDaemon(ctl[c].pid), ![c].pc = "info"]
  /\ UNCHANGED <<left, proc, pidFile, sock, agent, wish>>
StatusCleans(c) ==
  /\ Is(c, "status", "info") /\ Ends(c)
  /\ pidFile' = IF ~Connects /\ ~ctl[c].found /\ ctl[c].pid > 0 THEN -1 ELSE pidFile
  /\ UNCHANGED <<left, proc, sock, agent, wish>>
cmdDaemonStatus(c) == StatusReads(c) \/ StatusLooks(c) \/ StatusCleans(c)

Command(c) == (cmdDaemonStart(c) \/ cmdDaemonStop(c) \/ cmdDaemonStatus(c)) /\ UNCHANGED sc
Commands == \E c \in Cmd : Command(c)
\* The user starts a command, or interrupts one.
Typed ==
  \E c \in Cmd : Begin(c, "start", "starts") \/ Begin(c, "stop", "stops") \/ Begin(c, "status", "statuses")
Interrupted ==
  /\ Spend("kills") /\ \E c \in Cmd : ctl[c] # NoCmd /\ ctl[c].pc # "exec" /\ Ends(c)
  /\ UNCHANGED <<sc, proc, pidFile, sock, agent, wish>>

----------------------------------------------------------------------------
(***************************************************************************)
(* The processes: a daemon binds the socket once it registered, crashes,   *)
(* hangs, or ends on SIGTERM; its PID is used again; launchd starts the    *)
(* agent's daemon whenever it is not running.                              *)
(***************************************************************************)

Others == UNCHANGED <<sc, pidFile, ctl, agent, wish>>
Becomes(p, s) == proc' = [proc EXCEPT ![p] = s]
Boots == \E p \in Pid : proc[p] = "boot" /\ Becomes(p, "up") /\ sock' = p /\ UNCHANGED left /\ Others
Crashes ==
  \E p \in Pid : /\ proc[p] \in {"boot", "up"} /\ Spend("crashes")
                 /\ \E s \in {"free", "stuck"} : Becomes(p, s)
                 /\ UNCHANGED sock /\ Others
Exits == \E p \in Pid : proc[p] = "ending" /\ Becomes(p, "free") /\ UNCHANGED <<left, sock>> /\ Others
PidReused ==
  \E p \in Pid : proc[p] = "free" /\ Spend("reuses") /\ Becomes(p, "other") /\ UNCHANGED sock /\ Others
KeepAlive ==
  /\ agent /\ Alive = {}
  /\ \E p \in Pid : proc[p] = "free" /\ Becomes(p, "boot") /\ UNCHANGED <<left, sock>> /\ Others

Next == Commands \/ Typed \/ Interrupted \/ Boots \/ Crashes \/ Exits \/ PidReused \/ KeepAlive
\* Commands run to their end, SIGTERM ends a daemon that does not hang, and
\* launchd keeps its agent alive.
Fairness == WF_vars(Commands) /\ WF_vars(Boots) /\ WF_vars(Exits) /\ WF_vars(KeepAlive)
Spec == Init /\ [][Next]_vars /\ Fairness

----------------------------------------------------------------------------
TypeOK ==
  /\ proc \in [Pid -> State] /\ pidFile \in Pid \cup {-1, 0} /\ sock \in Pid \cup {0}
  /\ \A c \in Cmd : ctl[c].pid \in Pid \cup {0}

\* No command ends a process that is not a daemon, however stale the PID file
\* and whoever has the PID now (pidLooksLikeDaemon).
SparesOthers == \A p \in Pid : proc[p] = "other" => proc'[p] \in {"other", "boot"}
NoBystander == [][SparesOthers]_vars

\* One command at a time, none of them interrupted: there is one daemon.
SerialOne == sc.serial /\ sc.budgets.kills = 0 => Cardinality(Alive) <= 1

\* One command at a time: a start is refused only while a daemon runs.  No
\* crash, interrupted command or reused PID leaves a file that locks it out.
RefusedRight ==
  sc.serial => \A c \in Cmd : (ctl'[c].pc = "refused" /\ ctl[c].pc # "refused") => Alive # {} \/ agent
RefusedWhileRunning == [][RefusedRight]_vars

\* One command at a time, none interrupted: between commands the PID file names
\* the daemon a start left running, so that stop and start find it.
FileNamesDaemon ==
  (sc.serial /\ ~sc.launchd /\ sc.budgets.kills = 0 /\ Idle) => \A p \in Alive : pidFile = p

\* One command at a time, none interrupted: a daemon that was stopped stays
\* stopped until the next start, whether launchd keeps it alive or it hangs.
StoppedIsGone == (sc.serial /\ sc.budgets.kills = 0 /\ Idle /\ wish = "stop") => Alive = {}
StopHolds == []<>StoppedIsGone

=============================================================================
