--------------------------------- MODULE Wss ---------------------------------
(***************************************************************************)
(* The compat-mode transport: one WebSocket connection to the beacon, its  *)
(* supervisor (reads, and reconnects), the idle pings, a sender, the       *)
(* tunnel's read loop behind a bounded channel, and Close against all of   *)
(* them.  A connection is the number it was dialled with; every step is    *)
(* one locked region, channel operation or blocking call.                  *)
(***************************************************************************)
EXTENDS Integers

CONSTANTS
  Scenarios,   \* budgets: dials, faults, outages, frames, sends, rotations, stops
  RecvBuffer,  \* capacity of the transport's channel
  RecvChSize   \* capacity of the tunnel's channel

VARIABLES
  sc, left,  \* the scenario and what is left of its budgets
  beacon,    \* the beacon accepts connections
  wire,      \* connections dialled: "ok", "half" (open), "dead", "closed" here
  conn,      \* t.conn, 0 for nil
  sup,       \* supervise: [pc, c]
  pinger,    \* idlePing: [pc, c]
  sender,    \* a goroutine in Send: [pc, c]
  writeMu,   \* its holder: "free", "send", "ping"
  recvCh,    \* frames in the transport's channel
  goodbye,   \* its last item is ErrClosed
  reader,    \* readLoop: "recv", "push", "gone"
  queue,     \* packets in the tunnel's channel
  taking,    \* routeLoop runs
  done,      \* tm.done closed
  closing,   \* Close: "no", "done", "flag", "take", "wait", "read", "returned"
  keyLive    \* the identity the transport was given still is the node's

vars == <<sc, left, beacon, wire, conn, sup, pinger, sender, writeMu, recvCh, goodbye, reader,
          queue, taking, done, closing, keyLive>>
Spend(b) == left[b] > 0 /\ left' = [left EXCEPT ![b] = @ - 1]
Dialled == DOMAIN wire
closed == closing \in {"take", "wait", "read", "returned"}
At(pc, c) == [pc |-> pc, c |-> c]
Broken(c) == wire[c] \in {"dead", "closed"}
\* conn.Close on this side.
CloseWire(c) == wire' = [wire EXCEPT ![c] = "closed"]
\* The locked compare and clear of t.conn after a failure on c.
ClearConn_Always(c) == conn' = 0
ClearConn(c) == conn' = IF conn = c THEN 0 ELSE conn

\* Dial authenticated the first connection.
Init ==
  /\ sc \in Scenarios /\ left = sc.budgets
  /\ beacon = TRUE /\ wire = [c \in {1} |-> "ok"] /\ conn = 1
  /\ sup = At("top", 0) /\ pinger = At("wait", 0) /\ sender = At("idle", 0)
  /\ writeMu = "free" /\ recvCh = 0 /\ goodbye = FALSE /\ reader = "recv" /\ queue = 0
  /\ taking = TRUE /\ done = FALSE /\ closing = "no" /\ keyLive = TRUE

----------------------------------------------------------------------------
(***************************************************************************)
(* supervise and drainReads.                                               *)
(***************************************************************************)

SupTop ==
  /\ sup.pc = "top"
  /\ sup' = IF closed THEN At("gone", 0) ELSE IF conn = 0 THEN At("sleep", 0) ELSE At("read", conn)
  /\ UNCHANGED <<wire, conn, recvCh, goodbye>>
\* drainReads: a frame arrives.
DrainFrame ==
  /\ sup.pc = "read" /\ ~closed /\ wire[sup.c] = "ok" /\ sup' = [sup EXCEPT !.pc = "push"]
  /\ UNCHANGED <<wire, conn, recvCh, goodbye>>
\* Nothing but room ends the send: superviseDoneCh is closed by this goroutine.
DrainPush ==
  /\ sup.pc = "push" /\ recvCh < RecvBuffer
  /\ recvCh' = recvCh + 1 /\ sup' = [sup EXCEPT !.pc = "read"]
  /\ UNCHANGED <<wire, conn, goodbye>>
\* drainReads returns: closed before or during the read (the item then is
\* dropped when the channel is full), or the connection broke.
DrainEnds ==
  /\ sup.pc = "read"
  /\ \/ /\ closed /\ sup' = At("gone", 0) /\ UNCHANGED <<recvCh, goodbye>>
     \/ /\ closed /\ sup' = At("gone", 0)
        /\ recvCh < RecvBuffer /\ recvCh' = recvCh + 1 /\ goodbye' = TRUE
     \/ /\ ~closed /\ Broken(sup.c) /\ sup' = [sup EXCEPT !.pc = "lost"]
        /\ UNCHANGED <<recvCh, goodbye>>
  /\ UNCHANGED <<wire, conn>>
SupLost ==
  /\ sup.pc = "lost"
  /\ IF closed THEN sup' = At("gone", 0) /\ UNCHANGED <<wire, conn>>
               ELSE sup' = At("sleep", 0) /\ ClearConn(sup.c) /\ CloseWire(sup.c)
  /\ UNCHANGED <<recvCh, goodbye>>
\* sleepOrClosed: the backoff, or the poll of the closed flag.
SupSleep ==
  /\ sup.pc = "sleep"
  /\ \/ closed /\ sup' = At("gone", 0)
     \/ sup' = At("dial", 0)
  /\ UNCHANGED <<wire, conn, recvCh, goodbye>>

\* dialAndAuth: the beacon accepts the connection and the key it signs with.
runAuth == keyLive
SupDial ==
  /\ sup.pc = "dial"
  /\ IF ~closed /\ beacon /\ runAuth /\ left.dials > 0
     THEN /\ Spend("dials")
          /\ LET c == left.dials
             IN  wire' = [d \in Dialled \cup {c + 1} |-> IF d = c + 1 THEN "ok" ELSE wire[d]]
          /\ sup' = At("dialled", left.dials + 1)
     ELSE /\ sup' = At("failed", 0) /\ UNCHANGED <<wire, left>>
  /\ UNCHANGED <<conn, recvCh, goodbye>>
\* The closed flag is read after the dial; a failed one backs off again.
SupChecks ==
  /\ sup.pc \in {"dialled", "failed"}
  /\ IF sup.pc = "dialled" /\ closed THEN CloseWire(sup.c) ELSE UNCHANGED wire
  /\ sup' = IF closed THEN At("gone", 0)
            ELSE IF sup.pc = "failed" THEN At("top", 0) ELSE [sup EXCEPT !.pc = "install"]
  /\ UNCHANGED <<conn, recvCh, goodbye>>
SupInstall ==
  /\ sup.pc = "install" /\ conn' = sup.c /\ sup' = At("top", 0)
  /\ UNCHANGED <<wire, recvCh, goodbye>>

SupSteps == SupTop \/ DrainPush \/ DrainEnds \/ SupLost \/ SupSleep \/ SupChecks \/ SupInstall
supervise ==
  /\ \/ SupSteps /\ UNCHANGED left
     \/ DrainFrame /\ Spend("frames")
     \/ SupDial
  /\ UNCHANGED <<sc, beacon, pinger, sender, writeMu, reader, queue, taking, done, closing, keyLive>>

----------------------------------------------------------------------------
(***************************************************************************)
(* idlePing and Send.                                                      *)
(***************************************************************************)

\* A pong is seen only while the supervisor reads that connection; without
\* one the ping ends with its timeout, and with Close.
Ponged(c) == wire[c] = "ok" /\ sup = At("read", c)
PingTick ==
  /\ pinger.pc = "wait"
  /\ \/ closed /\ pinger' = At("gone", 0)
     \/ ~closed /\ conn # 0 /\ pinger' = At("lock", conn)
  /\ UNCHANGED <<wire, conn, writeMu>>
PingLock ==
  /\ pinger.pc = "lock" /\ writeMu = "free" /\ writeMu' = "ping"
  /\ pinger' = [pinger EXCEPT !.pc = "pong"] /\ UNCHANGED <<wire, conn>>
PingReturns ==
  /\ pinger.pc = "pong" /\ writeMu' = "free"
  /\ pinger' = IF Ponged(pinger.c) THEN At("wait", 0) ELSE [pinger EXCEPT !.pc = "failed"]
  /\ UNCHANGED <<wire, conn>>
PingFailed ==
  /\ pinger.pc = "failed" /\ UNCHANGED writeMu
  /\ IF closed THEN pinger' = At("gone", 0) /\ UNCHANGED <<wire, conn>>
               ELSE pinger' = At("wait", 0) /\ ClearConn(pinger.c) /\ CloseWire(pinger.c)
idlePing ==
  /\ PingTick \/ PingLock \/ PingReturns \/ PingFailed
  /\ UNCHANGED <<sc, left, beacon, sup, sender, recvCh, goodbye, reader, queue, taking, done, closing, keyLive>>

SendBegins ==
  /\ sender.pc = "idle" /\ ~closed /\ Spend("sends")
  /\ sender' = IF conn = 0 THEN sender ELSE At("lock", conn)   \* ErrReconnecting
  /\ UNCHANGED <<conn, writeMu>>
SendLock ==
  /\ sender.pc = "lock" /\ writeMu = "free" /\ writeMu' = "send"
  /\ sender' = [sender EXCEPT !.pc = "write"] /\ UNCHANGED <<left, conn>>
\* conn.Write has no deadline: on a half-open connection it returns once the
\* kernel buffers the frame, or stays until the kernel gives the peer up.
SendWrites ==
  /\ sender.pc = "write" /\ writeMu' = "free" /\ UNCHANGED <<left, conn>>
  /\ sender' = IF Broken(sender.c) THEN [sender EXCEPT !.pc = "failed"] ELSE At("idle", 0)
SendFailed ==
  /\ sender.pc = "failed" /\ sender' = At("idle", 0) /\ UNCHANGED <<left, writeMu>>
  /\ IF closed THEN UNCHANGED conn ELSE ClearConn(sender.c)
SendOthers ==
  UNCHANGED <<sc, beacon, wire, sup, pinger, recvCh, goodbye, reader, queue, taking, done, closing, keyLive>>
SendGoes == (SendLock \/ SendWrites \/ SendFailed) /\ SendOthers
Send == (SendBegins /\ SendOthers) \/ SendGoes
\* The kernel gives up a peer that leaves data unacknowledged.
KernelGivesUp ==
  /\ \E c \in Dialled : wire[c] = "half" /\ wire' = [wire EXCEPT ![c] = "dead"]
  /\ UNCHANGED <<sc, left, beacon, conn, sup, pinger, sender, writeMu, recvCh, goodbye, reader, queue, taking,
                 done, closing, keyLive>>

----------------------------------------------------------------------------
(***************************************************************************)
(* The tunnel: readLoop, routeLoop, and Close.                             *)
(***************************************************************************)

\* Recv: a frame, or the end (ErrClosed, or the closed channel).
ReadRecv ==
  /\ reader = "recv"
  /\ \/ recvCh > (IF goodbye THEN 1 ELSE 0) /\ recvCh' = recvCh - 1 /\ reader' = "push" /\ UNCHANGED goodbye
     \/ recvCh = 1 /\ goodbye /\ recvCh' = 0 /\ goodbye' = FALSE /\ reader' = "gone"
     \/ recvCh = 0 /\ closing = "read" /\ reader' = "gone" /\ UNCHANGED <<recvCh, goodbye>>
  /\ UNCHANGED queue
\* A relayed frame is pushed to the tunnel's channel or, once done is closed,
\* may be dropped; the loop goes on either way.
ReadPush ==
  /\ reader = "push" /\ reader' = "recv" /\ UNCHANGED <<recvCh, goodbye>>
  /\ \/ queue < RecvChSize /\ queue' = queue + 1
     \/ done /\ UNCHANGED queue
readLoop ==
  /\ ReadRecv \/ ReadPush
  /\ UNCHANGED <<sc, left, beacon, wire, conn, sup, pinger, sender, writeMu, taking, done, closing, keyLive>>
routeLoop ==
  /\ taking /\ queue > 0 /\ queue' = queue - 1
  /\ UNCHANGED <<sc, left, beacon, wire, conn, sup, pinger, sender, writeMu, recvCh, goodbye, reader,
                 taking, done, closing, keyLive>>

\* doStop ends the loops, then closes the tunnel: done, the transport (flag
\* and context, the connection, the supervisor's end, the channel), readLoop.
StopRoutes ==
  /\ closing = "no" /\ taking /\ Spend("stops") /\ taking' = FALSE
  /\ UNCHANGED <<sc, beacon, wire, conn, sup, pinger, sender, writeMu, recvCh, goodbye, reader, queue,
                 done, closing, keyLive>>
CloseStep(from, to) == closing = from /\ closing' = to
Close ==
  /\ \/ CloseStep("no", "flag") /\ ~taking /\ done' = TRUE /\ UNCHANGED <<conn, wire>>
     \/ CloseStep("flag", "take") /\ UNCHANGED <<done, conn, wire>>
     \/ /\ CloseStep("take", "wait") /\ conn' = 0 /\ UNCHANGED done
        /\ IF conn = 0 THEN UNCHANGED wire ELSE CloseWire(conn)
     \/ CloseStep("wait", "read") /\ sup.pc = "gone" /\ UNCHANGED <<done, conn, wire>>
     \/ CloseStep("read", "returned") /\ reader = "gone" /\ UNCHANGED <<done, conn, wire>>
  /\ UNCHANGED <<sc, left, beacon, sup, pinger, sender, writeMu, recvCh, goodbye, reader, queue, taking, keyLive>>

----------------------------------------------------------------------------
(***************************************************************************)
(* The network, the beacon and RotateKey, which zeroes the private key the *)
(* transport signs with and hands it no other.                             *)
(***************************************************************************)

WireFails ==
  /\ Spend("faults")
  /\ \E c \in Dialled, s \in {"half", "dead"} : wire[c] = "ok" /\ wire' = [wire EXCEPT ![c] = s]
  /\ UNCHANGED <<sc, beacon, conn, sup, pinger, sender, writeMu, recvCh, goodbye, reader, queue, taking,
                 done, closing, keyLive>>
BeaconFlips ==
  /\ IF beacon THEN Spend("outages") ELSE UNCHANGED left
  /\ beacon' = ~beacon
  /\ UNCHANGED <<sc, wire, conn, sup, pinger, sender, writeMu, recvCh, goodbye, reader, queue, taking,
                 done, closing, keyLive>>
RotateKey ==
  /\ keyLive /\ Spend("rotations") /\ keyLive' = FALSE
  /\ UNCHANGED <<sc, beacon, wire, conn, sup, pinger, sender, writeMu, recvCh, goodbye, reader, queue,
                 taking, done, closing>>

Next ==
  \/ supervise \/ idlePing \/ Send \/ readLoop \/ routeLoop \/ StopRoutes \/ Close
  \/ WireFails \/ KernelGivesUp \/ BeaconFlips \/ RotateKey
\* Goroutines that can run do; the ping ticker ticks; an outage ends.  A write
\* on a half-open connection need not return before the kernel gives it up.
Stuck == sender.pc = "write" /\ wire[sender.c] = "half"
BeaconBack == ~beacon /\ BeaconFlips
Fairness ==
  /\ WF_vars(supervise) /\ WF_vars(idlePing) /\ WF_vars(~Stuck /\ SendGoes)
  /\ WF_vars(Stuck /\ KernelGivesUp) /\ WF_vars(readLoop) /\ WF_vars(routeLoop) /\ WF_vars(Close)
  /\ WF_vars(BeaconBack)
Spec == Init /\ [][Next]_vars /\ Fairness

----------------------------------------------------------------------------
TypeOK ==
  /\ conn \in Dialled \cup {0} /\ recvCh \in 0 .. RecvBuffer /\ queue \in 0 .. RecvChSize
  /\ writeMu \in {"free", "send", "ping"} /\ (goodbye => recvCh > 0)
  /\ \A c \in Dialled : wire[c] \in {"ok", "half", "dead", "closed"}

\* However a connection is lost (broken, silently half open, while a frame is
\* being written or the beacon is away), the transport comes back with one
\* that works, without traffic, and without the kernel's help unless a
\* write waits for it (supervise, idlePing).  After RotateKey it need not:
\* the transport keeps the identity whose key RotateKey has zeroed.
Connected == (conn # 0 /\ wire[conn] = "ok") \/ closed \/ ~keyLive \/ left.dials = 0
HealsItself == []<>Connected

\* A connection that works is given up only by Close, or by a ping whose pong
\* was not read: never by a late failure on the one it replaced (Send).
FreshKept ==
  (conn # 0 /\ conn' # conn /\ wire[conn] = "ok") => closed \/ pinger = At("failed", conn)
NewConnKept == [][FreshKept]_vars

\* Close returns, with the channels full and a reconnect in progress: neither
\* the supervisor nor the read loop waits for somebody who is gone.
Ends == closing \in {"no", "returned"}
CloseEnds == []<>Ends
=============================================================================
