---------------------------- MODULE HandshakePoll ----------------------------
(***************************************************************************)
(* When the handshakes relayed through the registry are fetched: the       *)
(* schedule (handshakePollSched), the loop that follows it, the beacon's   *)
(* pokes, the local clients' on-demand polls and the shutdown.  The        *)
(* registry empties this node's inbox as it answers, so a reply that does  *)
(* not arrive or is not processed is lost.                                 *)
(***************************************************************************)
EXTENDS Integers, FiniteSets

CONSTANTS
  Peer,                 \* peers this node sends handshake requests to
  MaxParked,            \* bound: relayed messages, 1 .. MaxParked
  MaxRequests,          \* bound: requests this node sends
  MaxFailed,            \* bound: polls whose call fails
  handshakeMaxWaiting,
  handshakePokeBurst

VARIABLES
  inbox,    \* the registry's inbox of this node: answers from peers
  parked,   \* bound: messages parked so far
  asked,    \* bound: requests sent so far
  failed,   \* bound: calls that failed so far
  since,    \* time since lastPoll: "recent", "almost" the gap, or "old"
  pokeDue, tokens, closed,
  waiting,  \* handshakePollSched.waiting: "none", "open", or "held" (rearm)
  poll,     \* the poll in flight: "none", "called", or what it brought
  extra,    \* the loop's extra timer: "off", "armed", "ripe"
  wake,     \* the wake channel
  settling, \* fastActive between its two locked parts: peers found trusted
  client,   \* a local client's on-demand poll: "idle", "checked" stopping, or "waits"
  trusted,  \* the handshake manager: peers whose approval it processed
  stop,     \* doStop: "no", "waits", "cut" (deadline passed), "done"
  owed,     \* history: a poke took a token and no poll has started since
  answers,  \* history: peers whose answer was parked for this node
  lost      \* history: answers in replies that did not arrive

vars == <<inbox, parked, asked, failed, since, pokeDue, tokens, closed, waiting, poll, extra, wake,
          settling, client, trusted, stop, owed, answers, lost>>
sched == <<since, pokeDue, tokens, closed, waiting>>
world == <<inbox, parked, asked, failed, answers, lost>>

None == {"none"}
Init ==
  /\ inbox = {} /\ parked = 0 /\ asked = 0 /\ failed = 0
  /\ since = "old" /\ pokeDue = FALSE /\ tokens = handshakePokeBurst /\ closed = FALSE
  /\ waiting = [p \in Peer |-> "none"]
  /\ poll = None /\ extra = "off" /\ wake = FALSE /\ settling = {} /\ client = "idle"
  /\ trusted = {} /\ stop = "no" /\ owed = FALSE /\ answers = {} /\ lost = {}

Running == poll # None
stopping == stop # "no"
Open == {p \in Peer : waiting[p] = "open"}

----------------------------------------------------------------------------
(***************************************************************************)
(* The schedule.                                                           *)
(***************************************************************************)

requestSent_NoWake(p, explicit) ==
  LET full == Cardinality({q \in Peer : waiting[q] # "none"}) >= handshakeMaxWaiting
      gone == {q \in Peer : waiting[q] = "held"}
  IN  \/ /\ waiting[p] = "none" /\ ~full
         /\ waiting' = [waiting EXCEPT ![p] = "open"] /\ UNCHANGED wake
      \/ /\ waiting[p] = "none" /\ full /\ gone # {}
         /\ \E q \in gone : waiting' = [waiting EXCEPT ![q] = "none", ![p] = "open"]
         /\ UNCHANGED wake
      \/ /\ waiting[p] = "held" /\ explicit
         /\ waiting' = [waiting EXCEPT ![p] = "open"] /\ UNCHANGED wake
      \/ /\ \/ waiting[p] = "open"
            \/ waiting[p] = "held" /\ ~explicit
            \/ waiting[p] = "none" /\ full /\ gone = {}
         /\ UNCHANGED <<waiting, wake>>
\* requestSent: a window is not restarted while open, nor by an automatic
\* request before its rearm time; at the cap an entry that only holds its
\* rearm time makes room.
requestSent(p, explicit) ==
  LET full == Cardinality({q \in Peer : waiting[q] # "none"}) >= handshakeMaxWaiting
      gone == {q \in Peer : waiting[q] = "held"}
  IN  \/ /\ waiting[p] = "none" /\ ~full
         /\ waiting' = [waiting EXCEPT ![p] = "open"] /\ wake' = TRUE
      \/ /\ waiting[p] = "none" /\ full /\ gone # {}
         /\ \E q \in gone : waiting' = [waiting EXCEPT ![q] = "none", ![p] = "open"]
         /\ wake' = TRUE
      \/ /\ waiting[p] = "held" /\ explicit
         /\ waiting' = [waiting EXCEPT ![p] = "open"] /\ wake' = TRUE
      \/ /\ \/ waiting[p] = "open"
            \/ waiting[p] = "held" /\ ~explicit
            \/ waiting[p] = "none" /\ full /\ gone = {}
         /\ UNCHANGED <<waiting, wake>>
\* HandshakeSendRequest and handshakeRequestSent, for a peer not yet trusted.
handshakeRequestSent(p, explicit) ==
  /\ asked < MaxRequests /\ p \notin trusted
  /\ asked' = asked + 1
  /\ requestSent(p, explicit)
  /\ UNCHANGED <<inbox, parked, failed, since, pokeDue, tokens, closed, poll, extra, settling,
                 client, trusted, stop, owed, answers, lost>>
\* The window, then the rearm time, of a request passes.
WindowPasses(p) ==
  /\ waiting[p] # "none"
  /\ waiting' = [waiting EXCEPT ![p] = IF @ = "open" THEN "held" ELSE "none"]
  /\ UNCHANGED <<world, since, pokeDue, tokens, closed, poll, extra, wake, settling, client,
                 trusted, stop, owed>>

\* poke: one poll owed at a time, from a token bucket.
poke ==
  IF pokeDue \/ tokens = 0 THEN UNCHANGED <<pokeDue, tokens, wake, owed>>
  ELSE pokeDue' = TRUE /\ tokens' = tokens - 1 /\ wake' = TRUE /\ owed' = TRUE

\* begin: the caller starts a poll unless one is in flight or started within
\* the gap; nothing starts once the schedule is closed.
Elapsed(gap) == since = "old" \/ (gap = "slack" /\ since = "almost") \/ gap = "zero"
begin_Unclosed(gap) == ~Running /\ Elapsed(gap)
begin(gap) == ~Running /\ ~closed /\ Elapsed(gap)
pollHandshakes(gap) ==
  IF begin(gap)
  THEN since' = "recent" /\ pokeDue' = FALSE /\ poll' = {"called"} /\ owed' = FALSE
  ELSE UNCHANGED <<since, pokeDue, poll, owed>>

\* pokeWait's answer "now".
pokeReady == pokeDue /\ ~Running /\ since = "old"
----------------------------------------------------------------------------
(***************************************************************************)
(* The poll in flight.                                                     *)
(***************************************************************************)

\* pollRelayedHandshakes: the registry answers and empties the inbox; or the
\* call fails, which brings nothing, and the registry may have answered and
\* emptied the inbox all the same (the connection broke, the client's read
\* deadline passed, or doStop closed it).
Replies ==
  /\ poll' = {"got"} \cup inbox /\ inbox' = {}
  /\ UNCHANGED <<failed, lost>>
Fails ==
  /\ failed < MaxFailed /\ failed' = failed + 1
  /\ poll' = {"got"}
  /\ \/ UNCHANGED <<inbox, lost>>
     \/ inbox' = {} /\ lost' = lost \cup inbox
RegistryAnswers ==
  /\ poll = {"called"}
  /\ Replies \/ Fails
  /\ UNCHANGED <<parked, asked, sched, extra, wake, settling, client, trusted, stop, owed, answers>>
\* The answers are processed, and end wakes the loop.
end == poll' = None /\ wake' = TRUE /\ UNCHANGED pokeDue
PollProcesses ==
  /\ "got" \in poll
  /\ LET from == poll \cap Peer
     IN  /\ waiting' = [p \in Peer |-> IF p \in from /\ waiting[p] = "open" THEN "held" ELSE waiting[p]]
         /\ trusted' = IF stop \in {"no", "waits"} THEN trusted \cup from ELSE trusted
  /\ end
  /\ UNCHANGED <<world, since, tokens, closed, extra, settling, client, stop, owed>>

----------------------------------------------------------------------------
(***************************************************************************)
(* handshakePollLoop.                                                      *)
(***************************************************************************)

\* What ends every round: the extra timer is armed for a poll owed to a
\* poke or for the next fast poll, and stopped when neither is wanted.
\* fastActive looks at trust without the lock and settles what it found.
Armed(x, due) ==
  LET wanted == due \/ Open \ trusted # {}
  IN  IF ~wanted THEN "off" ELSE IF x = "off" THEN "armed" ELSE x
settle == settling' = Open \cap trusted

LoopExits == stopping
WakeRound ==
  /\ wake /\ ~LoopExits /\ settling = {}
  /\ wake' = FALSE
  /\ IF pokeReady THEN pollHandshakes("gap") ELSE UNCHANGED <<since, pokeDue, poll, owed>>
  /\ extra' = Armed(extra, pokeDue') /\ settle
  /\ UNCHANGED <<world, tokens, closed, waiting, client, trusted, stop>>
ExtraRound ==
  /\ extra = "ripe" /\ ~LoopExits /\ settling = {}
  /\ IF pokeReady \/ Open \ trusted # {}
     THEN pollHandshakes("slack") ELSE UNCHANGED <<since, pokeDue, poll, owed>>
  /\ extra' = Armed("off", pokeDue') /\ settle
  /\ UNCHANGED <<world, tokens, closed, waiting, wake, client, trusted, stop>>
\* The baseline: one poll per keepalive interval.
TickRound ==
  /\ ~LoopExits /\ settling = {} /\ since = "old"
  /\ pollHandshakes("zero")
  /\ extra' = Armed(extra, pokeDue') /\ settle
  /\ UNCHANGED <<world, tokens, closed, waiting, wake, client, trusted, stop>>
\* The second locked part of fastActive.
Settle ==
  /\ settling # {}
  /\ waiting' = [p \in Peer |-> IF p \in settling /\ waiting[p] # "none" THEN "held" ELSE waiting[p]]
  /\ settling' = {}
  /\ UNCHANGED <<world, since, pokeDue, tokens, closed, poll, extra, wake, client, trusted, stop, owed>>

\* Time passes: the gap since the last poll; a timer armed before it is up.
TimePasses ==
  /\ since # "old" \/ extra = "armed" \/ tokens < handshakePokeBurst
  /\ since' = IF since = "recent" THEN "almost" ELSE "old"
  /\ extra' = IF extra = "armed" THEN "ripe" ELSE extra
  /\ tokens' \in {tokens, IF tokens < handshakePokeBurst THEN tokens + 1 ELSE tokens}
  /\ <<since', extra', tokens'>> # <<since, extra, tokens>>
  /\ UNCHANGED <<world, pokeDue, closed, waiting, poll, wake, settling, client, trusted, stop, owed>>

----------------------------------------------------------------------------
(***************************************************************************)
(* The others: peers, the beacon, local clients and the shutdown.          *)
(***************************************************************************)

\* A peer's answer is parked at the registry; the beacon pokes this node, or
\* the poke is lost.
Parks(p, poked) ==
  /\ parked < MaxParked /\ p \notin inbox
  /\ parked' = parked + 1 /\ inbox' = inbox \cup {p} /\ answers' = answers \cup {p}
  /\ IF poked THEN poke ELSE UNCHANGED <<pokeDue, tokens, wake, owed>>
  /\ UNCHANGED <<asked, failed, since, closed, waiting, poll, extra, settling, client, trusted,
                 stop, lost>>
\* pollHandshakesOnDemand: a client starts a poll or waits for the one in
\* flight (it looked at stopping before), until it ends, its time is up or the daemon stops.
ClientAsks ==
  /\ client = "idle" /\ ~stopping
  /\ client' = "checked"
  /\ UNCHANGED <<world, sched, poll, extra, wake, settling, trusted, stop, owed>>
ClientBegins ==
  /\ client = "checked"
  /\ pollHandshakes("gap")
  /\ client' = IF poll' # None THEN "waits" ELSE "idle"
  /\ UNCHANGED <<world, tokens, closed, waiting, extra, wake, settling, trusted, stop>>
ClientDone ==
  /\ client = "waits"
  /\ client' = "idle"
  /\ UNCHANGED <<world, sched, poll, extra, wake, settling, trusted, stop, owed>>
\* doStop: the schedule is closed, the poll in flight waited for, and only
\* then the handshake manager and the registry client are stopped.
shutdown ==
  /\ stop = "no"
  /\ stop' = IF Running THEN "waits" ELSE "done"
  /\ closed' = TRUE
  /\ UNCHANGED <<world, since, pokeDue, tokens, waiting, poll, extra, wake, settling, client,
                 trusted, owed>>
shutdownReturns ==
  /\ stop = "waits"
  /\ stop' = IF Running THEN "cut" ELSE "done"
  /\ UNCHANGED <<world, sched, poll, extra, wake, settling, client, trusted, owed>>

Next ==
  \/ \E p \in Peer, e \in BOOLEAN : handshakeRequestSent(p, e) \/ Parks(p, e)
  \/ \E p \in Peer : WindowPasses(p)
  \/ RegistryAnswers \/ PollProcesses
  \/ WakeRound \/ ExtraRound \/ TickRound \/ Settle \/ TimePasses
  \/ ClientAsks \/ ClientBegins \/ ClientDone \/ shutdown \/ shutdownReturns
\* The loop runs, the registry answers and time passes.  Nothing is assumed
\* of the baseline tick, which is a minute away, or of the clients.
Fairness ==
  /\ WF_vars(RegistryAnswers) /\ WF_vars(PollProcesses) /\ WF_vars(WakeRound)
  /\ WF_vars(ExtraRound) /\ WF_vars(Settle) /\ WF_vars(TimePasses)
Spec == Init /\ [][Next]_vars /\ Fairness

----------------------------------------------------------------------------
\* The types; the peers waited on never exceed their cap.
TypeOK ==
  /\ tokens \in 0 .. handshakePokeBurst
  /\ since \in {"recent", "almost", "old"} /\ extra \in {"off", "armed", "ripe"}
  /\ Cardinality({p \in Peer : waiting[p] # "none"}) <= handshakeMaxWaiting

\* A poke that took a token gets a poll that starts after it, also when it
\* came while a poll was in flight, whose answer may have been given before.
\* And while this node waits on a peer's answer, an answer parked at the
\* registry is fetched without any poke and long before the baseline tick.
Served ==
  closed \/ (~owed /\ \A p \in Peer : p \in inbox /\ p \notin trusted => waiting[p] # "open")
PollsServe == []<>Served

\* What the poll in flight has brought.
Brought == IF "got" \in poll THEN poll ELSE {}

\* No answer parked for this node disappears on its side: it waits at the
\* registry, is in the hands of the poll in flight, has reached the handshake
\* manager, or was in a reply that never arrived; unless the deadline of the
\* shutdown passed with a poll in flight.  So when the shutdown is done, what
\* the replies brought has been processed before the manager was stopped
\* (begin, end, pollRelayedHandshakes, doStop).
NothingLost == stop = "cut" \/ answers \subseteq inbox \cup Brought \cup trusted \cup lost
=============================================================================
