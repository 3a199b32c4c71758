------------------------------- MODULE LogCap -------------------------------
(***************************************************************************)
(* Log rotation (internal/logcap): every process caps the log it writes,   *)
(* copy-truncate style, keeping Keep gzipped generations.  The processes   *)
(* of a host share the directory ~/.pilot, may die between any two steps,  *)
(* and finish the copies that a dead `pilotctl daemon start` daemon left.  *)
(*                                                                         *)
(* Each process has a log of its own.  A log, a copy and a generation are  *)
(* sequences of lines, numbered in the order they were written; any line   *)
(* puts the log over its limit.  The growing wait between rounds           *)
(* (retryAfter) is any wait.                                               *)
(***************************************************************************)
EXTENDS Naturals, Sequences, FiniteSets, SequencesExt

CONSTANTS
  Proc,       \* the processes, each the writer of one log
  PidLog,     \* the ones whose log is pilot-<pid>.log: they do not come back
  Keep,       \* Options.MaxBackups
  Scenarios   \* [budgets, mortal, start, lines, backups, flock]

VARIABLES
  sc, left,
  log,        \* log[p]: the lines in p's log
  copy,       \* copy[p]: <log>.pilot.1, NoFile when there is none
  tmp,        \* tmp[p]: <log>.pilot.1.gz.tmp
  gz,         \* gz[p][i]: <log>.pilot.i.gz, NoFile when there is none
  holder,     \* holder[p]: who holds copy[p] flocked
  place,      \* place[p]: where p's log is: "in" scope, "out" of it, "gone" from its name
  up,         \* the processes that run
  rot,        \* rot[p]: the round p is in
  next,       \* next[p]: the next line p writes
  late,       \* lines written between a round's copy and its truncation
  cut,        \* lines truncated by a round that keeps no backup
  aged,       \* lines of generations dropped
  crashes, made \* per log: rounds that died; generations completed

logcapVars == <<log, copy, tmp, gz, holder, place, up, rot, next, late, cut, aged, crashes, made>>
vars == <<sc, left, logcapVars>>

Nobody == "nobody"
NoFile == <<0>>
Gen == 1 .. Keep + 1
Has(f) == f # NoFile
Lines(f) == IF Has(f) THEN Range(f) ELSE {}
Idle == [pc |-> "idle", on |-> Nobody, gen |-> 0, parked |-> FALSE, held |-> FALSE, gone |-> FALSE, todo |-> {}, saw |-> {}]

Spend(k) == left[k] > 0 /\ left' = [left EXCEPT ![k] = @ - 1]
Free == UNCHANGED left
At(p, pc) == p \in up /\ rot[p].pc = pc
Set(p, s) == rot' = [rot EXCEPT ![p] = [k \in DOMAIN @ |-> IF k \in DOMAIN s THEN s[k] ELSE @[k]]]
Goes(p, pc) == Set(p, [pc |-> pc])
Own(p) == rot[p].on = p

(* Removing a name leaves the descriptors others opened it with pointing   *)
(* at a file without one.                                                  *)
Unlinked(p, l, s) ==
  /\ copy' = [copy EXCEPT ![l] = NoFile]
  /\ holder' = [holder EXCEPT ![l] = Nobody]
  /\ rot' = [q \in Proc |->
       IF q = p THEN [k \in DOMAIN rot[p] |-> IF k \in DOMAIN s THEN s[k] ELSE rot[p][k]]
       ELSE [rot[q] EXCEPT !.gone = @ \/ rot[q].on = l]]

Init ==
  /\ sc \in Scenarios
  /\ left = sc.budgets
  /\ log = [p \in Proc |-> [i \in 1 .. sc.start[p] |-> i]]
  /\ copy = [p \in Proc |-> NoFile]
  /\ tmp = [p \in Proc |-> NoFile]
  /\ gz = [p \in Proc |-> [i \in Gen |-> NoFile]]
  /\ holder = [p \in Proc |-> Nobody]
  /\ place = [p \in Proc |-> "in"]
  /\ up = Proc
  /\ rot = [p \in Proc |-> Idle]
  /\ next = [p \in Proc |-> sc.start[p] + 1]
  /\ late = [p \in Proc |-> {}]
  /\ cut = [p \in Proc |-> {}]
  /\ aged = [p \in Proc |-> {}]
  /\ crashes = [p \in Proc |-> 0]
  /\ made = [p \in Proc |-> 0]

----------------------------------------------------------------------------
(* The world around the rotators.                                          *)

Files == <<copy, tmp, gz, holder>>
Past == <<late, cut, aged, crashes, made>>

Writes(p) ==
  /\ p \in up
  /\ next[p] <= sc.lines[p]
  /\ log' = [log EXCEPT ![p] = Append(@, next[p])]
  /\ next' = [next EXCEPT ![p] = @ + 1]
  /\ late' = [late EXCEPT ![p] = @ \cup IF rot[p].pc = "truncate" /\ rot[p].held THEN {next[p]} ELSE {}]
  /\ Free
  /\ UNCHANGED <<Files, place, up, rot, cut, aged, crashes, made>>

(* Someone moves the log elsewhere, or removes its name.                   *)
Moved(p) ==
  /\ place[p] = "in"
  /\ Spend("move")
  /\ \E to \in {"out", "gone"} : place' = [place EXCEPT ![p] = to]
  /\ UNCHANGED <<log, next, Files, up, rot, Past>>

(* The process dies in a round; between rounds it leaves nothing to finish. *)
(* The kernel drops its locks.                                              *)
Dies(p) ==
  /\ p \in up \cap sc.mortal /\ rot[p].pc \notin {"idle", "stopped"}
  /\ Spend("die")
  /\ up' = up \ {p}
  /\ holder' = [l \in Proc |-> IF holder[l] = p THEN Nobody ELSE holder[l]]
  /\ crashes' = [l \in Proc |-> crashes[l] + IF l = rot[p].on THEN 1 ELSE 0]
  /\ rot' = [rot EXCEPT ![p] = Idle]
  /\ UNCHANGED <<log, next, copy, tmp, gz, place, late, cut, aged, made>>

(* launchd starts it again, on the same log.                               *)
Restarts(p) ==
  /\ p \notin up /\ p \notin PidLog
  /\ up' = up \cup {p}
  /\ Free
  /\ UNCHANGED <<log, next, Files, place, rot, Past>>

----------------------------------------------------------------------------
(* Rotator.Check and Rotator.rotate, up to the truncation.                 *)

(* Where a round goes when it keeps no backup: the log is cut anyway.      *)
NoBackup(p) == Set(p, [pc |-> "truncate", on |-> p, held |-> FALSE, gone |-> FALSE])

openByPath(p) == place[p] # "gone"
inScope(p) == place[p] = "in"

Check_LeavesUnlinked(p) ==
  /\ At(p, "idle")
  /\ log[p] # <<>>
  /\ \/ inScope(p) /\ sc.backups /\ Set(p, [pc |-> "finish", on |-> p])
     \/ inScope(p) /\ ~sc.backups /\ NoBackup(p)
     \/ openByPath(p) /\ ~inScope(p) /\ Goes(p, "stopped")
  /\ Free
  /\ UNCHANGED <<log, next, Files, place, up, Past>>

(* tick and Check find the log over its limit.                             *)
Check(p) ==
  /\ At(p, "idle")
  /\ log[p] # <<>>
  /\ \/ inScope(p) /\ sc.backups /\ Set(p, [pc |-> "finish", on |-> p])
     \/ inScope(p) /\ ~sc.backups /\ NoBackup(p)
     \/ ~openByPath(p) /\ NoBackup(p)
     \/ openByPath(p) /\ ~inScope(p) /\ Goes(p, "stopped")
  /\ Free
  /\ UNCHANGED <<log, next, Files, place, up, Past>>

(* tryLock: whether the lock is another's, and the locks once it is p's.   *)
(* Where the filesystem has no flock a copy is taken unlocked.             *)
Busy(l) == sc.flock /\ holder[l] # Nobody
tryLock(l, p) == IF sc.flock THEN [holder EXCEPT ![l] = p] ELSE holder

(* finishStaged's tests before the lock: is there an interrupted copy of   *)
(* log l?  For another's log an empty copy is left alone, and every copy   *)
(* where the filesystem has no locks.                                      *)
finishStaged(p, l, orphan) ==
  /\ Has(copy[l])
  /\ orphan => copy[l] # <<>> /\ sc.flock

(* What it does once it opened the copy: a locked copy, or one that lost   *)
(* its name meanwhile, is another rotation's.                              *)
TakesCopy(p) ==
  LET l == rot[p].on IN
  /\ At(p, "lock")
  /\ \/ /\ rot[p].gone \/ Busy(l)
        /\ IF Own(p) THEN NoBackup(p) ELSE Set(p, [pc |-> "orphans", on |-> p, gone |-> FALSE])
        /\ UNCHANGED holder
     \/ /\ ~rot[p].gone /\ ~Busy(l)
        /\ holder' = tryLock(l, p)
        /\ Goes(p, "compress")
  /\ Free
  /\ UNCHANGED <<log, next, copy, tmp, gz, place, up, Past>>

(* stage: an interrupted rotation of this log is finished first.           *)
FinishOwn(p) ==
  /\ At(p, "finish")
  /\ IF finishStaged(p, p, FALSE) THEN Set(p, [pc |-> "lock", gone |-> FALSE])
     ELSE Set(p, [pc |-> "shift", gen |-> Keep + 1, parked |-> FALSE])
  /\ Free
  /\ UNCHANGED <<log, next, Files, place, up, Past>>

(* dropParked, when the round keeps no backup or the log is cut.           *)
dropParked(p) == IF rot[p].parked THEN [gz EXCEPT ![p][Keep + 1] = NoFile] ELSE gz
Dropped(p, i) == aged' = [aged EXCEPT ![p] = @ \cup Lines(gz[p][i])]

(* shiftBackups, one name at a time: what is left beyond Keep goes, then   *)
(* every generation moves up by one, the oldest to the parking slot.       *)
shiftBackups(p) ==
  LET g == rot[p].gen IN
  /\ gz' = IF g > Keep THEN [gz EXCEPT ![p][g] = NoFile]
           ELSE IF Has(gz[p][g]) THEN [gz EXCEPT ![p][g + 1] = gz[p][g], ![p][g] = NoFile] ELSE gz
  /\ aged' = IF g > Keep THEN [aged EXCEPT ![p] = @ \cup Lines(gz[p][g])] ELSE aged
  /\ Set(p, [gen |-> g - 1, parked |-> rot[p].parked \/ (g = Keep /\ Has(gz[p][g])),
             pc |-> IF g = 1 THEN "create" ELSE "shift"])

Shifts(p) ==
  /\ At(p, "shift")
  /\ shiftBackups(p)
  /\ Free
  /\ UNCHANGED <<log, next, copy, tmp, holder, place, up, late, cut, crashes, made>>

(* A rename or the copy fails: the round goes on without a backup; a copy  *)
(* that could not be locked is left behind, empty.                         *)
StageFails(p) ==
  /\ rot[p].pc \in {"shift", "create", "hold", "copy"} /\ p \in up
  /\ rot[p].pc = "shift" => rot[p].gen <= Keep
  /\ Spend("fail")
  /\ gz' = dropParked(p)
  /\ IF rot[p].parked THEN Dropped(p, Keep + 1) ELSE UNCHANGED aged
  /\ IF rot[p].pc = "copy"
     THEN Unlinked(p, p, [pc |-> "truncate", held |-> FALSE])
     ELSE NoBackup(p) /\ UNCHANGED <<copy, holder>>
  /\ UNCHANGED <<log, next, tmp, place, up, late, cut, crashes, made>>

(* createStaged makes the copy, still empty, and holdStaged locks it.      *)
createStaged(p) ==
  /\ At(p, "create")
  /\ copy' = [copy EXCEPT ![p] = <<>>]
  /\ Goes(p, "hold")
  /\ Free
  /\ UNCHANGED <<log, next, tmp, gz, holder, place, up, Past>>

holdStaged(p) ==
  /\ At(p, "hold")
  /\ holder' = tryLock(p, p)
  /\ Goes(p, "copy")
  /\ Free
  /\ UNCHANGED <<log, next, copy, tmp, gz, place, up, Past>>

(* The copy reads the log line after line until it meets the end of it.    *)
Copies(p) ==
  /\ At(p, "copy")
  /\ IF Len(copy[p]) < Len(log[p])
     THEN copy' = [copy EXCEPT ![p] = Append(@, log[p][Len(@) + 1])] /\ UNCHANGED rot
     ELSE Set(p, [pc |-> "truncate", held |-> TRUE]) /\ UNCHANGED copy
  /\ Free
  /\ UNCHANGED <<log, next, tmp, gz, holder, place, up, Past>>

----------------------------------------------------------------------------
(* Rotator.rotate from the truncation on.                                  *)

(* The copies dead daemons left.                                           *)
Orphans == {l \in PidLog \ up : Lines(copy[l]) # {}}

(* Emptying the log through the writer's own descriptor.                   *)
truncate(p) ==
  /\ log' = [log EXCEPT ![p] = <<>>]
  /\ cut' = [cut EXCEPT ![p] = @ \cup IF rot[p].held THEN {} ELSE Range(log[p])]

Truncates(p) ==
  /\ At(p, "truncate")
  /\ truncate(p)
  /\ IF rot[p].held
     THEN /\ gz' = dropParked(p)
          /\ IF rot[p].parked THEN Dropped(p, Keep + 1) ELSE UNCHANGED aged
          /\ Set(p, [pc |-> "compress", saw |-> Orphans])
     ELSE Set(p, Idle) /\ UNCHANGED <<gz, aged>>
  /\ Free
  /\ UNCHANGED <<next, copy, tmp, holder, place, up, late, crashes, made>>

(* The log cannot be truncated: unstage removes the copy and goes on to    *)
(* move the generations back; a copy it cannot remove stays.               *)
TruncateFails(p) ==
  /\ At(p, "truncate")
  /\ Spend("trunc")
  /\ IF rot[p].held THEN Unlinked(p, p, [pc |-> "unshift", gen |-> 2])
     ELSE Set(p, Idle) /\ UNCHANGED <<copy, holder>>
  /\ UNCHANGED <<log, next, tmp, gz, place, up, Past>>

UnstageFails(p) ==
  /\ At(p, "truncate") /\ rot[p].held
  /\ left["trunc"] > 0 /\ left["fail"] > 0
  /\ left' = [left EXCEPT !["trunc"] = @ - 1, !["fail"] = @ - 1]
  /\ gz' = dropParked(p)
  /\ IF rot[p].parked THEN Dropped(p, Keep + 1) ELSE UNCHANGED aged
  /\ holder' = [holder EXCEPT ![p] = Nobody]
  /\ Set(p, Idle)
  /\ UNCHANGED <<log, next, copy, tmp, place, up, late, cut, crashes, made>>

(* unshiftBackups, one name at a time.                                     *)
unshiftBackups(p) ==
  LET g == rot[p].gen
      top == IF rot[p].parked THEN Keep + 1 ELSE Keep
  IN /\ At(p, "unshift")
     /\ IF g > top THEN Set(p, Idle) /\ UNCHANGED gz
        ELSE /\ gz' = IF Has(gz[p][g]) THEN [gz EXCEPT ![p][g - 1] = gz[p][g], ![p][g] = NoFile] ELSE gz
             /\ Set(p, [gen |-> g + 1])
     /\ Free
     /\ UNCHANGED <<log, next, copy, tmp, holder, place, up, Past>>

(* What follows a compress: the shift after an interrupted rotation, the   *)
(* other daemons' copies after the round's own.                            *)
After(p) ==
  [on |-> p, gen |-> Keep + 1, parked |-> FALSE,
   pc |-> IF Own(p) /\ ~rot[p].held THEN "shift" ELSE "orphans",
   todo |-> IF Own(p) THEN PidLog \ {p} ELSE rot[p].todo]

compress_RemovesFirst(p, l) ==
  \/ /\ At(p, "compress")
     /\ tmp' = [tmp EXCEPT ![l] = copy[l]]
     /\ Goes(p, "rename")
     /\ UNCHANGED <<copy, gz, holder, made>>
  \/ /\ At(p, "rename")
     /\ Unlinked(p, l, [pc |-> "remove"])
     /\ UNCHANGED <<tmp, gz, made>>
  \/ /\ At(p, "remove")
     /\ gz' = [gz EXCEPT ![l][1] = tmp[l]]
     /\ tmp' = [tmp EXCEPT ![l] = NoFile]
     /\ made' = [made EXCEPT ![l] = @ + IF Has(gz[l][1]) THEN 0 ELSE 1]
     /\ Set(p, After(p))
     /\ UNCHANGED <<copy, holder>>

(* compress: a temporary file, which takes the name of generation 1 when   *)
(* it is whole; only then the copy goes.                                   *)
compress(p, l) ==
  \/ /\ At(p, "compress")
     /\ tmp' = [tmp EXCEPT ![l] = copy[l]]
     /\ Goes(p, "rename")
     /\ UNCHANGED <<copy, gz, holder, made>>
  \/ /\ At(p, "rename")
     /\ gz' = [gz EXCEPT ![l][1] = tmp[l]]
     /\ tmp' = [tmp EXCEPT ![l] = NoFile]
     /\ made' = [made EXCEPT ![l] = @ + IF Has(gz[l][1]) THEN 0 ELSE 1]
     /\ Goes(p, "remove")
     /\ UNCHANGED <<copy, holder>>
  \/ /\ At(p, "remove")
     /\ Unlinked(p, l, After(p))
     /\ UNCHANGED <<tmp, gz, made>>

Compresses(p) ==
  /\ compress(p, rot[p].on)
  /\ Free
  /\ UNCHANGED <<log, next, place, up, late, cut, aged, crashes>>

(* The compress fails: the copy stays for a later round.                   *)
CompressFails(p) ==
  /\ p \in up /\ rot[p].pc \in {"compress", "rename", "remove"}
  /\ Spend("fail")
  /\ tmp' = [tmp EXCEPT ![rot[p].on] = NoFile]
  /\ holder' = IF Own(p) /\ rot[p].held THEN holder ELSE [holder EXCEPT ![rot[p].on] = Nobody]
  /\ IF Own(p) /\ ~rot[p].held THEN NoBackup(p) ELSE Set(p, After(p))
  /\ UNCHANGED <<log, next, copy, gz, place, up, Past>>

(* finishOrphans, one daemon's log after the other.                        *)
finishOrphans(p) ==
  /\ At(p, "orphans")
  /\ IF rot[p].todo = {}
     THEN /\ Set(p, Idle)
          /\ holder' = [holder EXCEPT ![p] = IF @ = p THEN Nobody ELSE @]
     ELSE /\ UNCHANGED holder
          /\ \E l \in rot[p].todo :
               IF finishStaged(p, l, TRUE)
               THEN Set(p, [pc |-> "lock", on |-> l, gone |-> FALSE, todo |-> rot[p].todo \ {l}])
               ELSE Set(p, [todo |-> rot[p].todo \ {l}])
  /\ Free
  /\ UNCHANGED <<log, next, copy, tmp, gz, place, up, Past>>

----------------------------------------------------------------------------

Round(p) ==
  \/ Check(p) \/ FinishOwn(p) \/ TakesCopy(p) \/ Shifts(p) \/ createStaged(p) \/ holdStaged(p)
  \/ Copies(p) \/ Truncates(p) \/ unshiftBackups(p) \/ Compresses(p) \/ finishOrphans(p)

Faults(p) == StageFails(p) \/ TruncateFails(p) \/ UnstageFails(p) \/ CompressFails(p)

Next ==
  /\ UNCHANGED sc
  /\ \E p \in Proc : Round(p) \/ Faults(p) \/ Writes(p) \/ Moved(p) \/ Dies(p) \/ Restarts(p)

Spec == Init /\ [][Next]_vars

----------------------------------------------------------------------------

TypeOK ==
  /\ {log, copy, tmp} \subseteq [Proc -> Seq(Nat)]
  /\ gz \in [Proc -> [Gen -> Seq(Nat)]]
  /\ holder \in [Proc -> Proc \cup {Nobody}]
  /\ up \subseteq Proc
  /\ rot \in [Proc -> [pc : STRING, on : Proc \cup {Nobody}, gen : 0 .. Keep + 2, parked : BOOLEAN,
                       held : BOOLEAN, gone : BOOLEAN, todo : SUBSET Proc, saw : SUBSET Proc]]

Stored(l) == Range(log[l]) \cup Lines(copy[l]) \cup UNION {Lines(gz[l][i]) : i \in Gen}

(* No step of p's rounds failed, and its log is where it was.              *)
Smooth(p) == left["fail"] = sc.budgets["fail"] /\ sc.backups /\ place[p] = "in"

(* A line leaves the disk only with a generation that is dropped, or when  *)
(* it was written between the copy and the truncation; a round cuts a log  *)
(* without a copy only after a failure.  So wherever a process dies, and   *)
(* whoever finishes its copy.                                              *)
LinesKept ==
  \A l \in Proc :
    /\ 1 .. next[l] - 1 \subseteq Stored(l) \cup late[l] \cup cut[l] \cup aged[l]
    /\ Smooth(l) => cut[l] = {}

Present(l) == Cardinality({i \in Gen : Has(gz[l][i])})

(* A log keeps its Keep newest generations, in order, and one that cannot  *)
(* be truncated keeps them all; a round that dies costs one at most.       *)
GenerationsKept ==
  \A l \in Proc :
    /\ rot[l].pc = "idle" /\ Smooth(l) =>
         Present(l) + crashes[l] >= IF made[l] < Keep THEN made[l] ELSE Keep
    /\ \A i, j \in Gen : i < j /\ Lines(gz[l][i]) # {} /\ Lines(gz[l][j]) # {}
                           => gz[l][j][1] <= gz[l][i][1]

Stopped(p) == p \notin up \/ rot[p].pc = "stopped"

(* The copy of a daemon that died is finished by the next rotation in its  *)
(* directory, or is in the hands of one that still runs.                   *)
OrphanFinished ==
  sc.mortal = PidLog /\ sc.flock /\ left["fail"] = sc.budgets["fail"] =>
    \A p \in up : rot[p].pc = "orphans" /\ rot[p].todo = {} =>
      \A l \in rot[p].saw : Has(copy[l]) => holder[l] # Nobody

AllCapped == \A p \in Proc : log[p] = <<>> \/ Stopped(p)

(* A log over its limit is truncated by a process that goes on running,    *)
(* whatever failed before.                                                 *)
Capped == []<>AllCapped

=============================================================================
