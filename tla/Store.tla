-------------------------------- MODULE Store --------------------------------
(***************************************************************************)
(* The app store commands of pilotctl that change an installed app         *)
(* (cmd/pilotctl/appstore*.go): install, upgrade and uninstall of one app, *)
(* run by several pilotctl processes at once, while the app they replace   *)
(* runs and writes its state, and while a pilotctl may die between any two *)
(* steps.                                                                  *)
(*                                                                         *)
(* A directory is a manifest version, a binary version, the catalogue      *)
(* marker and the app's files.  A file is an inode number, so that hard    *)
(* links and copies differ; val holds what each inode contains.  Values    *)
(* are numbered in the order the app wrote them.  Removing a tree is one   *)
(* step.                                                                   *)
(***************************************************************************)
EXTENDS Naturals, Sequences, FiniteSets, SequencesExt

CONSTANTS
  Cmd,        \* pilotctl processes
  File,       \* the app's state files
  Keep,       \* appBackupKeep
  Scenarios   \* [opts, links, cat, budgets, files, unreadable]

VARIABLES
  sc, left,
  dir,        \* the app's directories under the install root
  backups,    \* retired installs, oldest first
  val,        \* val[i]: what inode i holds
  cat,        \* the catalogue's current bundle
  lock,       \* who holds <install root>/.<id>.lock
  cmd,        \* the commands
  fd,         \* fd[f]: the inode the running app has open as f
  sup,        \* the version the daemon's supervisor runs, 0 for none
  want,       \* want[f]: the app's last write of f, 0 when it deleted it
  raced,      \* files the app wrote in a new install just then replaced or rejected
  owed        \* what a backup was the only place for when it was made

storeVars == <<dir, backups, val, cat, lock, cmd, fd, sup, want, raced, owed>>
vars == <<sc, left, storeVars>>

Nobody == 0
Volatile == {"journal"}
Absent == [is |-> FALSE]
Empty == [f \in File |-> 0]
NewDir(ver, bin) ==
  [is |-> TRUE, ver |-> ver, bin |-> bin, marker |-> 0, proc |-> FALSE, files |-> Empty]
Gone == <<0, 0>>
NoEntry == [src |-> Gone, dst |-> Gone]
NoEntries == [f \in File |-> NoEntry]
NoLook == [f \in File |-> Gone]
Inodes == Len(val)
Fresh(v) == val' = Append(val, v)

Spend(k) == left[k] > 0 /\ left' = [left EXCEPT ![k] = @ - 1]
Free == UNCHANGED left
Set(c, r) == cmd' = [cmd EXCEPT ![c] = [k \in DOMAIN @ |-> IF k \in DOMAIN r THEN r[k] ELSE @[k]]]
At(c, pc) == cmd[c].pc = pc
Idle == [pc |-> "idle", kind |-> "", force |-> FALSE, reset |-> FALSE, pin |-> 0, local |-> FALSE,
         b |-> [ver |-> 0, sha |-> 0], old |-> 0, entries |-> NoEntries, look |-> NoLook, todo |-> {},
         moved |-> {}, leftover |-> {}, from |-> "live", bk |-> "", ret |-> "", res |-> ""]
(* The command ends: its deferred unlock runs.                             *)
Ends(c, res) == /\ Set(c, [pc |-> "idle", res |-> res])
                /\ lock' = IF lock = c THEN Nobody ELSE lock

----------------------------------------------------------------------------
(* Helpers of appstore_state.go.                                           *)

readInstalledManifest(d) == IF d.is THEN d.ver ELSE 0

backupKindRotated(kind) == kind \in {"upgrade", "reinstall"}

volatileStateFile(f) == f \in Volatile

(* What Lstat tells of a file: its inode, and its size and mtime.          *)
Lstat(d, f) == IF d.is /\ d.files[f] # 0 THEN <<d.files[f], val[d.files[f]]>> ELSE Gone

Value(d, f) == Lstat(d, f)[2]

sameStateEntry(a, b) == a # Gone /\ a = b

replacedInstallBackupKind(c) ==
  CASE cmd[c].reset -> "reset-state"
    [] ~cmd[c].reset /\ cmd[c].leftover # {} -> "incomplete"
    [] ~cmd[c].reset /\ cmd[c].leftover = {} /\ cmd[c].old = 0 -> "recovered"
    [] ~cmd[c].reset /\ cmd[c].leftover = {} /\ cmd[c].old \notin {0, cmd[c].b.ver} -> "upgrade"
    [] OTHER -> "reinstall"

(* The newest Keep backups of each routine kind stay in a location; any    *)
(* other kind, or a backup without metadata, always stays.                 *)
pruneBackupDirs(bs, loc) ==
  LET Old(i) == /\ bs[i].loc = loc
                /\ backupKindRotated(bs[i].kind)
                /\ Cardinality({j \in i + 1 .. Len(bs) : bs[j].loc = loc /\ bs[j].kind = bs[i].kind}) >= Keep
  IN SelectSeq([i \in 1 .. Len(bs) |-> [b |-> bs[i], keep |-> ~Old(i)]], LAMBDA x : x.keep)

----------------------------------------------------------------------------
(* Catalogue and upgrade (appstore_update.go, appstore_catalogue.go).      *)

(* outdatedReason: a newer version, or the same version with another       *)
(* bundle than the one recorded.                                           *)
outdatedReason(d) ==
  \/ cat.ver > d.ver
  \/ cat.ver = d.ver /\ d.marker # 0 /\ d.marker # cat.sha

(* scanInstalledApps reads every directory of the root with a manifest;    *)
(* findOutdated keys what it finds by the manifest's id.                   *)
findOutdated == \E p \in DOMAIN dir : readInstalledManifest(dir[p]) # 0 /\ outdatedReason(dir[p])

(* The catalogue publishes a new version, or rebuilds the current one.     *)
Publish ==
  /\ Spend("publish")
  /\ \E bump \in {0, 1} : cat' = [ver |-> cat.ver + bump, sha |-> cat.sha + 1]
  /\ UNCHANGED <<dir, backups, val, lock, cmd, fd, sup, want, raced, owed>>

(* A bundle that is no directory, whose manifest, id, signature or binary  *)
(* is refused, or that could not be fetched: nothing was touched.          *)
ValidationFails(c) == Spend("fail") /\ Ends(c, "failed")

(* resolveInstallTargetVersion: a pinned version the catalogue does not    *)
(* offer is refused, and so is a bundle that fails validation.             *)
resolveInstallTargetVersion(c) ==
  /\ At(c, "fetch")
  /\ \/ /\ ~cmd[c].local /\ cmd[c].pin \notin {0, cat.ver}
        /\ Free /\ Ends(c, "unavailable")
     \/ /\ ~cmd[c].local /\ cmd[c].pin \in {0, cat.ver}
        /\ Free /\ Set(c, [pc |-> "lock", b |-> cat]) /\ UNCHANGED lock
     \/ /\ cmd[c].local
        /\ Free /\ Set(c, [pc |-> "lock", b |-> [ver |-> 1, sha |-> 0]]) /\ UNCHANGED lock
     \/ ValidationFails(c)
  /\ UNCHANGED <<dir, backups, val, cat, fd, sup, want, raced, owed>>

----------------------------------------------------------------------------
(* The install lock and the start of a command.                            *)

(* Where each command begins, and what it answers when it ends at once.    *)
cmdAppStoreInstall(o) ==
  LET installed == readInstalledManifest(dir["live"])
      quick == ~o.force /\ ~o.local
  IN IF quick /\ installed # 0 /\ o.pin \in {0, installed} THEN <<"idle", "already">>
     ELSE IF quick /\ installed = 0 /\ dir["previous"].is THEN <<"earlylock", "">>
     ELSE <<"fetch", "">>

(* An outdated app is installed again with --force.                        *)
cmdAppStoreUpgrade == IF findOutdated THEN <<"fetch", "">> ELSE <<"idle", "current">>

cmdAppStoreUninstall == IF dir["live"].is THEN <<"lock", "">> ELSE <<"idle", "not installed">>

Starts(c) ==
  /\ At(c, "idle") /\ c \in sc.procs /\ Spend("cmds")
  /\ \E o \in sc.opts :
       LET go == CASE o.kind = "install" -> cmdAppStoreInstall(o)
                   [] o.kind = "upgrade" -> cmdAppStoreUpgrade
                   [] o.kind = "uninstall" -> cmdAppStoreUninstall
       IN cmd' = [cmd EXCEPT ![c] = [k \in DOMAIN Idle |->
                    IF k = "pc" THEN go[1] ELSE IF k = "res" THEN go[2]
                    ELSE IF k \in DOMAIN o THEN o[k] ELSE Idle[k]]]
  /\ UNCHANGED <<dir, backups, val, cat, lock, fd, sup, want, raced, owed>>


(* An exclusive flock, waited for up to appInstallLockWait.                *)
lockAppInstall(c) ==
  /\ cmd[c].pc \in {"lock", "earlylock"}
  /\ \/ /\ lock = Nobody /\ Free
        /\ lock' = c
        /\ Set(c, [pc |-> IF cmd[c].kind = "uninstall" THEN "unmanifest" ELSE "recover",
                   ret |-> IF At(c, "earlylock") THEN "answer" ELSE "examine"])
     \/ /\ lock # Nobody /\ Spend("timeout")
        /\ IF At(c, "earlylock") THEN Set(c, [pc |-> "fetch"]) /\ UNCHANGED lock
                                 ELSE Ends(c, "timeout")
  /\ UNCHANGED <<dir, backups, val, cat, fd, sup, want, raced, owed>>

(* The process dies: the kernel drops the flock, the files stay.           *)
Dies(c) ==
  /\ ~At(c, "idle") /\ Spend("crash")
  /\ Ends(c, "died")
  /\ UNCHANGED <<dir, backups, val, cat, fd, sup, want, raced, owed>>

----------------------------------------------------------------------------
(* recoverInterruptedInstall.                                              *)

(* A leftover previous install is put back when the live one is gone, and  *)
(* retired otherwise; then a leftover staging directory is discarded.      *)
recoverInterruptedInstall(c) ==
  /\ At(c, "recover")
  /\ \/ /\ dir["previous"].is /\ ~dir["live"].is /\ Free
        /\ dir' = [dir EXCEPT !["live"] = dir["previous"], !["previous"] = Absent]
        /\ UNCHANGED cmd
     \/ /\ dir["previous"].is /\ dir["live"].is /\ Free
        /\ Set(c, [pc |-> "retire", from |-> "previous", bk |-> "recovered"])
        /\ UNCHANGED dir
     \/ /\ ~dir["previous"].is /\ Free
        /\ dir' = [dir EXCEPT !["staging"] = Absent]
        /\ Set(c, [pc |-> cmd[c].ret])
  /\ UNCHANGED <<backups, val, cat, lock, fd, sup, want, raced, owed>>

(* The answer of install without --force, once the leftovers are repaired. *)
AnswersEarly(c) ==
  /\ At(c, "answer") /\ Free
  /\ lock' = Nobody
  /\ LET installed == readInstalledManifest(dir["live"])
     IN IF installed # 0 /\ cmd[c].pin \in {0, installed}
        THEN Set(c, [pc |-> "idle", res |-> "already"])
        ELSE Set(c, [pc |-> "fetch"])
  /\ UNCHANGED <<dir, backups, val, cat, fd, sup, want, raced, owed>>

(* With the lock held: is the app installed, and may it be replaced?       *)
Examines(c) ==
  /\ At(c, "examine") /\ Free
  /\ LET installed == readInstalledManifest(dir["live"])
         conflict == (cmd[c].pin # 0 \/ cmd[c].local) /\ cmd[c].b.ver # installed
     IN IF dir["live"].is /\ installed # 0 /\ ~cmd[c].force
        THEN Ends(c, IF conflict THEN "conflict" ELSE "already")
        ELSE Set(c, [pc |-> "stage", old |-> installed]) /\ UNCHANGED lock
  /\ UNCHANGED <<dir, backups, val, cat, fd, sup, want, raced, owed>>

----------------------------------------------------------------------------
(* Staging and carry.                                                      *)

(* A fresh staging directory gets the binary and the auxiliary files; any  *)
(* error removes it and ends the command.                                  *)
Stages(c) ==
  /\ At(c, "stage")
  /\ \/ /\ Free
        /\ dir' = [dir EXCEPT !["staging"] = NewDir(0, cmd[c].b.ver)]
        /\ Set(c, IF dir["live"].is /\ ~cmd[c].reset THEN [pc |-> "carry", todo |-> File] ELSE [pc |-> "manifest"])
        /\ UNCHANGED lock
     \/ /\ Spend("fail")
        /\ dir' = [dir EXCEPT !["staging"] = Absent]
        /\ Ends(c, "failed")
  /\ UNCHANGED <<backups, val, cat, fd, sup, want, raced, owed>>

(* carryAppState looks at a file, then links or copies it.  One this user  *)
(* can neither link nor read is left for the reconcile; one that vanished  *)
(* is skipped; any other error discards staging.                           *)
CarryLooks(c) ==
  /\ At(c, "carry") /\ cmd[c].todo # {} /\ Free
  /\ LET f == CHOOSE f \in cmd[c].todo : TRUE
         was == Lstat(dir["live"], f)
     IN IF was = Gone THEN Set(c, [todo |-> cmd[c].todo \ {f}])
        ELSE IF f \in sc.unreadable THEN Set(c, [todo |-> cmd[c].todo \ {f}, moved |-> cmd[c].moved \cup {f}])
        ELSE Set(c, [pc |-> "link", look |-> [cmd[c].look EXCEPT ![f] = was]])
  /\ UNCHANGED <<dir, backups, val, cat, lock, fd, sup, want, raced, owed>>

CarryLinks(c) ==
  /\ At(c, "link")
  /\ LET f == CHOOSE f \in cmd[c].todo : TRUE
         now == Lstat(dir["live"], f)
         i == IF sc.links THEN now[1] ELSE Inodes + 1
     IN \/ /\ now = Gone /\ Free
           /\ Set(c, [pc |-> "carry", todo |-> cmd[c].todo \ {f}]) /\ UNCHANGED <<dir, val, lock>>
        \/ /\ now # Gone /\ Free
           /\ IF sc.links THEN UNCHANGED val ELSE Fresh(now[2])
           /\ dir' = [dir EXCEPT !["staging"].files[f] = i]
           /\ Set(c, [pc |-> "carry", todo |-> cmd[c].todo \ {f},
                      entries |-> [cmd[c].entries EXCEPT ![f] = [src |-> cmd[c].look[f], dst |-> <<i, now[2]>>]]])
           /\ UNCHANGED lock
        \/ /\ now # Gone /\ Spend("fail")
           /\ dir' = [dir EXCEPT !["staging"] = Absent]
           /\ Ends(c, "failed") /\ UNCHANGED val
  /\ UNCHANGED <<backups, cat, fd, sup, want, raced, owed>>

(* manifest.json is written last, after verifyCarriedState.                *)
WritesManifest(c) ==
  /\ \/ At(c, "manifest")
     \/ At(c, "carry") /\ cmd[c].todo = {}
  /\ \/ Free /\ dir' = [dir EXCEPT !["staging"].ver = cmd[c].b.ver]
        /\ Set(c, [pc |-> "aside"]) /\ UNCHANGED lock
     \/ Spend("fail") /\ dir' = [dir EXCEPT !["staging"] = Absent] /\ Ends(c, "failed")
  /\ UNCHANGED <<backups, val, cat, fd, sup, want, raced, owed>>

----------------------------------------------------------------------------
(* swapInAppDir.                                                           *)

(* The live install is moved aside; an existing <id>.previous is never     *)
(* overwritten.                                                            *)
MovesAside(c) ==
  /\ At(c, "aside")
  /\ \/ /\ ~dir["previous"].is /\ Free
        /\ dir' = [dir EXCEPT !["previous"] = dir["live"], !["live"] = Absent]
        /\ Set(c, [pc |-> "place"]) /\ UNCHANGED lock
     \/ /\ IF dir["previous"].is THEN Free ELSE Spend("fail")
        /\ dir' = [dir EXCEPT !["staging"] = Absent]
        /\ Ends(c, "failed")
  /\ UNCHANGED <<backups, val, cat, fd, sup, want, raced, owed>>

(* Staging becomes the live install.                                       *)
Places(c) ==
  /\ At(c, "place")
  /\ \/ /\ Free
        /\ dir' = [dir EXCEPT !["live"] = dir["staging"], !["staging"] = Absent]
        /\ Set(c, [pc |-> "verify"])
     \/ Spend("fail") /\ Set(c, [pc |-> "restore"]) /\ UNCHANGED dir
  /\ UNCHANGED <<backups, val, cat, lock, fd, sup, want, raced, owed>>

(* verifyInstalledApp: the manifest, the binary and the carried files that *)
(* are not volatile.                                                       *)
Verifies(c) ==
  /\ At(c, "verify")
  /\ LET ok == /\ dir["live"].ver = cmd[c].b.ver /\ dir["live"].bin = cmd[c].b.ver
               /\ \A f \in File : cmd[c].entries[f] # NoEntry /\ ~volatileStateFile(f) => dir["live"].files[f] # 0
     IN \/ /\ ok /\ Free
           /\ IF ~dir["previous"].is THEN Set(c, [pc |-> "audit"])
              ELSE IF cmd[c].reset THEN Set(c, [pc |-> "retire", from |-> "previous", bk |-> "reset-state", ret |-> "audit"])
              ELSE Set(c, [pc |-> "reconcile", todo |-> File])
        \/ (IF ok THEN Spend("fail") ELSE Free) /\ Set(c, [pc |-> "rollback"])
  /\ UNCHANGED <<dir, backups, val, cat, lock, fd, sup, want, raced, owed>>

(* The rejected install goes back to the staging path, the previous one to *)
(* its place, and staging is discarded.                                    *)
rollback(c) ==
  /\ \/ /\ At(c, "rollback")
        /\ dir' = [dir EXCEPT !["staging"] = dir["live"], !["live"] = Absent]
        /\ raced' = raced \cup {f \in File : Value(dir["live"], f) = want[f] /\ Value(dir["previous"], f) # want[f]}
        /\ Set(c, [pc |-> "restore"]) /\ UNCHANGED lock
     \/ /\ At(c, "restore")
        /\ dir' = [dir EXCEPT !["live"] = dir["previous"], !["previous"] = Absent]
        /\ Set(c, [pc |-> "discard"]) /\ UNCHANGED <<lock, raced>>
     \/ /\ At(c, "discard")
        /\ dir' = [dir EXCEPT !["staging"] = Absent]
        /\ Ends(c, "failed") /\ UNCHANGED raced
  /\ Free
  /\ UNCHANGED <<backups, val, cat, fd, sup, want, owed>>

----------------------------------------------------------------------------
(* reconcileAppState.                                                      *)

(* The entries the carry could not link are moved across whole; one that   *)
(* cannot be moved stays in the old directory.                             *)
ReconcileMoves(c) ==
  /\ At(c, "reconcile") /\ cmd[c].moved # {}
  /\ LET f == CHOOSE f \in cmd[c].moved : TRUE
         here == dir["previous"].files[f]
     IN \/ /\ here # 0 /\ dir["live"].files[f] = 0 /\ Free
           /\ dir' = [dir EXCEPT !["live"].files[f] = here, !["previous"].files[f] = 0]
           /\ Set(c, [moved |-> cmd[c].moved \ {f}, todo |-> cmd[c].todo \ {f}])
        \/ /\ here # 0 /\ Spend("fail")
           /\ Set(c, [moved |-> cmd[c].moved \ {f}, todo |-> cmd[c].todo \ {f}, leftover |-> cmd[c].leftover \cup {f}])
           /\ UNCHANGED dir
  /\ UNCHANGED <<backups, val, cat, lock, fd, sup, want, raced, owed>>

(* A file of the old directory is taken when the carry did not see it and  *)
(* the new install has none, or when only the old copy changed since; a    *)
(* volatile file the app deleted from the old directory is dropped from    *)
(* the new one when that copy is unchanged.                                *)
ReconcileLooks(c) ==
  /\ At(c, "reconcile") /\ cmd[c].moved = {} /\ cmd[c].todo # {} /\ Free
  /\ LET f == CHOOSE f \in cmd[c].todo : TRUE
         cur == Lstat(dir["previous"], f)
         live == Lstat(dir["live"], f)
         e == cmd[c].entries[f]
         take == cur # Gone /\ (IF e = NoEntry THEN live = Gone ELSE sameStateEntry(live, e.dst) /\ cur # e.src)
         drop == cur = Gone /\ e # NoEntry /\ volatileStateFile(f) /\ sameStateEntry(live, e.dst)
     IN IF take THEN Set(c, [pc |-> "relink", look |-> [cmd[c].look EXCEPT ![f] = cur]])
        ELSE IF drop THEN Set(c, [pc |-> "drop"])
        ELSE Set(c, [todo |-> cmd[c].todo \ {f}])
  /\ UNCHANGED <<dir, backups, val, cat, lock, fd, sup, want, raced, owed>>

(* placeStateEntry or replaceStateEntry: a link or a copy put there by a   *)
(* rename, or the removal of the sidecar.                                  *)
ReconcilePlaces(c) ==
  /\ cmd[c].pc \in {"relink", "drop"}
  /\ LET f == CHOOSE f \in cmd[c].todo : TRUE
         i == IF sc.links THEN dir["previous"].files[f] ELSE Inodes + 1
         done == [pc |-> "reconcile", todo |-> cmd[c].todo \ {f}]
     IN \/ /\ At(c, "relink") /\ Free
           /\ IF sc.links THEN UNCHANGED val ELSE Fresh(val[dir["previous"].files[f]])
           /\ dir' = [dir EXCEPT !["live"].files[f] = i]
           /\ Set(c, done)
        \/ /\ At(c, "relink") /\ Spend("fail")
           /\ Set(c, [pc |-> "reconcile", todo |-> cmd[c].todo \ {f}, leftover |-> cmd[c].leftover \cup {f}])
           /\ UNCHANGED <<dir, val>>
        \/ /\ At(c, "drop") /\ Free
           /\ dir' = [dir EXCEPT !["live"].files[f] = 0]
           /\ Set(c, done) /\ UNCHANGED val
  /\ UNCHANGED <<backups, cat, lock, fd, sup, want, raced, owed>>

ReconcileEnds(c) ==
  /\ At(c, "reconcile") /\ cmd[c].moved = {} /\ cmd[c].todo = {} /\ Free
  /\ Set(c, [pc |-> "retire", from |-> "previous", bk |-> replacedInstallBackupKind(c), ret |-> "audit"])
  /\ UNCHANGED <<dir, backups, val, cat, lock, fd, sup, want, raced, owed>>

----------------------------------------------------------------------------
(* retireAppDir.                                                           *)

(* Independent copies of a directory's files, and the inodes they take.    *)
Held(d) == SetToSeq({f \in File : d.files[f] # 0})
Copies(d) == val \o [k \in 1 .. Len(Held(d)) |-> val[d.files[Held(d)[k]]]]
Detached(d) == [d EXCEPT !.files = [f \in File |-> IF d.files[f] = 0 THEN 0
                                      ELSE Inodes + (CHOOSE k \in 1 .. Len(Held(d)) : Held(d)[k] = f)]]

(* The bookkeeping of the properties: what a backup that retention never   *)
(* removes was made to keep, and what the live install is left to keep.    *)
Notes(c, d) ==
  IF backupKindRotated(cmd[c].bk) THEN UNCHANGED <<want, owed>>
  ELSE /\ owed' = owed \cup {<<f, Value(d, f)>> : f \in {g \in File : d.files[g] # 0}}
       /\ LET now == IF cmd[c].from = "live" THEN Absent ELSE dir["live"]
          IN want' = [f \in File |-> IF Value(d, f) = want[f] THEN Value(now, f) ELSE want[f]]
Retired(c, d, loc) == Append(backups, [d |-> d, kind |-> "none", loc |-> loc, by |-> c])
Parked(d) == [d EXCEPT !.ver = 0]

(* The directory is renamed into the first backup location that takes it;  *)
(* on another filesystem it is copied and the original removed after; with *)
(* no location it is parked beside the install, manifest disabled; and if  *)
(* even that rename fails it stays, manifest disabled.                     *)
moveIntoBackupLocation(c) ==
  /\ At(c, "retire")
  /\ LET p == cmd[c].from
         d == dir[p]
     IN \/ /\ d.is /\ ~sc.exdev /\ Free
           /\ backups' = Retired(c, d, "backup")
           /\ dir' = [dir EXCEPT ![p] = Absent]
           /\ Set(c, [pc |-> "finish"]) /\ Notes(c, d) /\ UNCHANGED val
        \/ /\ d.is /\ sc.exdev /\ Free
           /\ val' = Copies(d)
           /\ backups' = Retired(c, [Detached(d) EXCEPT !.proc = FALSE, !.bin = 0], "backup")
           /\ Set(c, [pc |-> "remove"]) /\ UNCHANGED <<dir, want, owed>>
        \/ /\ d.is /\ Spend("fail")
           /\ backups' = Retired(c, Parked(d), "parked")
           /\ dir' = [dir EXCEPT ![p] = Absent]
           /\ Set(c, [pc |-> "finish"]) /\ Notes(c, d) /\ UNCHANGED val
        \/ /\ IF d.is THEN Spend("stuck") ELSE Free
           /\ dir' = [dir EXCEPT ![p] = IF d.is THEN [d EXCEPT !.ver = 0, !.bin = 0] ELSE d]
           /\ Set(c, [pc |-> IF cmd[c].kind = "uninstall" THEN "stuck" ELSE "settle"])
           /\ UNCHANGED <<backups, val, want, owed>>
  /\ UNCHANGED <<cat, lock, fd, sup, raced>>

(* The copy is complete: the original's manifest goes, then the original.  *)
RemovesOriginal(c) ==
  /\ At(c, "remove") /\ Free
  /\ Notes(c, dir[cmd[c].from])
  /\ dir' = [dir EXCEPT ![cmd[c].from] = Absent]
  /\ Set(c, [pc |-> "finish"])
  /\ UNCHANGED <<backups, val, cat, lock, fd, sup, raced>>

(* finishBackup: the binary is stripped, small files become copies of      *)
(* their own, and the metadata is written last.                            *)
finishBackup(c) ==
  /\ At(c, "finish") /\ Free
  /\ LET i == Max({j \in 1 .. Len(backups) : backups[j].by = c})
     IN /\ val' = Copies(backups[i].d)
        /\ backups' = [backups EXCEPT ![i].kind = cmd[c].bk, ![i].d = [Detached(@) EXCEPT !.bin = 0]]
  /\ Set(c, [pc |-> "prune"])
  /\ UNCHANGED <<dir, cat, lock, fd, sup, want, raced, owed>>

(* Retention in the location just written; a retire of crash leftovers     *)
(* goes on with the recovery, any other with what its caller does next.    *)
pruneAppBackups(c) ==
  /\ At(c, "prune") /\ Free
  /\ LET i == Max({j \in 1 .. Len(backups) : backups[j].by = c})
         kept == pruneBackupDirs(backups, backups[i].loc)
     IN backups' = [k \in 1 .. Len(kept) |-> kept[k].b]
  /\ Set(c, [pc |-> IF cmd[c].bk = "recovered" /\ cmd[c].ret \in {"examine", "answer"} THEN "recover" ELSE cmd[c].ret])
  /\ UNCHANGED <<dir, val, cat, lock, fd, sup, want, raced, owed>>

(* The directory could not be moved at all: install goes on with a         *)
(* warning (and a recovery discards staging), uninstall gives up.          *)
Settles(c) ==
  /\ cmd[c].pc \in {"settle", "stuck"} /\ Free
  /\ IF At(c, "stuck") THEN Ends(c, "failed") /\ UNCHANGED dir
     ELSE /\ dir' = IF cmd[c].ret \in {"examine", "answer"} THEN [dir EXCEPT !["staging"] = Absent] ELSE dir
          /\ Set(c, [pc |-> cmd[c].ret]) /\ UNCHANGED lock
  /\ UNCHANGED <<backups, val, cat, fd, sup, want, raced, owed>>

(* The audit lines, and the catalogue's bundle sha as it is now.           *)
RecordsInstall(c) ==
  /\ At(c, "audit")
  /\ \/ Free /\ dir' = IF cmd[c].local THEN dir ELSE [dir EXCEPT !["live"].marker = cat.sha]
     \/ ~cmd[c].local /\ Spend("fail") /\ UNCHANGED dir
  /\ Ends(c, "installed")
  /\ UNCHANGED <<backups, val, cat, fd, sup, want, raced, owed>>

----------------------------------------------------------------------------
(* cmdAppStoreUninstall, with the lock held.                               *)

RemovesManifest(c) ==
  /\ At(c, "unmanifest") /\ Free
  /\ dir' = IF dir["live"].is THEN [dir EXCEPT !["live"].ver = 0] ELSE dir
  /\ Set(c, [pc |-> "stop"])
  /\ UNCHANGED <<backups, val, cat, lock, fd, sup, want, raced, owed>>

Quiet(d) == IF d.is THEN [d EXCEPT !.proc = FALSE] ELSE d

(* stopProcessesRunningFrom: every process running from the live directory *)
(* or from a backup ends, by SIGTERM or by SIGKILL.                        *)
stopProcessesRunningFrom(c) ==
  /\ cmd[c].pc \in {"stop", "stopagain"} /\ Free
  /\ dir' = [dir EXCEPT !["live"] = Quiet(@)]
  /\ backups' = [i \in 1 .. Len(backups) |-> [backups[i] EXCEPT !.d = Quiet(@)]]
  /\ IF At(c, "stop")
     THEN Set(c, [pc |-> "retire", from |-> "live", bk |-> "uninstall", ret |-> "stopagain"]) /\ UNCHANGED lock
     ELSE Ends(c, "removed")
  /\ UNCHANGED <<val, cat, fd, sup, want, raced, owed>>

----------------------------------------------------------------------------
(* Outside pilotctl: the running app and the daemon's supervisor.          *)

Running == (\E p \in DOMAIN dir : dir[p].is /\ dir[p].proc) \/ (\E i \in 1 .. Len(backups) : backups[i].d.proc)
Racing(f) == \E c \in Cmd : cmd[c].pc \in {"relink", "drop"} /\ f = CHOOSE g \in cmd[c].todo : TRUE

(* The app writes a new file and renames it over f in $APP.                *)
AppReplaces(f) ==
  /\ Running /\ dir["live"].is /\ f \notin sc.unreadable /\ Spend("replace")
  /\ LET n == Max({val[i] : i \in 1 .. Len(val)} \cup {0}) + 1
     IN Fresh(n) /\ want' = [want EXCEPT ![f] = n]
  /\ dir' = [dir EXCEPT !["live"].files[f] = Inodes + 1]
  /\ fd' = [fd EXCEPT ![f] = Inodes + 1]
  /\ raced' = IF Racing(f) THEN raced \cup {f} ELSE raced
  /\ UNCHANGED <<backups, cat, lock, cmd, sup, owed>>

(* The app writes f in place, through the handle it holds.                 *)
AppRewrites(f) ==
  /\ Running /\ fd[f] # 0 /\ Spend("rewrite")
  /\ LET n == Max({val[i] : i \in 1 .. Len(val)} \cup {0}) + 1
     IN val' = [val EXCEPT ![fd[f]] = n] /\ want' = [want EXCEPT ![f] = n]
  /\ UNCHANGED <<dir, backups, cat, lock, cmd, fd, sup, raced, owed>>

(* The app deletes a volatile file it has in $APP.                         *)
AppDeletes(f) ==
  /\ Running /\ f \in Volatile /\ dir["live"].is /\ dir["live"].files[f] # 0 /\ Spend("delete")
  /\ dir' = [dir EXCEPT !["live"].files[f] = 0]
  /\ fd' = [fd EXCEPT ![f] = 0]
  /\ want' = [want EXCEPT ![f] = 0]
  /\ raced' = IF Racing(f) THEN raced \cup {f} ELSE raced
  /\ UNCHANGED <<backups, val, cat, lock, cmd, sup, owed>>

(* The supervisor's rescan: an app whose manifest is gone is stopped, a    *)
(* newer or new one replaces the running one, an older one is refused.     *)
Rescans ==
  /\ Spend("rescan")
  /\ LET ver == readInstalledManifest(dir["live"])
         runs == ver # 0 /\ ver >= sup
     IN /\ ver = 0 \/ runs
        /\ sup' = ver
        /\ dir' = [p \in DOMAIN dir |-> IF p = "live" /\ runs THEN [dir[p] EXCEPT !.proc = (dir[p].bin = ver)] ELSE Quiet(dir[p])]
        /\ backups' = [i \in 1 .. Len(backups) |-> [backups[i] EXCEPT !.d = Quiet(@)]]
        /\ fd' = IF runs THEN dir["live"].files ELSE Empty
  /\ UNCHANGED <<val, cat, lock, cmd, want, raced, owed>>

(* It restarts an app it still knows, from the path it knows.              *)
Respawns ==
  /\ Spend("respawn")
  /\ sup # 0 /\ ~Running /\ dir["live"].is /\ dir["live"].bin = sup
  /\ dir' = [dir EXCEPT !["live"].proc = TRUE]
  /\ fd' = dir["live"].files
  /\ UNCHANGED <<backups, val, cat, lock, cmd, sup, want, raced, owed>>

----------------------------------------------------------------------------
Init ==
  /\ sc \in Scenarios
  /\ left = sc.budgets
  /\ val = [i \in 1 .. Cardinality(sc.files) |-> i]
  /\ LET s == SetToSeq(sc.files)
         held == [f \in File |-> IF f \in sc.files THEN CHOOSE i \in 1 .. Len(s) : s[i] = f ELSE 0]
     IN /\ dir = [p \in {"live", "staging", "previous"} |->
                    IF p = "live" /\ sc.installed THEN [NewDir(1, 1) EXCEPT !.files = held, !.proc = TRUE, !.marker = 1]
                                  ELSE Absent]
        /\ want = held /\ fd = held
  /\ backups = << >>
  /\ cat = [ver |-> sc.cat, sha |-> sc.cat]
  /\ lock = Nobody
  /\ cmd = [c \in Cmd |-> Idle]
  /\ sup = IF sc.installed THEN 1 ELSE 0
  /\ raced = {} /\ owed = {}

Step(c) ==
  \/ resolveInstallTargetVersion(c) \/ lockAppInstall(c)
  \/ recoverInterruptedInstall(c) \/ AnswersEarly(c) \/ Examines(c) \/ Stages(c)
  \/ CarryLooks(c) \/ CarryLinks(c) \/ WritesManifest(c)
  \/ MovesAside(c) \/ Places(c) \/ Verifies(c) \/ rollback(c)
  \/ ReconcileMoves(c) \/ ReconcileLooks(c) \/ ReconcilePlaces(c) \/ ReconcileEnds(c)
  \/ moveIntoBackupLocation(c) \/ RemovesOriginal(c) \/ finishBackup(c) \/ pruneAppBackups(c) \/ Settles(c)
  \/ RecordsInstall(c) \/ RemovesManifest(c) \/ stopProcessesRunningFrom(c)

Next ==
  /\ UNCHANGED sc
  /\ \/ \E c \in Cmd : Starts(c) \/ Step(c) \/ Dies(c)
     \/ \E f \in File : AppReplaces(f) \/ AppRewrites(f) \/ AppDeletes(f)
     \/ Publish \/ Rescans \/ Respawns

Spec == Init /\ [][Next]_vars /\ \A c \in Cmd : WF_vars(UNCHANGED sc /\ Step(c))

----------------------------------------------------------------------------
TypeOK ==
  /\ \A p \in DOMAIN dir : dir[p].is => dir[p].ver \in 0 .. cat.ver /\ dir[p].bin \in 0 .. cat.ver
                                     /\ \A f \in File : dir[p].files[f] \in 0 .. Len(val)
  /\ lock \in Cmd \cup {Nobody}
  /\ \A i \in 1 .. Len(backups) : backups[i].loc \in {"backup", "parked"}

Kept(f, v) ==
  \/ \E p \in {"live", "previous"} : dir[p].is /\ Value(dir[p], f) = v
  \/ \E i \in 1 .. Len(backups) : ~backupKindRotated(backups[i].kind) /\ Value(backups[i].d, f) = v

(* No command, whatever dies or fails in it, loses state: the last write   *)
(* of every file, and whatever a pinned backup was made to keep, is in the *)
(* live install, in the one moved aside or in a backup retention leaves    *)
(* alone.                                                                  *)
StateKept == \A f \in File \ raced : \A v \in {want[f]} \cup {w \in 1 .. Len(val) : <<f, w>> \in owed} :
                 v # 0 => Kept(f, v)

(* When install reports success the new install has the app's last writes, *)
(* those made while it was being carried and swapped included, and not the *)
(* sidecars the app deleted meanwhile; only the entries it reports as left *)
(* in the old directory may be missing.                                    *)
Follows == \A c \in Cmd : At(c, "audit") /\ cmd'[c].res = "installed" =>
             \A f \in File \ (raced \cup cmd[c].leftover) :
               want[f] # 0 \/ volatileStateFile(f) => Value(dir["live"], f)' = want[f]
StateFollows == [][Follows]_vars

(* The supervisor adopts any directory with a manifest, so none has one    *)
(* before it holds the binary and the carried state.                       *)
AdoptableIsWhole ==
  \A p \in {"live", "staging"} : dir[p].is /\ dir[p].ver # 0 =>
    /\ dir[p].bin = dir[p].ver
    /\ (p = "staging" /\ ~\E o \in sc.opts : o.reset \/ o.kind = "uninstall") =>
         \A f \in sc.files \ (sc.unreadable \cup Volatile) : dir[p].files[f] # 0

(* Every command ends, the one that waited for a dead one's lock too.      *)
AllIdle == \A c \in Cmd : At(c, "idle")
CommandsEnd == []<>AllIdle

(* Once uninstall is done nothing runs from the app's files, the instance  *)
(* the supervisor restarted meanwhile included.                            *)
UninstallStops ==
  AllIdle /\ (\E c \in Cmd : cmd[c].res = "removed") /\ ~dir["live"].is /\ ~dir["previous"].is => ~Running
==============================================================================
