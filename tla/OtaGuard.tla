------------------------------ MODULE OtaGuard ------------------------------
(***************************************************************************)
(* Self-update and roll-back: the update running in the process (src/ota.ts *)
(* performUpdate), the health marker it writes (main.ts, ota-guard.ts), and *)
(* the guard systemd runs before every start (scripts/rollback-guard.sh),   *)
(* which share the directories dist/ and dist.prev/, the start counter, the *)
(* health marker and the lock file.  deploy.sh works on the same files.     *)
(*                                                                          *)
(* A version is a number, 0 stands for a missing directory; the version     *)
(* that currentVersion() falls back to without one is taken to be lower     *)
(* than every release.  Between two awaits performUpdate runs alone, so the *)
(* whole of replaceDist is one step, unless the process is killed inside.   *)
(***************************************************************************)
EXTENDS Naturals

CONSTANTS
    MaxVersion,     \* bound: the last version that is ever released
    Threshold,      \* FC_ROLLBACK_THRESHOLD
    Bad,            \* versions that always crash before they have run long
    Disturbances    \* what happens besides panel updates: "kill" between file
                    \* operations, "io" errors of theirs, "deploy" by deploy.sh

Versions == 1 .. MaxVersion
Missing == 0

ASSUME OtaAssumption ==
    /\ MaxVersion \in Nat \ {0}
    /\ Threshold \in Nat \ {0}
    /\ Bad \subseteq Versions
    /\ Disturbances \subseteq {"kill", "io", "deploy"}

VARIABLES
    remote,     \* the newest release
    dist,       \* version in dist/
    prev,       \* version in dist.prev/
    attempts,   \* boot_attempts, saturated at Threshold
    health,     \* the marker: version, and whether confirmed_at is recent
    lock,       \* .ota-lock exists
    running,    \* version the process was started from; Missing when it is down
    timer,      \* the 30 s health timer of the process is armed
    update,     \* performUpdate: where it waits, `current`, `latest`
    restart,    \* a planned restart is under way
    starts,     \* history: starts of the version in dist since it got there
    crashes,    \* history: those of them that ended in a crash
    disturbed   \* history: the disturbances there have been

files == <<dist, prev, attempts>>
process == <<running, timer, update, restart>>
history == <<starts, crashes, disturbed>>
vars == <<remote, files, health, lock, process, history>>

up == running # Missing
NoUpdate == [step |-> "none", current |-> Missing, latest |-> Missing]
Saturated(n) == IF n > Threshold THEN Threshold ELSE n

Init ==
    /\ remote = 1
    /\ dist = 1 /\ prev = Missing /\ attempts = 0
    /\ health = [version |-> Missing, fresh |-> FALSE]
    /\ lock = FALSE
    /\ running = Missing /\ timer = FALSE /\ update = NoUpdate /\ restart = FALSE
    /\ starts = 0 /\ crashes = 0 /\ disturbed = {}

(* What the history variables say of a version that has just been put in    *)
(* dist.                                                                    *)
FreshInDist == starts' = 0 /\ crashes' = 0

Disturb(what) == what \in Disturbances /\ disturbed' = disturbed \cup {what}

----------------------------------------------------------------------------
(* The guard and the start of the process *)

Count == Saturated(attempts + 1)
(* Mutant: without dist/ there is nothing to roll back. *)
CrashloopOfDist == prev # Missing /\ dist # Missing /\ Count >= Threshold
Crashloop == prev # Missing /\ Count >= Threshold
LongConfirmed == dist # Missing /\ health.version = dist /\ ~health.fresh

(* No crash loop, or no roll-back point. *)
GuardPasses == ~Crashloop /\ attempts' = Count /\ UNCHANGED <<dist, prev, disturbed>>

(* A version that was confirmed long ago: the failures are not its own. *)
GuardForgives ==
    Crashloop /\ LongConfirmed /\ attempts' = 0 /\ UNCHANGED <<dist, prev, disturbed>>

(* dist is kept as evidence and dist.prev takes its place.                  *)
(* If the first mv fails, the second moves dist.prev INTO dist; if the      *)
(* second fails, dist is put back, or that fails too.                       *)
GuardRollsBack ==
    /\ Crashloop /\ ~LongConfirmed
    /\ \/ /\ dist' = prev /\ prev' = Missing /\ attempts' = 0
          /\ UNCHANGED disturbed
       \/ /\ Disturb("io") /\ dist # Missing
          /\ dist' = dist /\ prev' = Missing /\ attempts' = 0
       \/ /\ Disturb("io")
          /\ dist' \in {dist, Missing} /\ prev' = prev /\ attempts' = Count

(* Mutant: the lock of a process that died is not cleared. *)
BootLocked ==
    /\ ~up
    /\ GuardPasses \/ GuardForgives \/ GuardRollsBack
    /\ running' = dist'
    /\ timer' = (dist' # Missing)
    /\ restart' = FALSE
    /\ IF dist' = dist
       THEN starts' = Saturated(starts + 1) /\ UNCHANGED crashes
       ELSE starts' = 1 /\ crashes' = 0
    /\ UNCHANGED <<remote, health, lock, update>>

(* ExecStartPre, then ExecStart; a start without dist/ fails at once. *)
Boot ==
    /\ ~up
    /\ GuardPasses \/ GuardForgives \/ GuardRollsBack
    /\ running' = dist'
    /\ timer' = (dist' # Missing)
    /\ lock' = IF dist' # Missing THEN FALSE ELSE lock
    /\ restart' = FALSE
    /\ IF dist' = dist
       THEN starts' = Saturated(starts + 1) /\ UNCHANGED crashes
       ELSE starts' = 1 /\ crashes' = 0
    /\ UNCHANGED <<remote, health, update>>

(* The machine goes down while the guard is moving directories. *)
BootKilled ==
    /\ Disturb("kill") /\ ~up
    /\ Crashloop /\ ~LongConfirmed
    /\ attempts' = Count
    /\ \/ dist' = Missing /\ prev' = prev
       \/ dist' = prev /\ prev' = Missing
    /\ FreshInDist
    /\ UNCHANGED <<remote, health, lock, process>>

Down == /\ running' = Missing /\ timer' = FALSE
        /\ update' = NoUpdate /\ restart' = FALSE

(* The process dies by itself; a lock it held stays behind. *)
Crash ==
    /\ up /\ Down
    /\ crashes' = Saturated(crashes + 1)
    /\ UNCHANGED <<remote, files, health, lock, starts, disturbed>>

(* A planned stop: by the restart that follows an update, or by systemctl. *)
Stop ==
    /\ up /\ Down
    /\ UNCHANGED <<remote, files, health, lock, history>>

(* Mutant: a confirmation clears the counter. *)
ConfirmHealthClearing ==
    /\ up /\ timer
    /\ timer' = FALSE
    /\ health' = [version |-> dist, fresh |-> TRUE]
    /\ attempts' = 0
    /\ UNCHANGED <<remote, dist, prev, lock, running, update, restart, starts, crashes, disturbed>>

(* 30 s after the start: the version then in dist is confirmed. *)
ConfirmHealth ==
    /\ up /\ timer
    /\ timer' = FALSE
    /\ health' = [version |-> dist, fresh |-> TRUE]
    /\ UNCHANGED <<remote, files, lock, running, update, restart, starts, crashes, disturbed>>

(* The marker gets older than FRESH_WINDOW. *)
GoesStale ==
    /\ health.fresh
    /\ health' = [health EXCEPT !.fresh = FALSE]
    /\ UNCHANGED <<remote, files, lock, process, history>>

----------------------------------------------------------------------------
(* The update *)

Publish == remote < MaxVersion /\ remote' = remote + 1
           /\ UNCHANGED <<files, health, lock, process, history>>

(* performUpdate up to its first await: one at a time, by flag and by file. *)
PerformUpdate ==
    /\ up /\ update.step = "none" /\ ~lock
    /\ lock' = TRUE
    /\ update' = [step |-> "tags", current |-> dist, latest |-> Missing]
    /\ UNCHANGED <<remote, files, health, running, timer, restart, history>>

(* Mutant: whatever the newest release is, it is fetched. *)
TagsArriveAny ==
    /\ update.step = "tags"
    /\ update' = [update EXCEPT !.step = "fetching", !.latest = remote]
    /\ UNCHANGED <<remote, files, health, lock, running, timer, restart, history>>

(* The tags arrive: only a version above the one read before is fetched. *)
TagsArrive ==
    /\ update.step = "tags" /\ remote > update.current
    /\ update' = [update EXCEPT !.step = "fetching", !.latest = remote]
    /\ UNCHANGED <<remote, files, health, lock, running, timer, restart, history>>

(* Every refusal and failure before dist is touched: already up to date, no *)
(* tags, download, checksum, archive.                                       *)
UpdateGivesUp ==
    /\ update.step # "none"
    /\ update' = NoUpdate /\ lock' = FALSE
    /\ UNCHANGED <<remote, files, health, running, timer, restart, history>>

(* Mutant: the counter of the version before is left. *)
ReplaceCounting ==
    /\ update.step = "fetching"
    /\ dist' = update.latest
    /\ prev' = dist
    /\ update' = NoUpdate /\ lock' = FALSE /\ restart' = TRUE
    /\ FreshInDist
    /\ UNCHANGED <<remote, attempts, health, running, timer, disturbed>>

(* replaceDist and the removal of the counter; then the lock is freed and   *)
(* the restart scheduled.                                                   *)
Replace ==
    /\ update.step = "fetching"
    /\ dist' = update.latest
    /\ prev' = dist
    /\ \/ attempts' = 0 /\ UNCHANGED disturbed
       \/ attempts' = attempts /\ Disturb("io")
    /\ update' = NoUpdate /\ lock' = FALSE /\ restart' = TRUE
    /\ FreshInDist
    /\ UNCHANGED <<remote, health, running, timer>>

(* A rename that keeps failing: of dist, of the new tree (then dist.prev is *)
(* moved back), or of both the new tree and the way back.  dist.prev of the *)
(* last update is gone in any case.                                         *)
ReplaceFails ==
    /\ Disturb("io") /\ update.step = "fetching"
    /\ \/ dist' = dist /\ prev' = Missing
       \/ dist' = Missing /\ prev' = dist
    /\ update' = NoUpdate /\ lock' = FALSE
    /\ UNCHANGED <<remote, attempts, health, running, timer, restart, starts, crashes>>

(* The process is killed inside replaceDist or before the counter is gone. *)
ReplaceKilled ==
    /\ Disturb("kill") /\ update.step = "fetching"
    /\ \/ dist' = dist /\ prev' = Missing
       \/ dist' = Missing /\ prev' = dist
       \/ dist' = update.latest /\ prev' = dist
    /\ Down /\ FreshInDist
    /\ UNCHANGED <<remote, attempts, health, lock>>

(* deploy.sh: a locally built version, or the roll-back point, takes the    *)
(* place of dist, the counter is removed, and a restart follows.            *)
Deploy(v) ==
    /\ Disturb("deploy")
    /\ dist' = v /\ prev' = dist /\ attempts' = 0
    /\ restart' = up
    /\ FreshInDist
    /\ UNCHANGED <<remote, health, lock, running, timer, update>>

(* Mutant: deploy.sh does not test for the roll-back point. *)
ManualRollbackBlind ==
    /\ Disturb("deploy")
    /\ dist' = prev /\ prev' = Missing /\ attempts' = 0
    /\ restart' = up
    /\ FreshInDist
    /\ UNCHANGED <<remote, health, lock, running, timer, update>>

ManualRollback ==
    /\ Disturb("deploy") /\ prev # Missing
    /\ dist' = prev /\ prev' = Missing /\ attempts' = 0
    /\ restart' = up
    /\ FreshInDist
    /\ UNCHANGED <<remote, health, lock, running, timer, update>>

Next ==
    \/ Boot \/ BootKilled \/ Crash \/ Stop \/ ConfirmHealth \/ GoesStale
    \/ Publish \/ PerformUpdate \/ TagsArrive \/ UpdateGivesUp
    \/ Replace \/ ReplaceFails \/ ReplaceKilled
    \/ \E v \in Versions : Deploy(v)
    \/ ManualRollback

Spec == Init /\ [][Next]_vars

(* systemd starts the service whenever it is down (Restart=always) and      *)
(* completes a planned restart; a bad version never stops crashing.         *)
FairSpec ==
    /\ Spec
    /\ WF_vars(Boot)
    /\ WF_vars(restart /\ Stop)
    /\ WF_vars(running \in Bad /\ Crash)

----------------------------------------------------------------------------

(* Types of the variables; only a newer release is ever fetched. *)
TypeOK ==
    /\ remote \in Versions
    /\ dist \in Versions \cup {Missing} /\ prev \in Versions \cup {Missing}
    /\ attempts \in 0 .. Threshold
    /\ health \in [version : Versions \cup {Missing}, fresh : BOOLEAN]
    /\ lock \in BOOLEAN
    /\ running \in Versions \cup {Missing}
    /\ timer \in BOOLEAN /\ restart \in BOOLEAN
    /\ update \in [step : {"none", "tags", "fetching"},
                   current : Versions \cup {Missing}, latest : Versions \cup {Missing}]
    /\ update.step = "fetching" =>
          update.latest \in Versions /\ update.latest > update.current
    /\ starts \in 0 .. Threshold /\ crashes \in 0 .. Threshold
    /\ disturbed \subseteq Disturbances

(* A lock that exists while the process runs belongs to an update under way *)
(* in it: a crash in the middle of one does not bar all later updates       *)
(* (main.ts, clearStaleLock at the start).                                  *)
LockOwned == up /\ lock => update.step # "none"

(* Whatever is killed in the middle of an update or a roll-back, a version  *)
(* is left for the guard to start, until a file operation fails (ota.ts:611 *)
(* says even then "the old version is still in dist.prev").                 *)
SomeVersionLeft == "io" \notin disturbed => dist # Missing \/ prev # Missing

RolledBack == Boot /\ Crashloop /\ ~LongConfirmed /\ dist' # dist

(* A new version gets its chances: it is rolled back only when it has been  *)
(* started Threshold - 1 times before (ota.ts:740, the counter left by an   *)
(* earlier version must not undo an update).  A kill or an error before the *)
(* counter is removed can break this.                                       *)
RollbackNeedsStarts ==
    [][RolledBack /\ dist # Missing /\ disturbed \subseteq {"deploy"}
          => starts >= Threshold - 1]_vars

(* The update never goes back: what it puts in dist is above what was there *)
(* (ota.ts:703, "downgrade refused"), as long as nobody deploys by hand     *)
(* while it downloads.                                                      *)
OnlyUpward == [][Replace /\ "deploy" \notin disturbed => dist' > dist]_vars

Disturbance ==
    BootKilled \/ ReplaceKilled \/ ReplaceFails \/ (\E v \in Versions : Deploy(v)) \/ ManualRollback
      \/ (Boot /\ GuardRollsBack /\ ~(dist' = prev /\ prev' = Missing)) \/ (Replace /\ attempts' # 0)
Undisturbed == <>[][~Disturbance]_vars

(* The service comes up again after every stop, wherever it was killed, as  *)
(* long as a version is left on disk.                                       *)
ServiceReturns == Undisturbed => []<>(up \/ (dist = Missing /\ prev = Missing))

(* A version that keeps crashing does not stay when there is a good one to  *)
(* go back to, unless it has been confirmed long ago (rollback-guard.sh:17  *)
(* takes its failures for the machine's): the guard's purpose.              *)
BadVersionLeaves ==
    \A v \in Bad : Undisturbed /\ <>[]~LongConfirmed
                         => []<>~(dist = v /\ prev \notin Bad \cup {Missing})

(* rollback-guard.sh:30 and its log line 89: a roll-back answers that many  *)
(* crashes in a row at start.                                               *)
RollbackNeedsCrashes ==
    [][RolledBack /\ dist # Missing => crashes >= Threshold - 1]_vars

============================================================================
