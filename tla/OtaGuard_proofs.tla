-------------------------- MODULE OtaGuard_proofs --------------------------
(***************************************************************************)
(* Self-update and roll-back for any number of releases, any threshold and  *)
(* any set of bad versions: types, the lock, and what holds of the roll-    *)
(* back point, of roll-backs and of updates until a disturbance ends it;    *)
(* and the fetching of an update (OtaFetch), for any number of mirrors,     *)
(* versions and builds: what is installed was published.                    *)
(***************************************************************************)
EXTENDS OtaGuard, OtaFetch, TLAPS

(* Saturation stays within the threshold, and keeps the order of counts. *)
LEMMA SaturatedCount ==
    ASSUME NEW m \in Nat, NEW n \in Nat
    PROVE  /\ Saturated(n + 1) \in 0 .. Threshold
           /\ m <= n => Saturated(m + 1) <= Saturated(n + 1)
  BY OtaAssumption DEF Saturated

(* The guard leaves a count within bounds, whatever it decides. *)
LEMMA GuardTypes ==
    ASSUME TypeOK, GuardPasses \/ GuardForgives \/ GuardRollsBack
    PROVE  /\ attempts' \in 0 .. Threshold
           /\ dist' \in Versions \cup {Missing}
           /\ prev' \in Versions \cup {Missing}
           /\ disturbed' \subseteq Disturbances
  <1>1. attempts \in Nat /\ Threshold \in Nat
    BY OtaAssumption DEF TypeOK
  <1>2. Count \in 0 .. Threshold /\ 0 \in 0 .. Threshold
    BY <1>1, SaturatedCount, OtaAssumption DEF Count
  <1>3. /\ dist \in Versions \cup {Missing} /\ prev \in Versions \cup {Missing}
        /\ disturbed \subseteq Disturbances
    BY DEF TypeOK
  <1>4. CASE GuardPasses
    BY <1>2, <1>3, <1>4 DEF GuardPasses
  <1>5. CASE GuardForgives
    BY <1>2, <1>3, <1>5 DEF GuardForgives
  <1>6. CASE GuardRollsBack
    BY <1>2, <1>3, <1>6 DEF GuardRollsBack, Disturb
  <1> QED BY <1>4, <1>5, <1>6

(* TypeOK: all variables keep their types. *)
THEOREM TypeCorrect == Spec => []TypeOK
  <1>1. Init => TypeOK
    <2> SUFFICES ASSUME Init PROVE TypeOK
      OBVIOUS
    <2>1. 1 \in Versions /\ 0 \in 0 .. Threshold
      BY OtaAssumption DEF Versions
    <2>2. update \in [step : {"none", "tags", "fetching"},
                     current : Versions \cup {Missing}, latest : Versions \cup {Missing}]
      BY DEF Init, NoUpdate
    <2>3. health \in [version : Versions \cup {Missing}, fresh : BOOLEAN]
      BY DEF Init
    <2>4. update.step = "none"
      BY DEF Init, NoUpdate
    <2> QED BY <2>1, <2>2, <2>3, <2>4 DEF Init, TypeOK, Missing
  <1>2. TypeOK /\ [Next]_vars => TypeOK'
    <2> SUFFICES ASSUME TypeOK, [Next]_vars PROVE TypeOK'
      OBVIOUS
    <2> USE DEF Missing
    <2>0. /\ MaxVersion \in Nat /\ Threshold \in Nat
          /\ starts \in Nat /\ crashes \in Nat /\ Threshold # 0
          /\ 0 \in 0 .. Threshold /\ 1 \in 0 .. Threshold
      BY OtaAssumption DEF TypeOK
    <2>1. CASE Boot
      <3>1. /\ attempts' \in 0 .. Threshold
            /\ dist' \in Versions \cup {Missing}
            /\ prev' \in Versions \cup {Missing}
            /\ disturbed' \subseteq Disturbances
        BY <2>1, GuardTypes DEF Boot
      <3>2. starts' \in 0 .. Threshold /\ crashes' \in 0 .. Threshold
        BY <2>0, <2>1, SaturatedCount DEF Boot, TypeOK
      <3>3. lock' \in BOOLEAN
        BY <2>1 DEF Boot, TypeOK
      <3>4. timer' \in BOOLEAN /\ restart' \in BOOLEAN
        BY <2>1 DEF Boot
      <3> QED BY <2>1, <3>1, <3>2, <3>3, <3>4 DEF Boot, TypeOK
    <2>2. CASE BootKilled
      <3>1. Count \in 0 .. Threshold
        BY <2>0, SaturatedCount DEF Count, TypeOK
      <3> QED BY <2>0, <2>2, <3>1 DEF BootKilled, TypeOK, FreshInDist, process, Disturb
    <2>3. CASE Crash
      BY <2>0, <2>3, SaturatedCount DEF Crash, Down, NoUpdate, TypeOK, files
    <2>4. CASE Stop
      BY <2>4 DEF Stop, Down, NoUpdate, TypeOK, files, history
    <2>5. CASE ConfirmHealth
      BY <2>5 DEF ConfirmHealth, up, TypeOK, files
    <2>6. CASE GoesStale
      BY <2>6 DEF GoesStale, TypeOK, files, process, history
    <2>7. CASE Publish
      BY <2>0, <2>7 DEF Publish, TypeOK, files, process, history, Versions
    <2>8. CASE PerformUpdate
      BY <2>8 DEF PerformUpdate, TypeOK, files, history
    <2>9. CASE TagsArrive
      BY <2>9 DEF TagsArrive, TypeOK, files, history
    <2>10. CASE UpdateGivesUp
      BY <2>10 DEF UpdateGivesUp, NoUpdate, TypeOK, files, history
    <2>11. CASE Replace
      BY <2>0, <2>11 DEF Replace, NoUpdate, TypeOK, FreshInDist, Disturb
    <2>12. CASE ReplaceFails
      BY <2>12 DEF ReplaceFails, NoUpdate, TypeOK, Disturb
    <2>13. CASE ReplaceKilled
      BY <2>0, <2>13 DEF ReplaceKilled, Down, NoUpdate, TypeOK, FreshInDist, Disturb
    <2>14. ASSUME NEW v \in Versions, Deploy(v) PROVE TypeOK'
      BY <2>0, <2>14 DEF Deploy, up, TypeOK, FreshInDist, Disturb
    <2>15. CASE ManualRollback
      BY <2>0, <2>15 DEF ManualRollback, up, TypeOK, FreshInDist, Disturb
    <2>16. CASE UNCHANGED vars
      BY <2>16 DEF TypeOK, vars, files, process, history
    <2> QED BY <2>1, <2>2, <2>3, <2>4, <2>5, <2>6, <2>7, <2>8, <2>9, <2>10, <2>11,
               <2>12, <2>13, <2>14, <2>15, <2>16 DEF Next
  <1> QED BY <1>1, <1>2, PTL DEF Spec

(* LockOwned: whatever is killed or fails wherever, a lock found by a       *)
(* running process is that of its own update.                               *)
THEOREM LockOwnedHolds == Spec => []LockOwned
  <1> USE DEF Missing, NoUpdate, up
  <1>1. Init => LockOwned
    BY DEF Init, LockOwned
  <1>2. TypeOK /\ LockOwned /\ [Next]_vars => LockOwned'
    <2> SUFFICES ASSUME TypeOK, LockOwned, [Next]_vars PROVE LockOwned'
      OBVIOUS
    <2>1. CASE Boot
      BY <2>1 DEF Boot, LockOwned
    <2>2. CASE BootKilled \/ Crash \/ Stop \/ ReplaceKilled
      BY <2>2 DEF BootKilled, Crash, Stop, ReplaceKilled, Down, process, LockOwned
    <2>3. CASE ConfirmHealth \/ GoesStale \/ Publish
      BY <2>3 DEF ConfirmHealth, GoesStale, Publish, process, LockOwned
    <2>4. CASE PerformUpdate \/ TagsArrive
      <3>1. PerformUpdate => update'.step = "tags"
        BY DEF PerformUpdate
      <3>2. TagsArrive => update'.step = "fetching"
        BY DEF TagsArrive, TypeOK
      <3> QED BY <2>4, <3>1, <3>2 DEF LockOwned
    <2>5. CASE UpdateGivesUp \/ Replace \/ ReplaceFails
      BY <2>5 DEF UpdateGivesUp, Replace, ReplaceFails, LockOwned
    <2>6. ASSUME NEW v \in Versions, Deploy(v) PROVE LockOwned'
      BY <2>6 DEF Deploy, LockOwned
    <2>7. CASE ManualRollback
      BY <2>7 DEF ManualRollback, LockOwned
    <2>8. CASE UNCHANGED vars
      BY <2>8 DEF vars, process, LockOwned
    <2> QED BY <2>1, <2>2, <2>3, <2>4, <2>5, <2>6, <2>7, <2>8 DEF Next
  <1> QED BY <1>1, <1>2, TypeCorrect, PTL DEF Spec

(* An update lives in the process that began it. *)
UpdateInv == ~up => update.step = "none"

(* UpdateInv: a process that is down is in no update.                       *)
LEMMA UpdateInvHolds == Spec => []UpdateInv
  <1> USE DEF Missing, NoUpdate, up
  <1>1. Init => UpdateInv
    BY DEF Init, UpdateInv
  <1>2. TypeOK /\ UpdateInv /\ [Next]_vars => UpdateInv'
    <2> SUFFICES ASSUME TypeOK, UpdateInv, [Next]_vars PROVE UpdateInv'
      OBVIOUS
    <2>1. CASE Boot \/ BootKilled
      BY <2>1 DEF Boot, BootKilled, process, UpdateInv
    <2>2. CASE Crash \/ Stop \/ ReplaceKilled
      BY <2>2 DEF Crash, Stop, ReplaceKilled, Down, UpdateInv
    <2>3. CASE ConfirmHealth \/ GoesStale \/ Publish
      BY <2>3 DEF ConfirmHealth, GoesStale, Publish, process, UpdateInv
    <2>4. CASE PerformUpdate
      BY <2>4 DEF PerformUpdate, UpdateInv
    <2>5. CASE TagsArrive
      BY <2>5 DEF TagsArrive, UpdateInv, TypeOK
    <2>6. CASE UpdateGivesUp \/ Replace \/ ReplaceFails
      BY <2>6 DEF UpdateGivesUp, Replace, ReplaceFails, UpdateInv
    <2>7. ASSUME NEW v \in Versions, Deploy(v) PROVE UpdateInv'
      BY <2>7 DEF Deploy, UpdateInv
    <2>8. CASE ManualRollback
      BY <2>8 DEF ManualRollback, UpdateInv
    <2>9. CASE UNCHANGED vars
      BY <2>9 DEF vars, process, UpdateInv
    <2> QED BY <2>1, <2>2, <2>3, <2>4, <2>5, <2>6, <2>7, <2>8, <2>9 DEF Next
  <1> QED BY <1>1, <1>2, TypeCorrect, PTL DEF Spec

(* SomeVersionLeft: until a file operation fails, kills at any point of an  *)
(* update or a roll-back, and deployments beside them, leave a version to   *)
(* start.  A running process has one in dist.                               *)
THEOREM SomeVersionLeftHolds == Spec => []SomeVersionLeft
  <1> DEFINE Inv == /\ SomeVersionLeft
                    /\ "io" \notin disturbed => (up => dist # Missing)
  <1> USE DEF Missing, NoUpdate, up
  <1>1. Init => Inv
    BY DEF Init, SomeVersionLeft
  <1>2. TypeOK /\ UpdateInv /\ Inv /\ [Next]_vars => Inv'
    <2> SUFFICES ASSUME TypeOK, UpdateInv, Inv, [Next]_vars PROVE Inv'
      OBVIOUS
    <2>0. 0 \notin Versions
      BY OtaAssumption DEF Versions
    <2>1. CASE Boot
      BY <2>1 DEF Boot, GuardPasses, GuardForgives, GuardRollsBack, Disturb, Crashloop, SomeVersionLeft
    <2>2. CASE BootKilled
      BY <2>2 DEF BootKilled, Disturb, Crashloop, process, SomeVersionLeft
    <2>3. CASE Crash \/ Stop
      BY <2>3 DEF Crash, Stop, Down, files, history, SomeVersionLeft
    <2>4. CASE ConfirmHealth \/ GoesStale \/ Publish
      BY <2>4 DEF ConfirmHealth, GoesStale, Publish, files, process, history, SomeVersionLeft
    <2>5. CASE PerformUpdate \/ TagsArrive \/ UpdateGivesUp
      BY <2>5 DEF PerformUpdate, TagsArrive, UpdateGivesUp, files, history, SomeVersionLeft
    <2>6. CASE Replace
      BY <2>0, <2>6 DEF Replace, Disturb, TypeOK, SomeVersionLeft
    <2>7. CASE ReplaceFails
      BY <2>7 DEF ReplaceFails, Disturb, SomeVersionLeft
    <2>8. CASE ReplaceKilled
      BY <2>0, <2>8 DEF ReplaceKilled, Disturb, Down, TypeOK, UpdateInv, SomeVersionLeft
    <2>9. ASSUME NEW v \in Versions, Deploy(v) PROVE Inv'
      BY <2>0, <2>9 DEF Deploy, Disturb, SomeVersionLeft
    <2>10. CASE ManualRollback
      BY <2>10 DEF ManualRollback, Disturb, SomeVersionLeft
    <2>11. CASE UNCHANGED vars
      BY <2>11 DEF vars, files, process, history, SomeVersionLeft
    <2> QED BY <2>1, <2>2, <2>3, <2>4, <2>5, <2>6, <2>7, <2>8, <2>9, <2>10, <2>11 DEF Next
  <1>3. Inv => SomeVersionLeft
    OBVIOUS
  <1> QED BY <1>1, <1>2, <1>3, TypeCorrect, UpdateInvHolds, PTL DEF Spec

(* RollbackNeedsStarts: as long as there was neither a kill nor an error,   *)
(* the counter never exceeds the starts of the version in dist while there  *)
(* is a roll-back point.                                                    *)
THEOREM RollbackNeedsStartsHolds == Spec => RollbackNeedsStarts
  <1> DEFINE Inv == disturbed \subseteq {"deploy"} /\ prev # Missing => attempts <= starts
  <1> USE DEF Missing
  <1>1. Init => Inv
    BY DEF Init
  <1>2. TypeOK /\ Inv /\ [Next]_vars => Inv'
    <2> SUFFICES ASSUME TypeOK, Inv, [Next]_vars PROVE Inv'
      OBVIOUS
    <2>0. /\ Threshold \in Nat /\ attempts \in Nat /\ starts \in Nat
      BY OtaAssumption DEF TypeOK
    <2>1. CASE Boot
      <3>1. CASE GuardPasses
        BY <2>0, <2>1, <3>1, SaturatedCount DEF Boot, GuardPasses, Count
      <3>2. CASE GuardForgives
        BY <2>0, <2>1, <3>2, SaturatedCount DEF Boot, GuardForgives
      <3>3. CASE GuardRollsBack
        BY <3>3 DEF GuardRollsBack, Disturb
      <3> QED BY <2>1, <3>1, <3>2, <3>3 DEF Boot
    <2>2. CASE BootKilled \/ ReplaceFails \/ ReplaceKilled
      BY <2>2 DEF BootKilled, ReplaceFails, ReplaceKilled, Disturb
    <2>3. CASE Crash \/ Stop
      BY <2>3 DEF Crash, Stop, files, history
    <2>4. CASE ConfirmHealth \/ GoesStale \/ Publish
      BY <2>4 DEF ConfirmHealth, GoesStale, Publish, files, history
    <2>5. CASE PerformUpdate \/ TagsArrive \/ UpdateGivesUp
      BY <2>5 DEF PerformUpdate, TagsArrive, UpdateGivesUp, files, history
    <2>6. CASE Replace
      BY <2>6 DEF Replace, FreshInDist, Disturb
    <2>7. ASSUME NEW v \in Versions, Deploy(v) PROVE Inv'
      BY <2>7 DEF Deploy, FreshInDist, Disturb
    <2>8. CASE ManualRollback
      BY <2>8 DEF ManualRollback
    <2>9. CASE UNCHANGED vars
      BY <2>9 DEF vars, files, history
    <2> QED BY <2>1, <2>2, <2>3, <2>4, <2>5, <2>6, <2>7, <2>8, <2>9 DEF Next
  <1>3. TypeOK /\ Inv => (RolledBack /\ dist # Missing /\ disturbed \subseteq {"deploy"}
                              => starts >= Threshold - 1)
    BY OtaAssumption DEF TypeOK, RolledBack, Crashloop, Count, Saturated
  <1> QED BY <1>1, <1>2, <1>3, TypeCorrect, PTL DEF Spec, RollbackNeedsStarts

(* OnlyUpward: when nobody deploys by hand, dist does not change between    *)
(* the reading of the current version and the replacement, so an update     *)
(* never goes back.                                                         *)
THEOREM OnlyUpwardHolds == Spec => OnlyUpward
  <1> DEFINE Inv == "deploy" \notin disturbed /\ update.step # "none" => update.current = dist
  <1> USE DEF Missing, NoUpdate, up
  <1>1. Init => Inv
    BY DEF Init
  <1>2. TypeOK /\ UpdateInv /\ Inv /\ [Next]_vars => Inv'
    <2> SUFFICES ASSUME TypeOK, UpdateInv, Inv, [Next]_vars PROVE Inv'
      OBVIOUS
    <2>1. CASE Boot \/ BootKilled
      BY <2>1 DEF Boot, BootKilled, process, UpdateInv
    <2>2. CASE Crash \/ Stop \/ ReplaceKilled
      BY <2>2 DEF Crash, Stop, ReplaceKilled, Down
    <2>3. CASE ConfirmHealth \/ GoesStale \/ Publish
      BY <2>3 DEF ConfirmHealth, GoesStale, Publish, files, process, history
    <2>4. CASE PerformUpdate
      BY <2>4 DEF PerformUpdate, files, history
    <2>5. CASE TagsArrive
      BY <2>5 DEF TagsArrive, files, history, TypeOK
    <2>6. CASE UpdateGivesUp \/ Replace \/ ReplaceFails
      BY <2>6 DEF UpdateGivesUp, Replace, ReplaceFails
    <2>7. ASSUME NEW v \in Versions, Deploy(v) PROVE Inv'
      BY <2>7 DEF Deploy, Disturb
    <2>8. CASE ManualRollback
      BY <2>8 DEF ManualRollback, Disturb
    <2>9. CASE UNCHANGED vars
      BY <2>9 DEF vars, files, process, history
    <2> QED BY <2>1, <2>2, <2>3, <2>4, <2>5, <2>6, <2>7, <2>8, <2>9 DEF Next
  <1>3. TypeOK /\ Inv => (Replace /\ "deploy" \notin disturbed => dist' > dist)
    BY DEF TypeOK, Replace
  <1> QED BY <1>1, <1>2, <1>3, TypeCorrect, UpdateInvHolds, PTL DEF Spec, OnlyUpward

----------------------------------------------------------------------------
(* Fetching an update *)

Parcels == [version : Nat, build : Nat]

JobRecs == [pc : {"idle", "tags", "known", "package", "checksum", "verify", "unpack", "install"},
            at : Nat, newest : {0} \cup Releases, current : Nat]

TagLists == [newest : {0} \cup Releases, young : BOOLEAN]

(* A package of a build that github.com has published. *)
Published(p) == p.version \in Releases /\ p.build \in 1 .. builds[p.version]
Sound(p) == <<p.version, p.build>> \notin Unsound

FetchShape ==
    /\ builds \in [Releases -> Nat] /\ job \in [Jobs -> JobRecs]
    /\ cached \in TagLists
    /\ file \in Parcels /\ tree \in Parcels
    /\ file.version # 0 => Published(file)

(* The directory is empty until a package that was verified is unpacked,    *)
(* once: an archive that is refused half way is never installed.            *)
UpdateStage ==
    LET pc == job["update"].pc IN
    /\ pc \in {"package", "checksum", "verify"} => out = Nothing
    /\ pc \in {"package", "checksum", "verify", "unpack"} => Wanted > 0
    /\ pc = "unpack" => Published(file) /\ (out = Nothing \/ ~Sound(file))
    /\ pc = "install" => out \in Parcels /\ Published(out) /\ Sound(out)

FetchInv == FetchShape /\ UpdateStage /\ InstalledIsPublished

LEMMA ParcelShape ==
    /\ Nothing \in Parcels /\ Broken \in Parcels /\ Nothing.version = 0 /\ Broken.version = 0
    /\ \A v, b \in Nat : Build(v, b) \in Parcels /\ Build(v, b).version = v /\ Build(v, b).build = b
    /\ NoJob \in JobRecs /\ NoJob.pc = "idle" /\ "update" \in Jobs
    /\ Releases \subseteq Nat /\ 0 \notin Releases
    /\ Direct \in Nat
BY FetchAssumption DEF Nothing, Broken, Parcels, Build, NoJob, JobRecs, Jobs, Releases, Direct

(* What is published stays published. *)
LEMMA StaysPublished ==
    ASSUME builds \in [Releases -> Nat], builds' \in [Releases -> Nat],
           \A v \in Releases : builds[v] <= builds'[v], NEW p, Published(p)
    PROVE  p.version \in Releases /\ p.build \in 1 .. builds'[p.version]
BY DEF Published

LEMMA ReleaseKeeps ==
    ASSUME FetchInv, Release
    PROVE  FetchInv'
<1> USE DEF FetchInv, FetchShape
<1>1. UNCHANGED <<cached, job, file, out, tree>>
  BY DEF Release
<1>2. PICK v \in Releases : builds' = [builds EXCEPT ![v] = @ + 1]
  BY DEF Release
<1>3. builds' \in [Releases -> Nat] /\ \A w \in Releases : builds[w] <= builds'[w]
  BY <1>2
<1>4. \A p : Published(p) => p.version \in Releases /\ p.build \in 1 .. builds'[p.version]
  BY <1>3, StaysPublished
<1>5. FetchShape'
  BY <1>1, <1>3, <1>4 DEF Published
<1>6. UpdateStage'
  BY <1>1, <1>4 DEF UpdateStage, Published, Wanted, Sound
<1>7. InstalledIsPublished'
  BY <1>1, <1>4 DEF InstalledIsPublished, Published
<1> QED BY <1>5, <1>6, <1>7

(* A step of one job that leaves the packages alone. *)
LEMMA JobSteps ==
    ASSUME FetchInv, NEW j \in Jobs, NEW me \in JobRecs, job' = [job EXCEPT ![j] = me],
           cached' \in TagLists, UNCHANGED <<builds, file, out, tree>>,
           j = "update" => me.pc \in {"idle", "tags", "known"}
    PROVE  FetchInv'
<1> USE DEF FetchInv, FetchShape
<1>1. /\ job' \in [Jobs -> JobRecs] /\ job'[j] = me
      /\ \A i \in Jobs : i # j => job'[i] = job[i]
  OBVIOUS
<1>2. FetchShape'
  BY <1>1 DEF Published
<1>3. UpdateStage'
  BY <1>1, ParcelShape DEF UpdateStage, Published, Wanted, Sound
<1>4. InstalledIsPublished'
  BY DEF InstalledIsPublished
<1> QED BY <1>2, <1>3, <1>4

LEMMA ChecksKeep ==
    ASSUME FetchInv,
           \/ CacheAges
           \/ \E j \in Jobs : \/ Begin(j) \/ TagsRefused(j) \/ CheckEnds(j)
                              \/ \E v \in Releases : TagsGiven(j, v)
    PROVE  FetchInv'
<1>1. job \in [Jobs -> JobRecs] /\ cached \in TagLists /\ tree \in Parcels
  BY DEF FetchInv, FetchShape, TagLists
<1>2. CASE CacheAges
  BY <1>1, <1>2 DEF CacheAges, FetchInv, FetchShape, UpdateStage, InstalledIsPublished,
                    Published, Wanted, Sound, TagLists
<1>3. ASSUME NEW j \in Jobs, Begin(j)
      PROVE  FetchInv'
  <2> DEFINE me == IF j # "panel" /\ cached.young
                   THEN [pc |-> "known", at |-> 1, newest |-> cached.newest, current |-> tree.version]
                   ELSE [pc |-> "tags", at |-> 1, newest |-> 0, current |-> tree.version]
  <2>1. me \in JobRecs /\ me.pc \in {"idle", "tags", "known"}
    BY <1>1 DEF JobRecs, Parcels, TagLists
  <2>2. job' = [job EXCEPT ![j] = me] /\ UNCHANGED <<builds, cached, file, out, tree>>
    BY <1>3 DEF Begin
  <2> HIDE DEF me
  <2> QED BY <1>1, <2>1, <2>2, JobSteps
<1>4. ASSUME NEW j \in Jobs, TagsRefused(j)
      PROVE  FetchInv'
  <2> DEFINE me == IF job[j].at = Direct THEN [job[j] EXCEPT !.pc = "known"]
                   ELSE [job[j] EXCEPT !.at = job[j].at + 1]
  <2>1. me \in JobRecs /\ me.pc \in {"idle", "tags", "known"}
    BY <1>1, <1>4 DEF TagsRefused, JobRecs
  <2>2. job' = [job EXCEPT ![j] = me] /\ UNCHANGED <<builds, cached, file, out, tree>>
    BY <1>1, <1>4 DEF TagsRefused
  <2> HIDE DEF me
  <2> QED BY <1>1, <2>1, <2>2, JobSteps
<1>5. ASSUME NEW j \in Jobs, NEW v \in Releases, TagsGiven(j, v)
      PROVE  FetchInv'
  <2> DEFINE me == [job[j] EXCEPT !.pc = "known", !.newest = v, !.at = 1]
  <2>1. me \in JobRecs /\ me.pc = "known"
    <3>1. job[j] \in JobRecs
      BY <1>1
    <3> QED BY <3>1 DEF JobRecs
  <2>2. job' = [job EXCEPT ![j] = me] /\ UNCHANGED <<builds, file, out, tree>>
    BY <1>1, <1>5 DEF TagsGiven
  <2>3. cached' \in TagLists
    BY <1>1, <1>5, ParcelShape DEF TagsGiven, TagLists
  <2> HIDE DEF me
  <2> QED BY <2>1, <2>2, <2>3, JobSteps
<1>6. ASSUME NEW j \in Jobs, CheckEnds(j)
      PROVE  FetchInv'
  BY <1>1, <1>6, ParcelShape, JobSteps DEF CheckEnds
<1> QED BY <1>2, <1>3, <1>4, <1>5, <1>6

(* A step of the update: its job goes on, from a stage that is as it should *)
(* be to one that is.                                                       *)
LEMMA UpdateSteps ==
    ASSUME FetchInv, NEW me \in JobRecs, job' = [job EXCEPT !["update"] = me],
           UNCHANGED <<builds, cached>>, file' \in Parcels,
           file'.version # 0 => Published(file'),
           tree' = tree \/ (tree' = out /\ job["update"].pc = "install"),
           /\ me.pc \in {"package", "checksum", "verify"} => out' = Nothing
           /\ me.pc \in {"package", "checksum", "verify", "unpack"} => me.newest > 0
           /\ me.pc = "unpack" => Published(file') /\ (out' = Nothing \/ ~Sound(file'))
           /\ me.pc = "install" => out' \in Parcels /\ Published(out') /\ Sound(out')
    PROVE  FetchInv'
<1> USE DEF FetchInv, FetchShape
<1>1. job' \in [Jobs -> JobRecs] /\ job'["update"] = me
  BY ParcelShape
<1>2. tree' \in Parcels
  BY DEF UpdateStage
<1>3. FetchShape'
  BY <1>1, <1>2 DEF Published
<1>4. UpdateStage'
  BY <1>1 DEF UpdateStage, Published, Wanted, Sound
<1>5. InstalledIsPublished'
  BY DEF InstalledIsPublished, UpdateStage, Published, Sound
<1> QED BY <1>3, <1>4, <1>5

LEMMA UpdateKeeps ==
    ASSUME FetchInv,
           \/ Prepare \/ GivesUp \/ PackageRefused
           \/ \E b \in 1 .. MaxBuild : PackageGiven(Build(Wanted, b))
           \/ PackageGiven(Broken)
           \/ ChecksumGiven \/ Verifies \/ Unpacks \/ Install
    PROVE  FetchInv'
<1> DEFINE me == job["update"]
<1>1. /\ job \in [Jobs -> JobRecs] /\ me \in JobRecs /\ file \in Parcels /\ tree \in Parcels
      /\ file.version # 0 => Published(file)
      /\ Wanted = me.newest /\ me.newest \in {0} \cup Releases /\ me.newest \in Nat
      /\ me.current \in Nat /\ me.at \in Nat
  <2>1. /\ job \in [Jobs -> JobRecs] /\ me \in JobRecs /\ file \in Parcels /\ tree \in Parcels
        /\ file.version # 0 => Published(file)
    BY ParcelShape DEF FetchInv, FetchShape
  <2>2. me.newest \in {0} \cup Releases /\ me.current \in Nat /\ me.at \in Nat
    BY <2>1 DEF JobRecs
  <2>3. Wanted = me.newest /\ me.newest \in Nat
    <3>1. Wanted = me.newest
      BY DEF Wanted
    <3>2. {0} \cup Releases \subseteq Nat
      BY ParcelShape
    <3> QED BY <2>2, <3>1, <3>2
  <2> QED BY <2>1, <2>2, <2>3
<1>2. UpdateStage
  BY DEF FetchInv
<1>3. \A pc \in {"package", "checksum", "verify", "unpack", "install"} :
         /\ [me EXCEPT !.pc = pc] \in JobRecs /\ [me EXCEPT !.pc = pc].pc = pc
         /\ [me EXCEPT !.pc = pc].newest = me.newest
         /\ Goes("update", pc) => job' = [job EXCEPT !["update"] = [me EXCEPT !.pc = pc]]
  BY <1>1, ParcelShape DEF Goes, JobRecs
<1>4. CASE Prepare
  <2>1. Wanted > 0
    BY <1>1, <1>4 DEF Prepare
  <2> QED BY <1>1, <1>3, <1>4, <2>1, ParcelShape, UpdateSteps DEF Prepare, Cleared
<1>5. CASE GivesUp
  BY <1>1, <1>5, ParcelShape, UpdateSteps DEF GivesUp, Cleared, Ends
<1>6. CASE PackageRefused
  <2> DEFINE new == [me EXCEPT !.at = me.at + 1]
  <2>1. new \in JobRecs /\ new.pc = me.pc /\ new.newest = me.newest
    BY <1>1 DEF JobRecs
  <2>2. /\ job' = [job EXCEPT !["update"] = new]
        /\ me.pc = "package" /\ file' \in {file, Broken}
        /\ UNCHANGED <<builds, cached, out, tree>>
    BY <1>1, <1>6, ParcelShape DEF PackageRefused
  <2> HIDE DEF new
  <2>3. out = Nothing /\ me.newest > 0
    BY <1>1, <1>2, <2>2 DEF UpdateStage
  <2>4. file' \in Parcels /\ (file'.version # 0 => Published(file'))
    BY <1>1, <2>2, ParcelShape
  <2> QED BY <2>1, <2>2, <2>3, <2>4, UpdateSteps
<1>7. ASSUME NEW p, PackageGiven(p), p = Broken \/ \E b \in 1 .. MaxBuild : p = Build(Wanted, b)
      PROVE  FetchInv'
  <2>1. /\ me.pc = "package" /\ file' = p /\ Goes("update", "checksum")
        /\ UNCHANGED <<builds, cached, out, tree>>
    BY <1>7 DEF PackageGiven
  <2>2. out = Nothing /\ Wanted > 0
    BY <1>2, <2>1 DEF UpdateStage
  <2>3. p \in Parcels
    BY <1>1, <1>7, ParcelShape, FetchAssumption
  <2>4. p.version # 0 => Published(p)
    <3> SUFFICES ASSUME p.version # 0 PROVE Published(p)
      OBVIOUS
    <3>1. PICK b \in 1 .. MaxBuild : p = Build(Wanted, b)
      BY <1>7, ParcelShape
    <3>2. Wanted \in Releases /\ Wanted \in Nat /\ builds[Wanted] \in Nat
      BY <1>1, <2>2 DEF FetchInv, FetchShape
    <3>3. PICK c \in 0 .. builds[Wanted] : p = Build(Wanted, c)
      BY <1>7, <3>2, ParcelShape DEF PackageGiven
    <3>4. p.version = Wanted /\ p.build = b /\ p.build = c
      BY <3>1, <3>3 DEF Build
    <3> QED BY <3>2, <3>4 DEF Published
  <2> QED BY <1>1, <1>3, <2>1, <2>2, <2>3, <2>4, UpdateSteps
<1>8. CASE ChecksumGiven
  BY <1>1, <1>2, <1>3, <1>8, UpdateSteps DEF ChecksumGiven, UpdateStage
<1>9. CASE Verifies
  <2>1. /\ me.pc = "verify" /\ file = Build(Wanted, sum) /\ Goes("update", "unpack")
        /\ UNCHANGED <<builds, cached, file, out, tree>>
    BY <1>9 DEF Verifies
  <2>2. out = Nothing /\ Wanted > 0
    BY <1>2, <2>1 DEF UpdateStage
  <2>3. file.version = Wanted
    BY <2>1 DEF Build
  <2>4. Published(file)
    BY <1>1, <2>2, <2>3
  <2> QED BY <1>1, <1>3, <2>1, <2>2, <2>4, UpdateSteps
<1>10. CASE Unpacks
  <2>1. /\ me.pc = "unpack" /\ out' = (IF out = Nothing THEN file ELSE Mixed)
        /\ IF ~Sound(file) THEN UNCHANGED job ELSE Goes("update", "install")
        /\ UNCHANGED <<builds, cached, file, tree>>
    BY <1>10 DEF Unpacks, Sound
  <2>2. Published(file) /\ Wanted > 0 /\ (Sound(file) => out = Nothing)
    BY <1>2, <2>1 DEF UpdateStage
  <2>3. CASE Sound(file)
    BY <1>1, <1>3, <2>1, <2>2, <2>3, UpdateSteps
  <2>4. CASE ~Sound(file)
    <3>1. job' = [job EXCEPT !["update"] = me]
      BY <1>1, <2>1, <2>4
    <3> QED BY <1>1, <2>1, <2>2, <2>4, <3>1, UpdateSteps
  <2> QED BY <2>3, <2>4
<1>11. CASE Install
  BY <1>1, <1>11, ParcelShape, UpdateSteps DEF Install, Cleared, Ends
<1> QED BY <1>4, <1>5, <1>6, <1>7, <1>8, <1>9, <1>10, <1>11

LEMMA RestartsKeeps ==
    ASSUME FetchInv, Restarts
    PROVE  FetchInv'
<1> USE DEF FetchInv, FetchShape
<1>1. /\ job' = [j \in Jobs |-> NoJob] /\ UNCHANGED <<builds, file, tree>>
      /\ cached' = [newest |-> 0, young |-> FALSE]
  BY DEF Restarts
<1>2. FetchShape'
  BY <1>1, ParcelShape DEF Published, TagLists
<1>3. UpdateStage'
  BY <1>1, ParcelShape DEF UpdateStage
<1>4. InstalledIsPublished'
  BY <1>1 DEF InstalledIsPublished
<1> QED BY <1>2, <1>3, <1>4

LEMMA FetchInvHolds == FetchSpec => []FetchInv
<1>1. FetchInit => FetchInv
  <2> SUFFICES ASSUME FetchInit PROVE FetchInv
    OBVIOUS
  <2>1. 1 \in Releases /\ 1 \in Nat
    BY FetchAssumption DEF Releases
  <2>2. /\ tree = Build(1, 1) /\ file = Nothing /\ job = [j \in Jobs |-> NoJob]
        /\ builds = [v \in Releases |-> IF v = 1 THEN 1 ELSE 0]
        /\ cached = [newest |-> 0, young |-> FALSE]
    BY DEF FetchInit
  <2>3. FetchShape
    BY <2>1, <2>2, ParcelShape DEF FetchShape, TagLists
  <2>4. UpdateStage
    BY <2>2, ParcelShape DEF UpdateStage
  <2>5. InstalledIsPublished
    BY <2>1, <2>2, ParcelShape, FetchAssumption DEF InstalledIsPublished
  <2> QED BY <2>3, <2>4, <2>5 DEF FetchInv
<1>2. FetchInv /\ [FetchNext]_fetchVars => FetchInv'
  <2> SUFFICES ASSUME FetchInv, [FetchNext]_fetchVars PROVE FetchInv'
    OBVIOUS
  <2>1. CASE UNCHANGED fetchVars
    BY <2>1 DEF fetchVars, FetchInv, FetchShape, UpdateStage, InstalledIsPublished,
                Published, Wanted, Sound
  <2>2. CASE FetchNext
    BY <2>2, ReleaseKeeps, ChecksKeep, UpdateKeeps, RestartsKeeps DEF FetchNext
  <2> QED BY <2>1, <2>2
<1> QED BY <1>1, <1>2, PTL DEF FetchSpec

(* Whatever the mirrors hand out and whenever the process is stopped, dist   *)
(* is a sound build that was published under its version, and whole         *)
(* (ota.ts, header).                                                        *)
THEOREM InstalledIsPublishedHolds == FetchSpec => []InstalledIsPublished
<1>1. FetchInv => InstalledIsPublished
  BY DEF FetchInv
<1> QED BY <1>1, FetchInvHolds, PTL
=============================================================================
