------------------------------ MODULE OtaFetch ------------------------------
(***************************************************************************)
(* Where an update comes from (src/ota.ts, lines 40 to 592; the handlers of  *)
(* the panel in src/server.ts): the list of versions and the package are     *)
(* asked of one mirror after the other and of github.com last, the checksum  *)
(* of github.com alone.  A mirror may be down, be behind, or hand out half a *)
(* file as a whole one, and a release may be published again while it is     *)
(* being fetched.  What becomes of the tree that is unpacked here is in      *)
(* OtaGuard: the step Install is its Replace.                                *)
(*                                                                          *)
(* A build is a number, counted per version; Broken is a file that is none.  *)
(***************************************************************************)
EXTENDS Naturals

CONSTANTS
    Mirrors,        \* number of mirrors asked before github.com; 0 with OTA_TOKEN
    MaxRelease,     \* bound: versions
    MaxBuild,       \* bound: builds of a version
    Unsound         \* <<version, build>> whose archive is refused when read

(* The build the program starts with is sound. *)
ASSUME FetchAssumption ==
    /\ Mirrors \in Nat /\ MaxRelease \in Nat \ {0} /\ MaxBuild \in Nat \ {0}
    /\ <<1, 1>> \notin Unsound

Releases == 1 .. MaxRelease
Nothing == [version |-> 0, build |-> 0]
Broken == [version |-> 0, build |-> MaxBuild + 1]
Mixed == [version |-> 0, build |-> MaxBuild + 2]

VARIABLES
    builds,     \* per version: the last build published, 0 for none
    cached,     \* the list of versions kept: its newest one, and whether it is young
    job,        \* per job: where it is
    status,     \* what the panel shows of the last check
    sum,        \* the checksum: the build it is of
    file, out,  \* .ota-tmp: the package, the unpacked tree
    tree        \* dist

fetchVars == <<builds, cached, job, status, sum, file, out, tree>>

Jobs == {"background", "panel", "update"}
Direct == Mirrors + 1
NoJob == [pc |-> "idle", at |-> 0, newest |-> 0, current |-> 0]
Build(v, b) == [version |-> v, build |-> b]
Newest == CHOOSE v \in Releases : builds[v] > 0 /\ \A w \in Releases : w > v => builds[w] = 0

FetchInit ==
    /\ builds = [v \in Releases |-> IF v = 1 THEN 1 ELSE 0]
    /\ cached = [newest |-> 0, young |-> FALSE]
    /\ job = [j \in Jobs |-> NoJob]
    /\ status = [current |-> 0, newest |-> 0]
    /\ sum = 0 /\ file = Nothing /\ out = Nothing
    /\ tree = Build(1, 1)

Goes(j, pc) == job' = [job EXCEPT ![j].pc = pc]

----------------------------------------------------------------------------
(* github.com, and time *)

Release ==
    /\ \E v \in Releases : /\ v \in {Newest, Newest + 1} /\ builds[v] < MaxBuild
                           /\ builds' = [builds EXCEPT ![v] = @ + 1]
    /\ UNCHANGED <<cached, job, status, sum, file, out, tree>>

CacheAges ==
    /\ cached.young /\ cached' = [cached EXCEPT !.young = FALSE]
    /\ UNCHANGED <<builds, job, status, sum, file, out, tree>>

----------------------------------------------------------------------------
(* fetchTags(): the panel's own check goes past the cache and leaves it.     *)

(* What is left of .ota-tmp when the versions are known stays until then.    *)
Begin(j) ==
    /\ job[j].pc = "idle"
    /\ job' = [job EXCEPT ![j] =
                IF j # "panel" /\ cached.young
                THEN [pc |-> "known", at |-> 1, newest |-> cached.newest, current |-> tree.version]
                ELSE [pc |-> "tags", at |-> 1, newest |-> 0, current |-> tree.version]]
    /\ UNCHANGED <<builds, cached, status, sum, file, out, tree>>

(* A mirror may know of fewer versions than there are. *)
TagsGiven(j, v) ==
    /\ job[j].pc = "tags"
    /\ v \in IF job[j].at = Direct THEN {Newest} ELSE 1 .. Newest
    /\ job' = [job EXCEPT ![j].pc = "known", ![j].newest = v, ![j].at = 1]
    /\ cached' = IF j = "panel" THEN cached ELSE [newest |-> v, young |-> TRUE]
    /\ UNCHANGED <<builds, status, sum, file, out, tree>>

TagsRefused(j) ==
    LET me == job[j] IN
    /\ me.pc = "tags"
    /\ job' = [job EXCEPT ![j] = IF me.at = Direct THEN [me EXCEPT !.pc = "known"]
                                 ELSE [me EXCEPT !.at = @ + 1]]
    /\ UNCHANGED <<builds, cached, status, sum, file, out, tree>>

(* checkUpdate(): the last one to end is shown. *)
CheckEnds(j) ==
    /\ j # "update" /\ job[j].pc = "known"
    /\ status' = [current |-> job[j].current, newest |-> job[j].newest]
    /\ job' = [job EXCEPT ![j] = NoJob]
    /\ UNCHANGED <<builds, cached, sum, file, out, tree>>

----------------------------------------------------------------------------
(* performUpdate(), from the versions to the new tree *)

Wanted == job["update"].newest
Ends == job' = [job EXCEPT !["update"] = NoJob]
Cleared == file' = Nothing /\ out' = Nothing

(* Mutant: what an earlier update left is kept. *)
PrepareOver ==
    /\ job["update"].pc = "known" /\ Wanted > job["update"].current
    /\ Goes("update", "package")
    /\ UNCHANGED <<builds, cached, status, sum, tree, file, out>>

Prepare ==
    /\ job["update"].pc = "known" /\ Wanted > job["update"].current
    /\ Cleared
    /\ Goes("update", "package")
    /\ UNCHANGED <<builds, cached, status, sum, tree>>

(* Any error, and what is no newer version: .ota-tmp is removed. *)
GivesUp ==
    /\ job["update"].pc # "idle"
    /\ Cleared /\ Ends
    /\ UNCHANGED <<builds, cached, status, sum, tree>>

(* downloadAsset(): a body that ends early without an error counts as whole. *)
PackageGiven(p) ==
    /\ job["update"].pc = "package"
    /\ p \in {Build(Wanted, b) : b \in (IF job["update"].at = Direct THEN builds[Wanted] ELSE 1)
                                       .. builds[Wanted]} \cup {Broken}
    /\ file' = p
    /\ Goes("update", "checksum")
    /\ UNCHANGED <<builds, cached, status, sum, out, tree>>

(* An answer that is no 200, or a body that fails: the next one overwrites   *)
(* what there is of the file.                                               *)
PackageRefused ==
    /\ job["update"].pc = "package" /\ job["update"].at < Direct
    /\ job' = [job EXCEPT !["update"].at = @ + 1]
    /\ file' \in {file, Broken}
    /\ UNCHANGED <<builds, cached, status, sum, out, tree>>

(* fetchReleaseChecksum() *)
ChecksumGiven ==
    /\ job["update"].pc = "checksum"
    /\ sum' = builds[Wanted]
    /\ Goes("update", "verify")
    /\ UNCHANGED <<builds, cached, status, file, out, tree>>

(* Mutant: a package is good if its version is the one asked for. *)
VerifiesVersion ==
    /\ job["update"].pc = "verify"
    /\ file # Nothing
    /\ Goes("update", "unpack")
    /\ UNCHANGED <<builds, cached, status, sum, file, out, tree>>

Verifies ==
    /\ job["update"].pc = "verify"
    /\ file = Build(Wanted, sum)
    /\ Goes("update", "unpack")
    /\ UNCHANGED <<builds, cached, status, sum, file, out, tree>>

(* verifyAndExtractTar(): files are added to those in the directory.  A      *)
(* refused archive leaves what was unpacked to GivesUp.                     *)
Unpacks ==
    /\ job["update"].pc = "unpack"
    /\ out' = IF out = Nothing THEN file ELSE Mixed
    /\ IF <<file.version, file.build>> \in Unsound THEN UNCHANGED job ELSE Goes("update", "install")
    /\ UNCHANGED <<builds, cached, status, sum, file, tree>>

Install ==
    /\ job["update"].pc = "install"
    /\ tree' = out
    /\ Cleared /\ Ends
    /\ UNCHANGED <<builds, cached, status, sum>>

(* The process ends at any point, unpacking included; .ota-tmp stays.        *)
Restarts ==
    /\ job' = [j \in Jobs |-> NoJob]
    /\ cached' = [newest |-> 0, young |-> FALSE]
    /\ status' = [current |-> 0, newest |-> 0]
    /\ out' \in {out} \cup (IF job["update"].pc = "unpack" THEN {Broken} ELSE {})
    /\ UNCHANGED <<builds, sum, file, tree>>

----------------------------------------------------------------------------

FetchNext ==
    \/ Release \/ CacheAges
    \/ \E j \in Jobs : Begin(j) \/ TagsRefused(j) \/ CheckEnds(j) \/ \E v \in Releases : TagsGiven(j, v)
    \/ Prepare \/ GivesUp \/ PackageRefused
    \/ \E b \in 1 .. MaxBuild : PackageGiven(Build(Wanted, b))
    \/ PackageGiven(Broken)
    \/ ChecksumGiven \/ Verifies \/ Unpacks \/ Install \/ Restarts

FetchSpec == FetchInit /\ [][FetchNext]_fetchVars

(* Whatever the mirrors hand out, and whenever the process is stopped: what  *)
(* is in dist is a sound build that github.com has published under that     *)
(* version, whole, and never with a file of another one (ota.ts, header).    *)
InstalledIsPublished ==
    /\ tree.version \in Releases /\ tree.build \in 1 .. builds[tree.version]
    /\ <<tree.version, tree.build>> \notin Unsound
=============================================================================
