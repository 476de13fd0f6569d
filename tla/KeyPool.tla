------------------------------ MODULE KeyPool ------------------------------
(***************************************************************************)
(* The upstream key pool (src/keypool.ts) together with the two things it   *)
(* is kept consistent with: the file data/pool-disabled.json that carries   *)
(* long cooldowns over a restart (main.ts, diskStore), and the account rows *)
(* from which a restart rebuilds the pool (admin.ts).                       *)
(*                                                                          *)
(* Time.  The code stores absolute deadlines (`disabledUntil`) and compares *)
(* them with Date.now().  The model stores what is left of a deadline: the  *)
(* field `left` counts down by one unit with every Tick, so no clock has to *)
(* be bounded.  left = -1 is `disabledUntil === 0`, left = 0 is a deadline  *)
(* that has passed but has not been reaped yet, Forever is the sentinel     *)
(* Number.MAX_SAFE_INTEGER of a manual disable.                             *)
(*                                                                          *)
(* Requests hold keys between acquire() and release(); reports about a key  *)
(* (markFailure) may come from any request or probe, also one that began    *)
(* long before: they are not tied to a holder.                              *)
(***************************************************************************)
EXTENDS Integers, FiniteSets

CONSTANTS
    Keys,           \* the upstream API keys
    Calls,          \* request handlers that may hold a key
    NoKey,          \* "this call holds no key"
    EnvChoices,     \* the key sets the environment may configure at a start
    RateCooldown,   \* rate-limit cooldown (500 ms .. 3 s)
    AuthCooldown,   \* auth cooldown (12 x KEY_COOLDOWN_MS)
    QuotaFallback,  \* quota cooldown when the upstream names no reset time
    QuotaMargin,    \* the 60 s added to a reset time the upstream names
    ResetDelays,    \* reset times the upstream may name; 0 stands for none
    Forever         \* the sentinel deadline of a manual disable

ASSUME NoKeyAssumption == NoKey \notin Keys

ASSUME EnvAssumption == EnvChoices \subseteq SUBSET Keys

\* Deadlines are positive and below the sentinel: parseResetDelayMs clamps
\* what the upstream says, and config.ts bounds the base cooldown.
ASSUME DelayAssumption ==
    /\ Forever \in Nat
    /\ RateCooldown \in 1 .. Forever - 1
    /\ AuthCooldown \in 1 .. Forever - 1
    /\ QuotaFallback \in 1 .. Forever - 1
    /\ QuotaMargin \in Nat
    /\ ResetDelays \subseteq Nat
    /\ \A d \in ResetDelays : d + QuotaMargin < Forever

VARIABLES
    pool,       \* keys in KeyPool.keys
    mem,        \* per key: the cooldown in memory (disabledUntil, disabledReason)
    inFlight,   \* per key: PooledKey.inFlight
    disk,       \* per key: its entry of pool-disabled.json
    rows,       \* keys stored in the accounts table
    up,         \* is the process running
    holder,     \* per call: the key it acquired and has not released
    held        \* history: keys the operator disabled and has not re-enabled

vars == <<pool, mem, inFlight, disk, rows, up, holder, held>>

LongReasons == {"quota-exhausted", "auth", "manual"}
Reasons == LongReasons \cup {"rate-limit"}
Cooldowns == [left : -1 .. Forever, why : Reasons \cup {"none"}]

NoCooldown == [left |-> -1, why |-> "none"]
Manual == [left |-> Forever, why |-> "manual"]
Idle == [c \in Calls |-> NoKey]
NothingInFlight == [k \in Keys |-> 0]
AllClear == [k \in Keys |-> NoCooldown]

Holders(k) == {c \in Calls : holder[c] = k}

----------------------------------------------------------------------------

Available(k) == k \in pool /\ mem[k].left <= 0

(* One unit of time, for a deadline in memory or on disk. *)
Aged(cd) == IF cd.left \in 1 .. Forever - 1 THEN [cd EXCEPT !.left = @ - 1] ELSE cd

(* Restoring the file: only entries whose deadline lies ahead apply.  The    *)
(* format of 2026-08 and before, which names a key by its last four         *)
(* characters, is not modelled.                                             *)
Restored(cd) == IF cd.left > 0 THEN cd ELSE NoCooldown

(* reapRecovered(): keys whose deadline has passed become clean, and their  *)
(* entries leave the file.                                                  *)
Expired == {k \in pool : mem[k].left = 0}
Reaped(cooldowns) == [k \in Keys |-> IF k \in Expired THEN NoCooldown ELSE cooldowns[k]]

(* Mutants: the last report wins; an auth cooldown is not written through.  *)
DisableUntilLatest(k, kind, until) ==
    /\ mem' = [mem EXCEPT ![k] = [left |-> until, why |-> kind]]
    /\ disk' = IF kind \in LongReasons
               THEN [disk EXCEPT ![k] = [left |-> until, why |-> kind]]
               ELSE disk

DisableUntilForgetful(k, kind, until) ==
    IF mem[k].left > 0 /\ until <= mem[k].left
    THEN UNCHANGED <<mem, disk>>
    ELSE /\ mem' = [mem EXCEPT ![k] = [left |-> until, why |-> kind]]
         /\ disk' = IF kind \in LongReasons \ {"auth"}
                    THEN [disk EXCEPT ![k] = [left |-> until, why |-> kind]]
                    ELSE disk

(* disableUntil(): extend only, and the reason follows the deadline that is *)
(* really in force.  Long cooldowns are written through to the file.        *)
DisableUntil(k, kind, until) ==
    IF mem[k].left > 0 /\ until <= mem[k].left
    THEN UNCHANGED <<mem, disk>>
    ELSE /\ mem' = [mem EXCEPT ![k] = [left |-> until, why |-> kind]]
         /\ disk' = IF kind \in LongReasons
                    THEN [disk EXCEPT ![k] = [left |-> until, why |-> kind]]
                    ELSE disk

DropPersisted(k) == [disk EXCEPT ![k] = NoCooldown]

(* How long markFailure() takes a key out, by kind of failure. *)
CooldownFor(kind, reset) ==
    CASE kind = "rate-limit" -> RateCooldown
      [] kind = "auth" -> AuthCooldown
      [] kind = "quota-exhausted" -> IF reset > 0 THEN reset + QuotaMargin ELSE QuotaFallback

FailureKinds == Reasons \ {"manual"}

----------------------------------------------------------------------------

Init ==
    /\ pool \in EnvChoices
    /\ mem = AllClear
    /\ inFlight = NothingInFlight
    /\ disk = AllClear
    /\ rows = {}
    /\ up = TRUE
    /\ holder = Idle
    /\ held = {}

(* The keys acquire() chooses from: available, not the excluded one, and    *)
(* let through by the caller's model filter; among them the least loaded.   *)
(* The code breaks ties by lastUsedSeq; here any of them may be chosen.     *)
Eligible(excluded, allowed) == {k \in allowed \ {excluded} : Available(k)}
LeastLoaded(ks) == {k \in ks : \A j \in ks : inFlight[k] <= inFlight[j]}

(* acquire() that returns a key to call c. *)
Acquire(c, excluded, allowed) ==
    /\ up /\ holder[c] = NoKey
    /\ mem' = Reaped(mem)
    /\ disk' = Reaped(disk)
    /\ \E k \in LeastLoaded(Eligible(excluded, allowed)) :
          /\ inFlight' = [inFlight EXCEPT ![k] = @ + 1]
          /\ holder' = [holder EXCEPT ![c] = k]
    /\ UNCHANGED <<pool, rows, up, held>>

(* acquire() that throws PoolEmptyError or ModelNotAllowedError has still   *)
(* reaped.                                                                  *)
AcquireThrows(excluded, allowed) ==
    /\ up /\ Eligible(excluded, allowed) = {}
    /\ mem' = Reaped(mem)
    /\ disk' = Reaped(disk)
    /\ UNCHANGED <<pool, inFlight, rows, up, holder, held>>

(* Mutant: a key that is cooling down is not given back. *)
ReleaseAvailable(c) ==
    /\ up /\ holder[c] # NoKey
    /\ inFlight' = IF Available(holder[c]) /\ inFlight[holder[c]] > 0
                   THEN [inFlight EXCEPT ![holder[c]] = @ - 1]
                   ELSE inFlight
    /\ holder' = [holder EXCEPT ![c] = NoKey]
    /\ UNCHANGED <<pool, mem, disk, rows, up, held>>

(* release(): by key, with the guard that keeps the count from going        *)
(* negative.  It does not know which entry the call had acquired.           *)
Release(c) ==
    /\ up /\ holder[c] # NoKey
    /\ inFlight' = IF holder[c] \in pool /\ inFlight[holder[c]] > 0
                   THEN [inFlight EXCEPT ![holder[c]] = @ - 1]
                   ELSE inFlight
    /\ holder' = [holder EXCEPT ![c] = NoKey]
    /\ UNCHANGED <<pool, mem, disk, rows, up, held>>

(* markFailure() by a request or a probe.  A transient failure changes only *)
(* counters kept for display: it is a stuttering step of this module.       *)
MarkFailure(k, kind, reset) ==
    /\ up /\ k \in pool
    /\ DisableUntil(k, kind, CooldownFor(kind, reset))
    /\ UNCHANGED <<pool, inFlight, rows, up, holder, held>>

(* disable(): the operator takes the key out until further notice. *)
Disable(k) ==
    /\ up /\ k \in pool
    /\ DisableUntil(k, "manual", Forever)
    /\ held' = held \cup {k}
    /\ UNCHANGED <<pool, inFlight, rows, up, holder>>

(* reset(): the operator puts the key back, whatever its cooldown. *)
Reset(k) ==
    /\ up /\ k \in pool
    /\ mem' = [mem EXCEPT ![k] = NoCooldown]
    /\ disk' = DropPersisted(k)
    /\ held' = held \ {k}
    /\ UNCHANGED <<pool, inFlight, rows, up, holder>>

(* The panel stores a key in an account and hot-loads it; an entry that is  *)
(* already in the pool is left as it is.                                    *)
AddKey(k) ==
    /\ up /\ k \notin rows
    /\ rows' = rows \cup {k}
    /\ pool' = pool \cup {k}
    /\ IF k \in pool
       THEN UNCHANGED <<mem, inFlight>>
       ELSE /\ mem' = [mem EXCEPT ![k] = NoCooldown]
            /\ inFlight' = [inFlight EXCEPT ![k] = 0]
    /\ UNCHANGED <<disk, up, holder, held>>

(* Mutant: the file entry outlives the key. *)
RemoveKeyOnly(k) ==
    /\ up /\ k \in rows
    /\ rows' = rows \ {k}
    /\ pool' = pool \ {k}
    /\ mem' = [mem EXCEPT ![k] = NoCooldown]
    /\ inFlight' = [inFlight EXCEPT ![k] = 0]
    /\ held' = held \ {k}
    /\ UNCHANGED <<disk, up, holder>>

(* The panel removes a key: the row, the pool entry and the file entry.     *)
(* Requests in flight on it go on.                                          *)
RemoveKey(k) ==
    /\ up /\ k \in rows
    /\ rows' = rows \ {k}
    /\ pool' = pool \ {k}
    /\ mem' = [mem EXCEPT ![k] = NoCooldown]
    /\ inFlight' = [inFlight EXCEPT ![k] = 0]
    /\ disk' = IF k \in pool THEN DropPersisted(k) ELSE disk
    /\ held' = held \ {k}
    /\ UNCHANGED <<up, holder>>

(* The process stops, planned or not: everything but the file and the       *)
(* accounts table is gone.                                                  *)
Crash ==
    /\ up
    /\ up' = FALSE
    /\ pool' = {}
    /\ mem' = AllClear
    /\ inFlight' = NothingInFlight
    /\ holder' = Idle
    /\ UNCHANGED <<disk, rows, held>>

(* The constructor: environment keys and account keys, with the cooldowns   *)
(* the file still holds for them.                                           *)
Start ==
    /\ ~up
    /\ up' = TRUE
    /\ \E env \in EnvChoices : pool' = env \cup rows
    /\ mem' = [k \in Keys |-> IF k \in pool' THEN Restored(disk[k]) ELSE NoCooldown]
    /\ UNCHANGED <<inFlight, disk, rows, holder, held>>

(* Wall-clock time passes, whether or not the process runs. *)
Tick ==
    /\ mem' = [k \in Keys |-> Aged(mem[k])]
    /\ disk' = [k \in Keys |-> Aged(disk[k])]
    /\ UNCHANGED <<pool, inFlight, rows, up, holder, held>>

Next ==
    \/ \E c \in Calls, x \in Keys \cup {NoKey}, a \in SUBSET Keys : Acquire(c, x, a)
    \/ \E x \in Keys \cup {NoKey}, a \in SUBSET Keys : AcquireThrows(x, a)
    \/ \E c \in Calls : Release(c)
    \/ \E k \in Keys, f \in FailureKinds, d \in ResetDelays : MarkFailure(k, f, d)
    \/ \E k \in Keys : Disable(k) \/ Reset(k) \/ AddKey(k) \/ RemoveKey(k)
    \/ Crash
    \/ Start
    \/ Tick

Spec == Init /\ [][Next]_vars

----------------------------------------------------------------------------

(* Types of the variables; a key outside the pool has no in-memory state. *)
TypeOK ==
    /\ pool \subseteq Keys
    /\ mem \in [Keys -> Cooldowns]
    /\ inFlight \in [Keys -> Nat]
    /\ disk \in [Keys -> Cooldowns]
    /\ rows \subseteq Keys
    /\ up \in BOOLEAN
    /\ holder \in [Calls -> Keys \cup {NoKey}]
    /\ held \subseteq Keys

(* A key the operator disabled stays disabled, as a manual disable, against *)
(* late failure reports, recoveries and restarts, until the operator resets *)
(* or removes it (keypool.ts disable(), "only reset recovers").             *)
HeldStaysOff == \A k \in held \cap pool : mem[k] = Manual

(* A long cooldown in force in memory is in the file, with the same         *)
(* deadline and reason: a crash at any point loses none of them.            *)
PersistCovers == \A k \in pool : mem[k].why \in LongReasons => disk[k] = mem[k]

(* The file never holds a deadline beyond the one in force: a restart does  *)
(* not take away a key that was working (keypool.ts removeKey(), the        *)
(* "healthy now, disabled after the restart" it means to prevent).          *)
NoGhost == \A k \in pool : disk[k].left > 0 => disk[k].left <= mem[k].left

(* What makes HeldStaysOff and NoGhost inductive when the environment is    *)
(* not edited between restarts: a running process knows every key the       *)
(* operator holds, and the file has no live entry for a key that neither    *)
(* the pool nor the next start will know.                                   *)
Configured == (UNION EnvChoices) \cup rows
HeldOnDisk == \A k \in held : disk[k] = Manual
HeldKnown == held \subseteq (IF up THEN pool ELSE Configured)
PoolConfigured == pool \subseteq Configured
SentinelIsManual ==
    \A k \in Keys : /\ mem[k].left = Forever => mem[k] = Manual /\ disk[k] = Manual
                    /\ disk[k].left = Forever => disk[k] = Manual
DownEmpty == ~up => pool = {}
FileKnown == \A k \in Keys \ (IF up THEN pool ELSE Configured) : disk[k].left <= 0

(* The load the pool sees never exceeds the calls that really hold the key: *)
(* a key is not starved by counts nobody will give back.                    *)
NoLeak == \A k \in pool : inFlight[k] <= Cardinality(Holders(k))

(* Until the operator resets or removes the key, its cooldown only ends by  *)
(* time passing, and its reason changes only together with a longer         *)
(* deadline (keypool.ts disableUntil(), "only extend, never shorten").      *)
CooldownNeverShortened ==
    [][\A k \in pool \cap pool' :
          mem[k].left > 0 =>
             \/ mem'[k] = mem[k]
             \/ mem'[k].left > mem[k].left
             \/ mem'[k] = Aged(mem[k]) /\ Tick
             \/ Reset(k)]_vars

============================================================================
