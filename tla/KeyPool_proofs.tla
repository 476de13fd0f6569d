--------------------------- MODULE KeyPool_proofs ---------------------------
(* Proofs of the safety properties of KeyPool, for every set of keys and    *)
(* calls and every length of the cooldowns.                                 *)
EXTENDS KeyPool, FiniteSetTheorems, TLAPS

----------------------------------------------------------------------------

(* Cooldown records: how time and a restart change them. *)
LEMMA CooldownShape ==
    ASSUME NEW cd \in Cooldowns
    PROVE  /\ cd.left \in -1 .. Forever
           /\ cd.why \in Reasons \cup {"none"}
           /\ cd = [left |-> cd.left, why |-> cd.why]
BY DEF Cooldowns

(* The two cooldowns with a fixed meaning: none, and the operator's. *)
LEMMA ConstantCooldowns ==
    /\ NoCooldown \in Cooldowns
    /\ NoCooldown.left = -1 /\ NoCooldown.why = "none"
    /\ Manual \in Cooldowns
    /\ Manual.left = Forever /\ Manual.why = "manual"
BY DelayAssumption DEF Cooldowns, NoCooldown, Manual, Reasons, LongReasons

(* Time takes one unit off a running cooldown, and nothing off the others. *)
LEMMA AgedCooldown ==
    ASSUME NEW cd \in Cooldowns
    PROVE  /\ Aged(cd) \in Cooldowns
           /\ Aged(cd).why = cd.why
           /\ Aged(cd).left = IF cd.left \in 1 .. Forever - 1 THEN cd.left - 1 ELSE cd.left
BY CooldownShape, DelayAssumption DEF Cooldowns, Aged

(* What a restart reads from the file is a cooldown. *)
LEMMA RestoredCooldown ==
    ASSUME NEW cd \in Cooldowns
    PROVE  Restored(cd) \in Cooldowns
BY ConstantCooldowns DEF Restored

(* A failure's cooldown is positive and below the sentinel. *)
LEMMA FailureCooldown ==
    ASSUME NEW kind \in FailureKinds, NEW reset \in ResetDelays
    PROVE  /\ CooldownFor(kind, reset) \in 1 .. Forever - 1
           /\ kind \in Reasons
BY DelayAssumption DEF CooldownFor, FailureKinds, Reasons, LongReasons

(* What disableUntil() does to the two copies of a key's cooldown. *)
LEMMA DisableUntilEffect ==
    ASSUME TypeOK, NEW k \in Keys, NEW kind \in Reasons, NEW until \in 1 .. Forever,
           DisableUntil(k, kind, until)
    PROVE  /\ mem' \in [Keys -> Cooldowns]
           /\ disk' \in [Keys -> Cooldowns]
           /\ \A j \in Keys \ {k} : mem'[j] = mem[j] /\ disk'[j] = disk[j]
           /\ \/ mem[k].left > 0 /\ until <= mem[k].left
                 /\ mem'[k] = mem[k] /\ disk'[k] = disk[k]
              \/ (mem[k].left <= 0 \/ until > mem[k].left)
                 /\ mem'[k] = [left |-> until, why |-> kind]
                 /\ disk'[k] = IF kind \in LongReasons
                               THEN [left |-> until, why |-> kind] ELSE disk[k]
<1>0. [left |-> until, why |-> kind] \in Cooldowns
  BY DelayAssumption DEF Cooldowns
<1>1. mem \in [Keys -> Cooldowns] /\ disk \in [Keys -> Cooldowns]
  BY DEF TypeOK
<1>2. mem[k].left \in Int
  BY <1>1, CooldownShape
<1>3. CASE mem[k].left > 0 /\ until <= mem[k].left
  BY <1>1, <1>3 DEF DisableUntil
<1>4. CASE ~(mem[k].left > 0 /\ until <= mem[k].left)
  BY <1>0, <1>1, <1>2, <1>4 DEF DisableUntil
<1>5. QED BY <1>3, <1>4

(* Reaping clears the expired keys and leaves the others alone. *)
LEMMA ReapedEffect ==
    ASSUME TypeOK, NEW f \in [Keys -> Cooldowns]
    PROVE  /\ Reaped(f) \in [Keys -> Cooldowns]
           /\ \A k \in Keys : Reaped(f)[k] = IF k \in Expired THEN NoCooldown ELSE f[k]
BY ConstantCooldowns DEF Reaped

----------------------------------------------------------------------------

(* The types hold at the start. *)
LEMMA InitTypeOK == Init => TypeOK
<1>1. AllClear \in [Keys -> Cooldowns]
  BY ConstantCooldowns DEF AllClear
<1>2. QED BY <1>1, EnvAssumption DEF Init, TypeOK, NothingInFlight, Idle

(* Every step of the pool keeps the types. *)
LEMMA StepTypeOK == TypeOK /\ [Next]_vars => TypeOK'
<1> SUFFICES ASSUME TypeOK, [Next]_vars PROVE TypeOK'
  OBVIOUS
<1> USE DEF TypeOK
<1>c. AllClear \in [Keys -> Cooldowns]
  BY ConstantCooldowns DEF AllClear
<1>1. ASSUME NEW c \in Calls, NEW x \in Keys \cup {NoKey}, NEW a \in SUBSET Keys, Acquire(c, x, a)
      PROVE  TypeOK'
  <2>1. PICK k \in LeastLoaded(Eligible(x, a)) :
          /\ inFlight' = [inFlight EXCEPT ![k] = @ + 1]
          /\ holder' = [holder EXCEPT ![c] = k]
    BY <1>1 DEF Acquire
  <2>2. k \in Keys
    BY <2>1 DEF LeastLoaded, Eligible
  <2>3. QED BY <1>1, <2>1, <2>2, ReapedEffect DEF Acquire
<1>2. ASSUME NEW x \in Keys \cup {NoKey}, NEW a \in SUBSET Keys, AcquireThrows(x, a)
      PROVE  TypeOK'
  BY <1>2, ReapedEffect DEF AcquireThrows
<1>3. ASSUME NEW c \in Calls, Release(c) PROVE TypeOK'
  BY <1>3 DEF Release
<1>4. ASSUME NEW k \in Keys, NEW f \in FailureKinds, NEW d \in ResetDelays, MarkFailure(k, f, d)
      PROVE  TypeOK'
  <2>1. CooldownFor(f, d) \in 1 .. Forever /\ f \in Reasons
    BY FailureCooldown, DelayAssumption
  <2>2. DisableUntil(k, f, CooldownFor(f, d))
    BY <1>4 DEF MarkFailure
  <2>3. mem' \in [Keys -> Cooldowns] /\ disk' \in [Keys -> Cooldowns]
    BY <2>1, <2>2, DisableUntilEffect
  <2>4. QED BY <1>4, <2>3 DEF MarkFailure
<1>5. ASSUME NEW k \in Keys, Disable(k) PROVE TypeOK'
  <2>1. "manual" \in Reasons /\ Forever \in 1 .. Forever
    BY DelayAssumption DEF Reasons, LongReasons
  <2>2. DisableUntil(k, "manual", Forever)
    BY <1>5 DEF Disable
  <2>3. mem' \in [Keys -> Cooldowns] /\ disk' \in [Keys -> Cooldowns]
    BY <2>1, <2>2, DisableUntilEffect
  <2>4. QED BY <1>5, <2>3 DEF Disable
<1>6. ASSUME NEW k \in Keys, Reset(k) PROVE TypeOK'
  BY <1>6, ConstantCooldowns DEF Reset, DropPersisted
<1>7. ASSUME NEW k \in Keys, AddKey(k) PROVE TypeOK'
  BY <1>7, ConstantCooldowns DEF AddKey
<1>8. ASSUME NEW k \in Keys, RemoveKey(k) PROVE TypeOK'
  BY <1>8, ConstantCooldowns DEF RemoveKey, DropPersisted, Holders
<1>9. CASE Crash
  BY <1>9, <1>c DEF Crash, NothingInFlight, Idle
<1>10. CASE Start
  <2>1. pool' \subseteq Keys
    BY <1>10, EnvAssumption DEF Start
  <2>2. mem' \in [Keys -> Cooldowns]
    BY <1>10, ConstantCooldowns, RestoredCooldown DEF Start
  <2>3. QED BY <1>10, <2>1, <2>2 DEF Start
<1>11. CASE Tick
  BY <1>11, AgedCooldown DEF Tick
<1>12. CASE UNCHANGED vars
  BY <1>12 DEF vars
<1>13. QED BY <1>1, <1>2, <1>3, <1>4, <1>5, <1>6, <1>7, <1>8, <1>9, <1>10, <1>11, <1>12 DEF Next

(* The variables of the pool keep their types. *)
THEOREM TypeCorrect == Spec => []TypeOK
BY InitTypeOK, StepTypeOK, PTL DEF Spec

----------------------------------------------------------------------------

(* Every step keeps the file covering the long cooldowns in memory. *)
LEMMA StepPersistCovers == TypeOK /\ PersistCovers /\ [Next]_vars => PersistCovers'
<1> SUFFICES ASSUME TypeOK, PersistCovers, [Next]_vars,
                    NEW k \in Keys, k \in pool', mem'[k].why \in LongReasons
             PROVE  disk'[k] = mem'[k]
  BY StepTypeOK DEF PersistCovers, TypeOK
<1>t. mem \in [Keys -> Cooldowns] /\ disk \in [Keys -> Cooldowns] /\ pool \subseteq Keys
  BY DEF TypeOK
<1>n. NoCooldown.why \notin LongReasons
  BY ConstantCooldowns DEF LongReasons
<1>r. ASSUME mem' = Reaped(mem), disk' = Reaped(disk), pool' = pool
      PROVE  disk'[k] = mem'[k]
  BY <1>r, <1>t, <1>n, ReapedEffect DEF PersistCovers
<1>1. ASSUME NEW c \in Calls, NEW x \in Keys \cup {NoKey}, NEW a \in SUBSET Keys, Acquire(c, x, a)
      PROVE  disk'[k] = mem'[k]
  BY <1>1, <1>r DEF Acquire
<1>2. ASSUME NEW x \in Keys \cup {NoKey}, NEW a \in SUBSET Keys, AcquireThrows(x, a)
      PROVE  disk'[k] = mem'[k]
  BY <1>2, <1>r DEF AcquireThrows
<1>3. ASSUME NEW c \in Calls, Release(c) PROVE disk'[k] = mem'[k]
  BY <1>3 DEF Release, PersistCovers
<1>d. ASSUME NEW j \in Keys, NEW f \in Reasons, NEW until \in 1 .. Forever,
             DisableUntil(j, f, until), pool' = pool
      PROVE  disk'[k] = mem'[k]
  <2>1. CASE k # j
    BY <1>d, <2>1, DisableUntilEffect DEF PersistCovers
  <2>2. CASE k = j /\ mem'[k] = mem[k] /\ disk'[k] = disk[k]
    BY <1>d, <2>2 DEF PersistCovers
  <2>3. CASE /\ k = j
             /\ mem'[k] = [left |-> until, why |-> f]
             /\ disk'[k] = IF f \in LongReasons THEN [left |-> until, why |-> f] ELSE disk[k]
    BY <2>3
  <2>4. QED BY <1>d, <2>1, <2>2, <2>3, DisableUntilEffect
<1>4. ASSUME NEW j \in Keys, NEW f \in FailureKinds, NEW d \in ResetDelays, MarkFailure(j, f, d)
      PROVE  disk'[k] = mem'[k]
  <2>1. CooldownFor(f, d) \in 1 .. Forever /\ f \in Reasons
    BY FailureCooldown, DelayAssumption
  <2>2. QED BY <1>4, <1>d, <2>1 DEF MarkFailure
<1>5. ASSUME NEW j \in Keys, Disable(j) PROVE disk'[k] = mem'[k]
  <2>1. "manual" \in Reasons /\ Forever \in 1 .. Forever
    BY DelayAssumption DEF Reasons, LongReasons
  <2>2. QED BY <1>5, <1>d, <2>1 DEF Disable
<1>6. ASSUME NEW j \in Keys, Reset(j) PROVE disk'[k] = mem'[k]
  BY <1>6, <1>t, <1>n DEF Reset, DropPersisted, PersistCovers
<1>7. ASSUME NEW j \in Keys, AddKey(j) PROVE disk'[k] = mem'[k]
  BY <1>7, <1>t, <1>n DEF AddKey, PersistCovers
<1>8. ASSUME NEW j \in Keys, RemoveKey(j) PROVE disk'[k] = mem'[k]
  BY <1>8, <1>t, <1>n DEF RemoveKey, DropPersisted, PersistCovers
<1>9. CASE Crash
  BY <1>9 DEF Crash
<1>10. CASE Start
  BY <1>10, <1>n DEF Start, Restored
<1>11. CASE Tick
  BY <1>11, <1>t, AgedCooldown DEF Tick, PersistCovers
<1>12. CASE UNCHANGED vars
  BY <1>12 DEF vars, PersistCovers
<1>13. QED BY <1>1, <1>2, <1>3, <1>4, <1>5, <1>6, <1>7, <1>8, <1>9, <1>10, <1>11, <1>12 DEF Next

(* A crash at any point loses no long cooldown: it is in the file as it is  *)
(* in memory.                                                               *)
THEOREM PersistCoversHolds == Spec => []PersistCovers
<1>1. Init => PersistCovers
  BY ConstantCooldowns DEF Init, PersistCovers, AllClear, LongReasons
<1>2. QED BY <1>1, StepPersistCovers, TypeCorrect, PTL DEF Spec

(* A process that is down has no pool. *)
LEMMA DownHasNoPool == Spec => []DownEmpty
<1>1. Init => DownEmpty
  BY DEF Init, DownEmpty
<1>2. DownEmpty /\ [Next]_vars => DownEmpty'
  BY DEF DownEmpty, Next, vars, Acquire, AcquireThrows, Release, MarkFailure,
         Disable, Reset, AddKey, RemoveKey, Crash, Start, Tick
<1>3. QED BY <1>1, <1>2, PTL DEF Spec

(* Only time and the operator end a cooldown: a late, shorter failure       *)
(* report neither shortens it nor changes its reason.                       *)
THEOREM NeverShortened == Spec => CooldownNeverShortened
<1> DEFINE Kept(k) == \/ mem'[k] = mem[k]
                      \/ mem'[k].left > mem[k].left
                      \/ mem'[k] = Aged(mem[k]) /\ Tick
                      \/ Reset(k)
<1>1. ASSUME TypeOK, DownEmpty, [Next]_vars, NEW k \in pool \cap pool', mem[k].left > 0
      PROVE  Kept(k)
  <2> USE <1>1
  <2>t. mem \in [Keys -> Cooldowns] /\ k \in Keys
    BY DEF TypeOK
  <2>e. k \notin Expired
    BY DEF Expired
  <2>1. ASSUME NEW c \in Calls, NEW x \in Keys \cup {NoKey}, NEW a \in SUBSET Keys, Acquire(c, x, a)
        PROVE  Kept(k)
    BY <2>1, <2>t, <2>e, ReapedEffect DEF Acquire
  <2>2. ASSUME NEW x \in Keys \cup {NoKey}, NEW a \in SUBSET Keys, AcquireThrows(x, a)
        PROVE  Kept(k)
    BY <2>2, <2>t, <2>e, ReapedEffect DEF AcquireThrows
  <2>3. ASSUME NEW c \in Calls, Release(c) PROVE Kept(k)
    BY <2>3 DEF Release
  <2>d. ASSUME NEW j \in Keys, NEW f \in Reasons, NEW until \in 1 .. Forever,
               DisableUntil(j, f, until)
        PROVE  mem'[k] = mem[k] \/ mem'[k].left > mem[k].left
    <3>1. CASE k # j
      BY <2>d, <2>t, <3>1, DisableUntilEffect
    <3>2. CASE k = j /\ mem'[k] = mem[k]
      BY <3>2
    <3>3. CASE k = j /\ mem'[k] = [left |-> until, why |-> f] /\ until > mem[k].left
      BY <3>3
    <3>4. mem[k].left \in Int
      BY <2>t, CooldownShape
    <3>5. QED BY <2>d, <3>1, <3>2, <3>3, <3>4, DisableUntilEffect
  <2>4. ASSUME NEW j \in Keys, NEW f \in FailureKinds, NEW d \in ResetDelays, MarkFailure(j, f, d)
        PROVE  Kept(k)
    <3>1. CooldownFor(f, d) \in 1 .. Forever /\ f \in Reasons
      BY FailureCooldown, DelayAssumption
    <3>2. QED BY <2>4, <2>d, <3>1 DEF MarkFailure
  <2>5. ASSUME NEW j \in Keys, Disable(j) PROVE Kept(k)
    <3>1. "manual" \in Reasons /\ Forever \in 1 .. Forever
      BY DelayAssumption DEF Reasons, LongReasons
    <3>2. QED BY <2>5, <2>d, <3>1 DEF Disable
  <2>6. ASSUME NEW j \in Keys, Reset(j) PROVE Kept(k)
    BY <2>6, <2>t DEF Reset
  <2>7. ASSUME NEW j \in Keys, AddKey(j) PROVE Kept(k)
    BY <2>7, <2>t DEF AddKey
  <2>8. ASSUME NEW j \in Keys, RemoveKey(j) PROVE Kept(k)
    BY <2>8, <2>t DEF RemoveKey
  <2>9. CASE Crash
    BY <2>9 DEF Crash
  <2>10. CASE Start
    BY <2>10 DEF Start, DownEmpty
  <2>11. CASE Tick
    BY <2>11, <2>t DEF Tick
  <2>12. CASE UNCHANGED vars
    BY <2>12 DEF vars
  <2>13. QED BY <2>1, <2>2, <2>3, <2>4, <2>5, <2>6, <2>7, <2>8, <2>9, <2>10, <2>11, <2>12 DEF Next
<1>2. TypeOK /\ DownEmpty /\ [Next]_vars
        => [\A k \in pool \cap pool' : mem[k].left > 0 => Kept(k)]_vars
  BY <1>1
<1>3. QED BY <1>2, TypeCorrect, DownHasNoPool, PTL DEF Spec, CooldownNeverShortened

----------------------------------------------------------------------------

(* When the environment is not edited, memory, file and account rows agree: *)
(* every key the operator holds is held in the file, and the file has no    *)
(* live entry for a key the pool considers healthy or does not know.        *)
OneEnvironment == \E env : EnvChoices = {env}

FileInv ==
    /\ HeldStaysOff /\ HeldOnDisk /\ HeldKnown /\ SentinelIsManual
    /\ NoGhost /\ FileKnown /\ PoolConfigured /\ DownEmpty

(* With one environment a start builds the pool that is configured. *)
LEMMA StartConfigured ==
    ASSUME OneEnvironment, Start
    PROVE  pool' = Configured /\ Configured' = Configured
BY DEF OneEnvironment, Start, Configured

(* FileInv holds at the start. *)
LEMMA InitFileInv == Init => FileInv
<1> SUFFICES ASSUME Init PROVE FileInv
  OBVIOUS
<1>1. \A k \in Keys : /\ mem[k] = NoCooldown /\ mem[k].left = -1
                      /\ disk[k] = NoCooldown /\ disk[k].left = -1
  BY ConstantCooldowns DEF Init, AllClear
<1>2. pool \subseteq Keys /\ pool \subseteq Configured /\ held = {} /\ up
  BY EnvAssumption DEF Init, Configured
<1>3. QED
  BY <1>1, <1>2, DelayAssumption
     DEF FileInv, HeldStaysOff, HeldOnDisk, HeldKnown, SentinelIsManual, NoGhost,
         FileKnown, PoolConfigured, DownEmpty

(* Every step keeps FileInv. *)
LEMMA StepFileInv ==
    ASSUME OneEnvironment, TypeOK, FileInv, [Next]_vars
    PROVE  FileInv'
<1> USE DEF FileInv
<1>t. /\ mem \in [Keys -> Cooldowns] /\ disk \in [Keys -> Cooldowns]
      /\ pool \subseteq Keys /\ held \subseteq Keys
      /\ \A k \in Keys : mem[k].left \in -1 .. Forever /\ disk[k].left \in -1 .. Forever
  BY CooldownShape DEF TypeOK
<1>f. Forever \in Nat /\ Forever > 0
  BY DelayAssumption
<1>i. DEFINE Same == UNCHANGED <<pool, rows, up>>
<1>r. ASSUME Same, held' = held, mem' = Reaped(mem), disk' = Reaped(disk)
      PROVE  FileInv'
  <2>1. \A k \in Keys : \/ k \in Expired /\ mem'[k] = NoCooldown /\ disk'[k] = NoCooldown
                        \/ k \notin Expired /\ mem'[k] = mem[k] /\ disk'[k] = disk[k]
    BY <1>r, <1>t, ReapedEffect
  <2>2. \A k \in held : k \notin Expired
    BY <1>t, <1>f, ConstantCooldowns DEF HeldStaysOff, Expired
  <2>3. HeldStaysOff' /\ HeldOnDisk'
    BY <1>r, <1>t, <2>1, <2>2 DEF HeldStaysOff, HeldOnDisk
  <2>4. NoGhost' /\ FileKnown' /\ SentinelIsManual'
    BY <1>r, <1>t, <1>f, <2>1, ConstantCooldowns
       DEF NoGhost, FileKnown, SentinelIsManual, Configured
  <2>5. QED BY <1>r, <2>3, <2>4 DEF HeldKnown, PoolConfigured, DownEmpty, Configured
<1>d. ASSUME Same, NEW j \in pool, up, NEW f \in Reasons, NEW until \in 1 .. Forever,
             DisableUntil(j, f, until),
             \/ until < Forever /\ held' = held
             \/ until = Forever /\ f = "manual" /\ held' = held \cup {j}
      PROVE  FileInv'
  <2>0. j \in Keys
    BY <1>t
  <2>1. \A k \in Keys \ {j} : mem'[k] = mem[k] /\ disk'[k] = disk[k]
    BY <1>d, <2>0, DisableUntilEffect
  <2>2. \/ mem[j].left > 0 /\ until <= mem[j].left
           /\ mem'[j] = mem[j] /\ disk'[j] = disk[j]
        \/ (mem[j].left <= 0 \/ until > mem[j].left)
           /\ mem'[j] = [left |-> until, why |-> f]
           /\ disk'[j] = IF f \in LongReasons
                         THEN [left |-> until, why |-> f] ELSE disk[j]
    BY <1>d, <2>0, DisableUntilEffect
  <2>3. CASE j \in held
    <3>1. mem[j] = Manual /\ disk[j] = Manual /\ held' = held
      BY <1>d, <2>3 DEF HeldStaysOff, HeldOnDisk
    <3>2. mem'[j] = mem[j] /\ disk'[j] = disk[j]
      BY <2>2, <3>1, <1>f, ConstantCooldowns
    <3>3. \A k \in Keys : mem'[k] = mem[k] /\ disk'[k] = disk[k]
      BY <2>1, <3>2
    <3>4. QED
      BY <1>d, <1>t, <3>1, <3>3
         DEF HeldStaysOff, HeldOnDisk, HeldKnown, SentinelIsManual, NoGhost, FileKnown,
             PoolConfigured, DownEmpty, Configured
  <2>4. CASE j \notin held /\ until < Forever /\ held' = held
    <3>1. HeldStaysOff' /\ HeldOnDisk'
      BY <1>d, <1>t, <2>1, <2>4 DEF HeldStaysOff, HeldOnDisk
    <3>2. NoGhost'
      BY <1>d, <1>t, <2>0, <2>1, <2>2 DEF NoGhost
    <3>3. SentinelIsManual'
      <4>1. \A k \in Keys \ {j} :
               /\ mem'[k].left = Forever => mem'[k] = Manual /\ disk'[k] = Manual
               /\ disk'[k].left = Forever => disk'[k] = Manual
        BY <2>1 DEF SentinelIsManual
      <4>2. CASE mem'[j] = mem[j] /\ disk'[j] = disk[j]
        BY <4>1, <4>2 DEF SentinelIsManual
      <4>3. CASE /\ mem'[j].left = until
                 /\ disk'[j] = disk[j] \/ disk'[j].left = until
        BY <1>f, <2>0, <2>4, <4>1, <4>3 DEF SentinelIsManual
      <4>4. QED BY <2>2, <4>2, <4>3
    <3>4. QED
      BY <1>d, <1>t, <2>1, <2>4, <3>1, <3>2, <3>3
         DEF HeldKnown, FileKnown, PoolConfigured, DownEmpty, Configured
  <2>5. CASE until = Forever /\ f = "manual" /\ held' = held \cup {j}
    <3>1. mem'[j] = Manual /\ disk'[j] = Manual
      <4>1. mem[j].left \in -1 .. Forever
        BY <1>t, <2>0
      <4>2. CASE mem[j].left = Forever
        BY <1>f, <2>0, <2>2, <2>5, <4>2 DEF SentinelIsManual
      <4>3. CASE mem[j].left # Forever
        BY <1>f, <2>2, <2>5, <4>1, <4>3 DEF Manual, LongReasons
      <4>4. QED BY <4>2, <4>3
    <3>2. HeldStaysOff' /\ HeldOnDisk' /\ SentinelIsManual'
      BY <1>d, <1>t, <2>1, <2>5, <3>1
         DEF HeldStaysOff, HeldOnDisk, SentinelIsManual
    <3>3. NoGhost'
      BY <1>d, <1>t, <2>1, <3>1, <1>f, ConstantCooldowns DEF NoGhost
    <3>4. QED
      BY <1>d, <1>t, <2>1, <2>5, <3>2, <3>3
         DEF HeldKnown, FileKnown, PoolConfigured, DownEmpty, Configured
  <2>6. QED BY <1>d, <2>3, <2>4, <2>5
<1>1. ASSUME NEW c \in Calls, NEW x \in Keys \cup {NoKey}, NEW a \in SUBSET Keys, Acquire(c, x, a)
      PROVE  FileInv'
  BY <1>1, <1>r DEF Acquire
<1>2. ASSUME NEW x \in Keys \cup {NoKey}, NEW a \in SUBSET Keys, AcquireThrows(x, a)
      PROVE  FileInv'
  BY <1>2, <1>r DEF AcquireThrows
<1>u. ASSUME UNCHANGED <<pool, mem, disk, rows, up, held>> PROVE FileInv'
  BY <1>u DEF HeldStaysOff, HeldOnDisk, HeldKnown, SentinelIsManual, NoGhost, FileKnown,
              PoolConfigured, DownEmpty, Configured
<1>3. ASSUME NEW c \in Calls, Release(c) PROVE FileInv'
  BY <1>3, <1>u DEF Release
<1>4. ASSUME NEW k \in Keys, NEW f \in FailureKinds, NEW d \in ResetDelays, MarkFailure(k, f, d)
      PROVE  FileInv'
  <2>1. CooldownFor(f, d) \in 1 .. Forever /\ CooldownFor(f, d) < Forever /\ f \in Reasons
    BY FailureCooldown, DelayAssumption
  <2>2. QED BY <1>4, <1>d, <2>1 DEF MarkFailure
<1>5. ASSUME NEW k \in Keys, Disable(k) PROVE FileInv'
  <2>1. "manual" \in Reasons /\ Forever \in 1 .. Forever
    BY DelayAssumption DEF Reasons, LongReasons
  <2>2. QED BY <1>5, <1>d, <2>1 DEF Disable
<1>6. ASSUME NEW k \in Keys, Reset(k) PROVE FileInv'
  <2>1. /\ mem'[k] = NoCooldown /\ disk'[k] = NoCooldown
        /\ \A j \in Keys \ {k} : mem'[j] = mem[j] /\ disk'[j] = disk[j]
    BY <1>6, <1>t DEF Reset, DropPersisted
  <2>2. UNCHANGED <<pool, rows, up>> /\ held' = held \ {k}
    BY <1>6 DEF Reset
  <2>3. QED
    BY <1>t, <1>f, <2>1, <2>2, ConstantCooldowns
       DEF HeldStaysOff, HeldOnDisk, HeldKnown, SentinelIsManual, NoGhost, FileKnown,
           PoolConfigured, DownEmpty, Configured
<1>7. ASSUME NEW k \in Keys, AddKey(k) PROVE FileInv'
  <2>1. /\ up /\ up' = up /\ held' = held /\ disk' = disk
        /\ pool' = pool \cup {k} /\ rows' = rows \cup {k}
        /\ \A j \in Keys : mem'[j] = IF j = k /\ k \notin pool THEN NoCooldown ELSE mem[j]
    BY <1>7, <1>t DEF AddKey
  <2>2. k \notin pool => k \notin held /\ disk[k].left <= 0
    BY <2>1 DEF HeldKnown, FileKnown
  <2>3. HeldStaysOff' /\ HeldOnDisk' /\ SentinelIsManual'
    BY <1>t, <1>f, <2>1, <2>2, ConstantCooldowns
       DEF HeldStaysOff, HeldOnDisk, HeldKnown, SentinelIsManual
  <2>4. NoGhost' /\ FileKnown' /\ HeldKnown'
    BY <1>t, <2>1, <2>2 DEF NoGhost, FileKnown, HeldKnown
  <2>5. QED BY <2>1, <2>3, <2>4 DEF PoolConfigured, DownEmpty, Configured
<1>8. ASSUME NEW k \in Keys, RemoveKey(k) PROVE FileInv'
  <2>1. /\ up /\ up' = up /\ held' = held \ {k}
        /\ pool' = pool \ {k} /\ rows' = rows \ {k}
        /\ mem'[k] = NoCooldown
        /\ disk'[k] = IF k \in pool THEN NoCooldown ELSE disk[k]
        /\ \A j \in Keys \ {k} : mem'[j] = mem[j] /\ disk'[j] = disk[j]
    BY <1>8, <1>t DEF RemoveKey, DropPersisted
  <2>2. k \notin pool => disk[k].left <= 0
    BY <2>1 DEF FileKnown
  <2>3. PoolConfigured'
    BY <2>1 DEF PoolConfigured, Configured
  <2>4. HeldStaysOff' /\ HeldOnDisk'
    BY <1>t, <2>1 DEF HeldStaysOff, HeldOnDisk
  <2>5. SentinelIsManual'
    BY <1>f, <2>1, ConstantCooldowns DEF SentinelIsManual
  <2>6. NoGhost' /\ FileKnown' /\ HeldKnown'
    BY <1>t, <2>1, <2>2, ConstantCooldowns DEF NoGhost, FileKnown, HeldKnown
  <2>7. QED BY <2>1, <2>3, <2>4, <2>5, <2>6 DEF DownEmpty
<1>9. CASE Crash
  <2>1. /\ up /\ ~up' /\ pool' = {} /\ held' = held /\ disk' = disk /\ rows' = rows
        /\ \A k \in Keys : mem'[k] = NoCooldown
    BY <1>9 DEF Crash, AllClear
  <2>2. QED
    BY <1>t, <1>f, <2>1, ConstantCooldowns
       DEF HeldStaysOff, HeldOnDisk, HeldKnown, SentinelIsManual, NoGhost, FileKnown,
           PoolConfigured, DownEmpty, Configured
<1>10. CASE Start
  <2>1. /\ ~up /\ up' /\ held' = held /\ disk' = disk /\ rows' = rows
        /\ pool' = Configured /\ Configured' = Configured
        /\ \A k \in Keys : mem'[k] = IF k \in pool' /\ disk[k].left > 0 THEN disk[k] ELSE NoCooldown
    BY <1>10, StartConfigured DEF Start, Restored
  <2>2. HeldKnown'
    BY <2>1 DEF HeldKnown
  <2>3. HeldStaysOff' /\ HeldOnDisk'
    <3>1. HeldOnDisk'
      BY <2>1 DEF HeldOnDisk
    <3>2. ASSUME NEW k \in held', k \in pool' PROVE mem'[k] = Manual
      <4>1. k \in Keys /\ disk[k] = Manual /\ disk[k].left > 0
        BY <1>t, <1>f, <2>1, <3>2, ConstantCooldowns DEF HeldOnDisk
      <4>2. QED BY <2>1, <3>2, <4>1
    <3>3. QED BY <3>1, <3>2 DEF HeldStaysOff
  <2>4. SentinelIsManual'
    <3>1. ASSUME NEW k \in Keys
          PROVE  /\ mem'[k].left = Forever => mem'[k] = Manual /\ disk'[k] = Manual
                 /\ disk'[k].left = Forever => disk'[k] = Manual
      <4>1. CASE k \in pool' /\ disk[k].left > 0
        BY <2>1, <4>1 DEF SentinelIsManual
      <4>2. CASE ~(k \in pool' /\ disk[k].left > 0)
        BY <1>f, <2>1, <4>2, ConstantCooldowns DEF SentinelIsManual
      <4>3. QED BY <4>1, <4>2
    <3>2. QED BY <3>1 DEF SentinelIsManual
  <2>5. pool' \subseteq Keys
    BY StepTypeOK DEF TypeOK
  <2>6. NoGhost'
    <3>1. ASSUME NEW k \in pool', disk'[k].left > 0
          PROVE  disk'[k].left <= mem'[k].left
      <4>1. k \in Keys /\ mem'[k] = disk[k] /\ disk'[k] = disk[k]
        BY <2>1, <2>5, <3>1
      <4>2. QED BY <1>t, <4>1
    <3>2. QED BY <3>1 DEF NoGhost
  <2>7. FileKnown'
    BY <2>1 DEF FileKnown
  <2>8. QED BY <2>1, <2>2, <2>3, <2>4, <2>6, <2>7 DEF PoolConfigured, DownEmpty
<1>11. CASE Tick
  <2>1. /\ UNCHANGED <<pool, rows, up, held>>
        /\ \A k \in Keys : mem'[k] = Aged(mem[k]) /\ disk'[k] = Aged(disk[k])
    BY <1>11 DEF Tick
  <2>2. \A k \in Keys :
           /\ mem'[k].left = IF mem[k].left \in 1 .. Forever - 1 THEN mem[k].left - 1 ELSE mem[k].left
           /\ disk'[k].left = IF disk[k].left \in 1 .. Forever - 1 THEN disk[k].left - 1 ELSE disk[k].left
    BY <1>t, <2>1, AgedCooldown
  <2>3. Aged(Manual) = Manual
    BY <1>f, ConstantCooldowns DEF Aged
  <2>4. HeldStaysOff' /\ HeldOnDisk'
    BY <1>t, <2>1, <2>3 DEF HeldStaysOff, HeldOnDisk
  <2>5. SentinelIsManual'
    BY <1>t, <1>f, <2>1, <2>2, <2>3 DEF SentinelIsManual
  <2>6. NoGhost' /\ FileKnown'
    BY <1>t, <1>f, <2>1, <2>2 DEF NoGhost, FileKnown, Configured
  <2>7. QED BY <2>1, <2>4, <2>5, <2>6 DEF HeldKnown, PoolConfigured, DownEmpty, Configured
<1>12. CASE UNCHANGED vars
  BY <1>12, <1>u DEF vars
<1>13. QED BY <1>1, <1>2, <1>3, <1>4, <1>5, <1>6, <1>7, <1>8, <1>9, <1>10, <1>11, <1>12 DEF Next

(* FileInv is an invariant. *)
LEMMA FileFaithful == ASSUME OneEnvironment PROVE Spec => []FileInv
<1>1. TypeOK /\ FileInv /\ [Next]_vars => FileInv'
  BY StepFileInv, OneEnvironment
<1>2. QED BY <1>1, InitFileInv, TypeCorrect, PTL DEF Spec

(* What the operator disabled stays disabled, over late reports, recoveries *)
(* and restarts.                                                            *)
THEOREM HeldStaysOffHolds == ASSUME OneEnvironment PROVE Spec => []HeldStaysOff
<1>1. FileInv => HeldStaysOff
  BY DEF FileInv
<1>2. QED BY <1>1, FileFaithful, PTL

(* No restart takes away a key that was working. *)
THEOREM NoGhostHolds == ASSUME OneEnvironment PROVE Spec => []NoGhost
<1>1. FileInv => NoGhost
  BY DEF FileInv
<1>2. QED BY <1>1, FileFaithful, PTL

============================================================================
