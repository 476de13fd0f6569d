----------------------------- MODULE RateLimit -----------------------------
(***************************************************************************)
(* The sliding-window request limit of one key (src/ratelimit.ts,           *)
(* RpmLimiter), and the clients that are told when to come back.  A window  *)
(* is a ring of one-second buckets, indexed by second % Buckets, which are  *)
(* emptied only when a later check finds them too old; the windows of all   *)
(* keys live in one map that is pruned now and then.                        *)
(*                                                                          *)
(* Time.  The code keeps the absolute second of the last write of a bucket; *)
(* the model keeps its age in seconds, with Buckets for "slid out, or never *)
(* written".  Checks fall on whole seconds: ceil() of the milliseconds the  *)
(* code computes is the same number of seconds anywhere within a second.    *)
(***************************************************************************)
EXTENDS Naturals, FiniteSets, FiniteSetsExt

CONSTANTS
    Buckets,    \* BUCKETS: the length of the window in seconds
    Limit,      \* rpm_limit of the key, or the global limit
    Crowd,      \* bound: checks by other users of the key in one second
    Burst       \* bound: requests the client sends without being told to wait

ASSUME RateAssumption ==
    /\ Buckets \in Nat \ {0}
    /\ Limit \in Nat \ {0}
    /\ Crowd \in Nat
    /\ Burst \in Nat

Slots == 0 .. Buckets - 1

VARIABLES
    slot,       \* the current second % Buckets
    tracked,    \* the map has a window for the key
    counts,     \* per slot: its counter
    age,        \* per slot: seconds since its last write
    idle,       \* seconds since the last check (lastSeen)
    wait,       \* seconds the client still waits, as it was told
    denied,     \* the last answer to the client was a 429
    sent,       \* requests of the client in this second
    recent      \* history: checks made that many seconds ago

window == <<tracked, counts, age, idle>>
client == <<wait, denied, sent>>
rateVars == <<slot, window, client, recent>>

Capped(n) == IF n > Buckets THEN Buckets ELSE n

Empty == [i \in Slots |-> 0]
Unwritten == [i \in Slots |-> Buckets]

RateInit ==
    /\ slot = 0
    /\ tracked = FALSE /\ counts = Empty /\ age = Unwritten /\ idle = 0
    /\ wait = 0 /\ denied = FALSE /\ sent = 0
    /\ recent = Empty

----------------------------------------------------------------------------
(* check() *)

(* The buckets that are still in the window, and what they hold. *)
Live(s) == age[s] < Buckets
LiveSlots == {s \in Slots : Live(s)}
Total == SumFunctionOnSet(counts, LiveSlots)
Denied == Total >= Limit

(* Mutant: until the oldest bucket has slid out. *)
RetryAfterOldest == Buckets - Max({age[s] : s \in LiveSlots})

(* Counting from the oldest bucket, the first one whose departure leaves    *)
(* less than Limit in the window, and when that is.                         *)
RetryAfter ==
    Buckets - Max({age[s] : s \in {t \in LiveSlots :
                      SumFunctionOnSet(counts, {u \in LiveSlots : age[u] < age[t]}) < Limit}})

(* Mutant: a request that is turned away is not counted. *)
CountedIfAllowed ==
    /\ tracked' = TRUE /\ idle' = 0
    /\ counts' = [s \in Slots |->
                    (IF Live(s) THEN counts[s] ELSE 0) + (IF s = slot /\ ~Denied THEN 1 ELSE 0)]
    /\ age' = [age EXCEPT ![slot] = 0]

(* What every check does to the window, whatever it answers: old buckets    *)
(* are emptied, and the check is counted in the current one.                *)
Counted ==
    /\ tracked' = TRUE /\ idle' = 0
    /\ counts' = [s \in Slots |->
                    (IF Live(s) THEN counts[s] ELSE 0) + (IF s = slot THEN 1 ELSE 0)]
    /\ age' = [age EXCEPT ![slot] = 0]

Recorded == recent' = [recent EXCEPT ![0] = @ + 1]

(* Someone else's request on the same key. *)
CheckOther ==
    /\ recent[0] < Crowd + sent
    /\ Counted /\ Recorded
    /\ UNCHANGED <<slot, client>>

(* A request of the client, sent freely or when the time it was told has    *)
(* passed; a 429 tells it to wait.                                          *)
CheckClient ==
    /\ wait = 0 /\ (denied \/ sent < Burst)
    /\ Counted /\ Recorded
    /\ denied' = Denied
    /\ wait' = IF Denied THEN RetryAfter ELSE 0
    /\ sent' = sent + 1
    /\ UNCHANGED slot

(* prune(), on some check of another key: a window not used for its whole   *)
(* length is dropped.                                                       *)
Prune ==
    /\ tracked /\ idle >= Buckets
    /\ tracked' = FALSE /\ counts' = Empty /\ age' = Unwritten /\ idle' = 0
    /\ UNCHANGED <<slot, client, recent>>

(* A second passes.  The client that has been told to wait does not wait    *)
(* longer than that.                                                        *)
RateTick ==
    /\ ~(denied /\ wait = 0)
    /\ slot' = (slot + 1) % Buckets
    /\ age' = [s \in Slots |-> Capped(age[s] + 1)]
    /\ idle' = IF tracked THEN Capped(idle + 1) ELSE idle
    /\ wait' = IF wait > 0 THEN wait - 1 ELSE 0
    /\ sent' = 0
    /\ recent' = [i \in Slots |-> IF i = 0 THEN 0 ELSE recent[i - 1]]
    /\ UNCHANGED <<tracked, counts, denied>>

RateNext == CheckOther \/ CheckClient \/ Prune \/ RateTick

RateSpec == RateInit /\ [][RateNext]_rateVars

(* Time passes, and a client that was turned away comes back when told.     *)
RateFairSpec == RateSpec /\ WF_rateVars(RateTick) /\ WF_rateVars(denied /\ CheckClient)

----------------------------------------------------------------------------

RateTypeOK ==
    /\ slot \in Slots
    /\ tracked \in BOOLEAN
    /\ counts \in [Slots -> Nat] /\ age \in [Slots -> 0 .. Buckets]
    /\ idle \in 0 .. Buckets
    /\ wait \in 0 .. Buckets /\ denied \in BOOLEAN /\ sent \in Nat
    /\ recent \in [Slots -> Nat]

(* Whatever was emptied late, overwritten by a new lap of the ring or       *)
(* pruned, the window counts exactly the checks of its last Buckets seconds.*)
WindowExact == Total = SumFunction(recent)

(* What is left in the window of the checks made until now, d seconds later. *)
LeftAfter(d) == SumFunctionOnSet(recent, {i \in Slots : i + d < Buckets})

(* The time a client is told is the earliest at which the checks made       *)
(* before its own leave room: no second too early, none too late.           *)
HintIsEarliest ==
    [][denied' /\ CheckClient =>
          LeftAfter(wait') < Limit /\ \A d \in 0 .. wait' - 1 : LeftAfter(d) >= Limit]_rateVars

(* ratelimit.ts:107-109: the hint is computed from the buckets so that a    *)
(* client that comes back when told is not kept waiting for ever by its own *)
(* retries.                                                                 *)
PatientClientServed == denied ~> ~denied

============================================================================
