------------------------------ MODULE UsageDb ------------------------------
(***************************************************************************)
(* The usage database (src/usagedb.ts) between the end of a request and the *)
(* row on disk, and the life of the process around it (src/main.ts,         *)
(* src/shutdown.ts).  A finished request only joins a queue in memory; a    *)
(* batch of it is written in one transaction together with the per-key      *)
(* totals, by a timer, by a full queue, by any reader and by close().       *)
(*                                                                          *)
(* A row is the request it records.  Rows of requests that never got a key  *)
(* have NoKey; observed rows (probes, count_tokens) enter no total.  SQLite *)
(* is synchronous: a flush is one step.  Whether the disk takes a           *)
(* transaction is a free choice at every transaction.                       *)
(***************************************************************************)
EXTENDS Naturals, Sequences, FiniteSets, SequencesExt

CONSTANTS
    Requests,   \* the requests whose end is recorded
    Keys,       \* the upstream keys
    NoKey,      \* '-': no key was picked
    KeyOf,      \* the key that served a request
    Observed,   \* the requests recorded as probe or count_tokens
    Views,      \* the cached aggregates the panel reads
    BatchMax,   \* REQUEST_BATCH_MAX
    RetryMax,   \* FLUSH_RETRY_MAX
    MaxStarts   \* bound: starts of the process

AllViews == {"history", "ips", "tokens", "keys", "trend"}

ASSUME UsageAssumption ==
    /\ NoKey \notin Keys
    /\ KeyOf \in [Requests -> Keys \cup {NoKey}]
    /\ Observed \subseteq Requests
    /\ Views \subseteq AllViews
    /\ BatchMax \in Nat \ {0}
    /\ RetryMax \in Nat
    /\ MaxStarts \in Nat

(* As many requests end as end in some time: their numbers can be added up. *)
ASSUME RequestsFinite == IsFiniteSet(Requests)

VARIABLES
    phase,      \* of the process: down, up, or closing after a signal
    starts,     \* how often it was started
    ended,      \* requests whose end was recorded
    enabled,    \* the database could be opened
    queue,      \* pendingRows
    timer,      \* pendingTimer: none, or what it was armed for
    retries,    \* flushRetries
    pruneDue,   \* nextPruneAt has passed
    cache,      \* per view: nothing, an aggregate, an aggregate that counts
                \*   rows deleted since, or a remembered failure
    table,      \* per request: the rows on disk that record it
    totals,     \* key_totals: requests per key, 0 for no row
    old,        \* rows on disk that are older than the retention
    failed,     \* history: how often writing the row failed (saturating)
    pruned      \* history: rows were deleted since the totals were rebuilt

server == <<phase, starts, ended>>
memory == <<enabled, queue, timer, retries, pruneDue>>
disk == <<table, totals, old>>
history == <<failed, pruned>>
vars == <<server, memory, cache, disk, history>>

(* What isObservedEndpoint() leaves of the requests a key has served. *)
Billable(k) == {r \in Requests : KeyOf[r] = k /\ r \notin Observed}

Copies(rows, r) == Cardinality({i \in DOMAIN rows : rows[i] = r})
Count(rowsOf) == [k \in Keys |-> SumFunctionOnSet(rowsOf, Billable(k))]

Stored == {r \in Requests : table[r] > 0}

Init ==
    /\ phase = "down" /\ starts = 0 /\ ended = {}
    /\ enabled = FALSE /\ queue = <<>> /\ timer = "none" /\ retries = 0
    /\ pruneDue = FALSE
    /\ cache = [v \in Views |-> "none"]
    /\ table = [r \in Requests |-> 0] /\ totals = [k \in Keys |-> 0] /\ old = {}
    /\ failed = [r \in Requests |-> 0] /\ pruned = FALSE

----------------------------------------------------------------------------
(* Transactions on the disk *)

Merged(rows) ==
    LET added == Count([r \in Requests |-> Copies(rows, r)])
    IN  [k \in Keys |-> totals[k] + added[k]]

Insert(rows) ==
    /\ table' = [r \in Requests |-> table[r] + Copies(rows, r)]
    /\ totals' = Merged(rows)
    /\ UNCHANGED <<old, pruned>>

Remaining(rows) ==
    [r \in Requests |-> (IF r \in old THEN 0 ELSE table[r]) + Copies(rows, r)]

(* Mutant: by min_at, which never grows: keys with rows left lose theirs. *)
InsertAndPruneByMin(rows) ==
    /\ table' = Remaining(rows)
    /\ totals' = [k \in Keys |-> IF \E r \in old : KeyOf[r] = k THEN 0 ELSE Merged(rows)[k]]
    /\ old' = {} /\ pruned' = TRUE

(* The batch, and after it the rows beyond the retention with the totals of *)
(* every key that has no row left; the totals of the others stay.           *)
InsertAndPrune(rows) ==
    /\ table' = Remaining(rows)
    /\ totals' = [k \in Keys |-> IF Count(table')[k] = 0 THEN 0 ELSE Merged(rows)[k]]
    /\ old' = {} /\ pruned' = TRUE

(* The next prune is put off before it is tried: a failed one is not made   *)
(* up for.  It is the time of the newest row of the batch that decides.     *)
Commit(rows) ==
    \/ Insert(rows) /\ pruneDue' \in {pruneDue, FALSE}
    \/ pruneDue /\ InsertAndPrune(rows) /\ pruneDue' = FALSE

----------------------------------------------------------------------------
(* recordRequest() and flush() *)

Min2(a, b) == IF a < b THEN a ELSE b
Armed(kind) == IF timer = "none" THEN kind ELSE timer

Refused(rows) ==
    /\ failed' = [r \in Requests |->
                    IF r \in Range(rows) THEN Min2(failed[r] + 1, RetryMax + 1) ELSE failed[r]]
    /\ UNCHANGED <<disk, pruned>>

Waiting(rows) == enabled /\ rows # <<>>

NothingToWrite(rows) ==
    /\ ~Waiting(rows)
    /\ queue' = rows /\ timer' = "none"
    /\ UNCHANGED <<retries, pruneDue, disk, history>>

(* One transaction for all the rows. *)
Written(rows) ==
    /\ Waiting(rows)
    /\ Commit(rows)
    /\ queue' = <<>> /\ timer' = "none" /\ retries' = 0
    /\ UNCHANGED failed

PutBack(rows) ==
    /\ Waiting(rows) /\ retries < RetryMax
    /\ Refused(rows)
    /\ queue' = rows /\ timer' = "retry" /\ retries' = retries + 1
    /\ UNCHANGED pruneDue

GivenUp(rows) ==
    /\ Waiting(rows) /\ retries >= RetryMax
    /\ Refused(rows)
    /\ queue' = <<>> /\ timer' = "none" /\ retries' = 0
    /\ UNCHANGED pruneDue

(* Mutants: each row in a transaction of its own; the put-back without a    *)
(* timer; no more than a batch at once; the counter kept on success.        *)
FlushRowByRow(rows) ==
    \/ NothingToWrite(rows) \/ Written(rows) \/ PutBack(rows) \/ GivenUp(rows)
    \/ /\ Waiting(rows) /\ Insert(<<Head(rows)>>)
       /\ queue' = rows /\ timer' = "retry"
       /\ UNCHANGED <<retries, failed, pruneDue>>
FlushUntimed(rows) ==
    \/ NothingToWrite(rows) \/ Written(rows) \/ GivenUp(rows)
    \/ /\ Waiting(rows) /\ retries < RetryMax /\ Refused(rows)
       /\ queue' = rows /\ timer' = "none" /\ retries' = retries + 1
       /\ UNCHANGED pruneDue
FlushOneBatch(rows) ==
    \/ NothingToWrite(rows) \/ PutBack(rows) \/ GivenUp(rows)
    \/ /\ Waiting(rows) /\ Commit(SubSeq(rows, 1, Min2(BatchMax, Len(rows))))
       /\ queue' = SubSeq(rows, BatchMax + 1, Len(rows)) /\ timer' = "batch" /\ retries' = 0
       /\ UNCHANGED failed
FlushCounting(rows) ==
    \/ NothingToWrite(rows) \/ PutBack(rows) \/ GivenUp(rows)
    \/ /\ Waiting(rows) /\ Commit(rows)
       /\ queue' = <<>> /\ timer' = "none"
       /\ UNCHANGED <<retries, failed>>

(* Put back at the head once, then lost with whatever joined it since. *)
Flush(rows) ==
    NothingToWrite(rows) \/ Written(rows) \/ PutBack(rows) \/ GivenUp(rows)

(* The end of a request: without a database the row is not kept. *)
Record(rows) ==
    IF ~enabled
    THEN UNCHANGED <<queue, timer, retries, pruneDue, disk, history>>
    ELSE \/ Len(rows) >= BatchMax /\ Flush(rows)
         \/ /\ Len(rows) < BatchMax
            /\ queue' = rows /\ timer' = Armed("batch")
            /\ UNCHANGED <<retries, pruneDue, disk, history>>

(* prune() drops the cached aggregates before it tries, all but keyUsage. *)
Voided ==
    IF pruneDue /\ ~pruneDue'
    THEN [v \in Views |->
            IF v # "keys" THEN "none"
            ELSE IF cache[v] = "rows" /\ pruned' /\ old # {} THEN "ghosts" ELSE cache[v]]
    ELSE cache

(* A request that began earlier ends, after the signal too. *)
End(r) ==
    /\ phase # "down" /\ r \notin ended
    /\ ended' = ended \cup {r}
    /\ Record(Append(queue, r))
    /\ cache' = Voided
    /\ UNCHANGED <<phase, starts, enabled>>

TimerFires ==
    /\ phase # "down" /\ timer # "none"
    /\ Flush(queue)
    /\ cache' = Voided
    /\ UNCHANGED <<server, enabled>>

----------------------------------------------------------------------------
(* The readers: each flushes first, then answers from its cache or asks. *)

Read(v, failing) ==
    /\ phase = "up" /\ enabled /\ v \in Views
    /\ Flush(queue)
    /\ \/ Voided[v] # "none" /\ cache' = Voided
       \/ Voided[v] = "none" /\ \E c \in {"rows", failing} : cache' = [Voided EXCEPT ![v] = c]
    /\ UNCHANGED <<server, enabled>>

(* usageTrend() remembers that its query failed, the others do not. *)
ReadHistory == Read("history", "none")
ReadIps == Read("ips", "none")
ReadTokens == Read("tokens", "none")
ReadKeys == Read("keys", "none")
ReadTrend == Read("trend", "failure")

(* listRequests(), usageByKeyFingerprints(): no cache. *)
ReadRows ==
    /\ phase = "up" /\ enabled
    /\ Flush(queue)
    /\ cache' = Voided
    /\ UNCHANGED <<server, enabled>>

CacheExpires(v) ==
    /\ cache[v] # "none"
    /\ cache' = [cache EXCEPT ![v] = "none"]
    /\ UNCHANGED <<server, memory, disk, history>>

----------------------------------------------------------------------------
(* Time *)

RowAges(r) ==
    /\ r \in Stored \ old
    /\ old' = old \cup {r}
    /\ UNCHANGED <<server, memory, cache, table, totals, history>>

PruneFallsDue ==
    /\ phase # "down" /\ enabled /\ ~pruneDue
    /\ pruneDue' = TRUE
    /\ UNCHANGED <<server, enabled, queue, timer, retries, cache, disk, history>>

----------------------------------------------------------------------------
(* The process *)

Gone ==
    /\ phase' = "down"
    /\ enabled' = FALSE /\ queue' = <<>> /\ timer' = "none" /\ retries' = 0
    /\ pruneDue' = FALSE
    /\ cache' = [v \in Views |-> "none"]
    /\ UNCHANGED <<starts, ended>>

(* rebuildTotals() at the end of migrate(): all in one transaction. *)
Rebuilt == totals' = Count(table) /\ pruned' = FALSE

(* The constructor: open, migrate and rebuild the totals.  What cannot be   *)
(* opened leaves a database that does nothing; a rebuild that fails leaves  *)
(* the totals of before.                                                    *)
Start ==
    /\ phase = "down" /\ starts < MaxStarts
    /\ phase' = "up" /\ starts' = starts + 1
    /\ enabled' \in BOOLEAN
    /\ \/ enabled' /\ Rebuilt
       \/ UNCHANGED <<totals, pruned>>
    /\ UNCHANGED <<ended, queue, timer, retries, pruneDue, cache, table, old, failed>>

Kill ==
    /\ phase # "down"
    /\ Gone
    /\ UNCHANGED <<disk, history>>

(* shutdown(): no new connections, the database stays open until the exit. *)
Signal ==
    /\ phase = "up"
    /\ phase' = "closing"
    /\ UNCHANGED <<starts, ended, memory, cache, disk, history>>

(* close(): one flush, and its rows are lost if the disk refuses them. *)
Close ==
    \/ ~Waiting(queue) /\ UNCHANGED <<disk, history>>
    \/ /\ Waiting(queue)
       /\ Insert(queue) \/ (pruneDue /\ InsertAndPrune(queue))
       /\ UNCHANGED failed
    \/ Waiting(queue) /\ Refused(queue)

(* The callback of server.close(), when the last response has ended, or the *)
(* timer, whatever is still being served: the first of them exits.          *)
Exit == phase = "closing" /\ Gone /\ Close

----------------------------------------------------------------------------

Next ==
    \/ \E r \in Requests : End(r) \/ RowAges(r)
    \/ TimerFires
    \/ ReadHistory \/ ReadIps \/ ReadTokens \/ ReadKeys \/ ReadTrend \/ ReadRows
    \/ \E v \in Views : CacheExpires(v)
    \/ PruneFallsDue
    \/ Start
    \/ Kill
    \/ Signal
    \/ Exit

(* A timer that is due fires in a process that runs. *)
Fairness == WF_vars(TimerFires)

Spec == Init /\ [][Next]_vars /\ Fairness

----------------------------------------------------------------------------
(* Properties *)

(* Every variable keeps its type, and the retry counter its limit. *)
TypeOK ==
    /\ phase \in {"down", "up", "closing"}
    /\ starts \in 0 .. MaxStarts
    /\ ended \subseteq Requests
    /\ enabled \in BOOLEAN
    /\ queue \in Seq(Requests)
    /\ timer \in {"none", "batch", "retry"}
    /\ retries \in 0 .. RetryMax
    /\ pruneDue \in BOOLEAN
    /\ cache \in [Views -> {"none", "rows", "ghosts", "failure"}]
    /\ table \in [Requests -> Nat]
    /\ totals \in [Keys -> Nat]
    /\ old \subseteq Stored
    /\ failed \in [Requests -> 0 .. RetryMax + 1]
    /\ pruned \in BOOLEAN

(* A row is written once at most, and never while it still waits: whatever  *)
(* was put back, retried, read, closed or started again (flush(), 1046).    *)
WrittenOnce ==
    /\ \A r \in Requests : table[r] + Copies(queue, r) <= 1
    /\ Stored \cup Range(queue) \subseteq ended

(* The rows share the fate that UsageLog describes: a batch is written or   *)
(* given up as a whole, and nothing that was written waits again.           *)
Log == INSTANCE UsageLog WITH waiting <- Range(queue), kept <- Stored
LogImplemented == Log!Spec

(* The totals behind the panel's history never fall short of the rows on    *)
(* disk, and are exact until rows have been deleted: the upsert, the prune, *)
(* the restart and every failure between them keep both together.           *)
TotalsCover ==
    \A k \in Keys :
        /\ totals[k] >= Count(table)[k]
        /\ ~pruned => totals[k] = Count(table)[k]

(* Rows that wait have a timer that will write them, and a retry is armed   *)
(* only for rows that were put back (recordRequest(), flush()).             *)
TimerArmed ==
    /\ enabled /\ queue # <<>> => timer # "none"
    /\ timer = "retry" => retries > 0 /\ queue # <<>>
    /\ ~enabled => queue = <<>>

(* A running process gives rows up only when their oldest one has already   *)
(* failed before (flush(), FLUSH_RETRY_MAX).                                *)
DropsNeedRetry ==
    [][phase' # "down" /\ ~(Range(queue) \subseteq Range(queue') \cup Stored')
         => failed[Head(queue)] >= RetryMax]_vars

(* Whatever waits is written or given up in the end: a disk that refuses    *)
(* keeps nothing in memory for ever, and no reader can postpone the retry.  *)
QueueDrains == (queue # <<>>) ~> (queue = <<>>)

(* What the comments promise (usagedb.ts 334-341, 2046): a row that waits   *)
(* is lost only with a process that is killed, or when its retry failed as  *)
(* well; a graceful exit loses none.                                        *)
LostOnlyAfterRetry ==
    [][\/ Kill
       \/ \A r \in Range(queue) \ (Range(queue') \cup Stored') : failed'[r] > RetryMax]_vars

============================================================================
