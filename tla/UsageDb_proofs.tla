--------------------------- MODULE UsageDb_proofs ---------------------------
(***************************************************************************)
(* The queue and the rows on disk for any set of requests, any size of a    *)
(* batch and any number of retries: no row is written twice, batches share  *)
(* one fate (UsageLog), and rows are given up only after their retries; and *)
(* the columns of its file, for any number of processes (Schema).           *)
(***************************************************************************)
EXTENDS UsageDb, Schema, SumTheorems, FiniteSetTheorems, TLAPS

(***************************************************************************)
(* How often a request stands in a sequence of rows                         *)
(***************************************************************************)

(* No list has a negative number of copies, and those of an unlisted        *)
(* request are none.                                                        *)
LEMMA CopiesCount ==
    ASSUME NEW S, NEW s \in Seq(S), NEW x
    PROVE  /\ Copies(s, x) \in Nat
           /\ Copies(s, x) > 0 <=> x \in Range(s)
<1> DEFINE at == {i \in DOMAIN s : s[i] = x}
<1>1. IsFiniteSet(1 .. Len(s))
    BY FS_Interval
<1>2. at \in SUBSET (1 .. Len(s))
    OBVIOUS
<1>3. IsFiniteSet(at)
    BY <1>1, <1>2, FS_Subset
<1>4. Cardinality(at) \in Nat /\ (Cardinality(at) = 0 <=> at = {})
    BY <1>3, FS_CardinalityType, FS_EmptySet
<1>5. at # {} <=> x \in Range(s)
    BY Zenon DEF Range
<1> QED
    BY <1>4, <1>5 DEF Copies

(* One more row of r is one more copy of r, and of nothing else.            *)
LEMMA CopiesAppend ==
    ASSUME NEW S, NEW s \in Seq(S), NEW r \in S, NEW x
    PROVE  Copies(Append(s, r), x) = Copies(s, x) + (IF x = r THEN 1 ELSE 0)
<1> DEFINE at == {i \in DOMAIN s : s[i] = x}
           now == {i \in DOMAIN Append(s, r) : Append(s, r)[i] = x}
<1>1. IsFiniteSet(1 .. Len(s))
    BY FS_Interval
<1>2. at \in SUBSET (1 .. Len(s))
    OBVIOUS
<1>3. IsFiniteSet(at)
    BY <1>1, <1>2, FS_Subset
<1>4. Cardinality(at) \in Nat
    BY <1>3, FS_CardinalityType
<1>5. Len(s) + 1 \notin at
    BY <1>2
<1>6. CASE x = r
  <2>1. now = at \cup {Len(s) + 1}
      BY <1>6
  <2>2. Cardinality(at \cup {Len(s) + 1}) = Cardinality(at) + 1
      BY <1>3, <1>5, FS_AddElement
  <2> QED
      BY <1>6, <2>1, <2>2 DEF Copies
<1>7. CASE x # r
  <2>1. now = at
      BY <1>7
  <2>2. Cardinality(now) = Cardinality(at)
      BY <2>1, Zenon
  <2>3. Cardinality(at) = Cardinality(at) + (IF x = r THEN 1 ELSE 0)
      BY <1>4, <1>7
  <2> QED
      BY <2>2, <2>3 DEF Copies
<1> QED
    BY <1>6, <1>7

(* An empty list has no copies of anything. *)
LEMMA CopiesEmpty ==
    ASSUME NEW x
    PROVE  Copies(<<>>, x) = 0
<1>1. {i \in DOMAIN <<>> : <<>>[i] = x} = {}
    OBVIOUS
<1> QED
    BY <1>1, FS_EmptySet DEF Copies

(* The range of a list that has grown. *)
LEMMA RangeAppend ==
    ASSUME NEW S, NEW s \in Seq(S), NEW r \in S
    PROVE  /\ Range(Append(s, r)) = Range(s) \cup {r}
           /\ Range(s) \subseteq S
<1> DEFINE t == Append(s, r)
<1>1. /\ DOMAIN s = 1 .. Len(s) /\ DOMAIN t = 1 .. Len(s) + 1 /\ Len(s) \in Nat
      /\ \A i \in 1 .. Len(s) : s[i] \in S /\ t[i] = s[i]
      /\ t[Len(s) + 1] = r
    OBVIOUS
<1>2. 1 .. Len(s) + 1 = (1 .. Len(s)) \cup {Len(s) + 1}
    BY <1>1
<1>3. Range(s) = {s[i] : i \in 1 .. Len(s)} /\ Range(t) = {t[i] : i \in 1 .. Len(s) + 1}
    BY <1>1 DEF Range
<1> HIDE DEF t
<1>4. Range(t) = Range(s) \cup {r}
    BY <1>1, <1>2, <1>3
<1> QED
    BY <1>1, <1>3, <1>4 DEF t

(***************************************************************************)
(* The inductive invariant                                                  *)
(***************************************************************************)

RowTypes ==
    /\ ended \subseteq Requests /\ enabled \in BOOLEAN
    /\ queue \in Seq(Requests) /\ retries \in Nat
    /\ table \in [Requests -> Nat]
    /\ old \subseteq Stored
    /\ failed \in [Requests -> Nat]

(* Without a database nothing waits; while retries are counted, the oldest  *)
(* row that waits has failed that often.                                    *)
OffEmpty == ~enabled => queue = <<>> /\ retries = 0
RetryFailed == retries > 0 => queue # <<>> /\ failed[Head(queue)] >= retries

RowInv == RowTypes /\ WrittenOnce /\ OffEmpty /\ RetryFailed

(* What a flush may be asked to write: the queue, with the row of the       *)
(* request that has just ended or without.                                  *)
Sound(rows, over) ==
    /\ rows \in Seq(Requests)
    /\ \A r \in Requests : table[r] + Copies(rows, r) <= 1
    /\ Stored \cup Range(rows) \subseteq over
    /\ enabled \/ (rows = <<>> /\ retries = 0)
    /\ retries > 0 => rows # <<>> /\ failed[Head(rows)] >= retries

(* A row that is neither waiting nor written after a step has failed as     *)
(* often as is tried.                                                       *)
Excused(rows) ==
    ~(Range(rows) \subseteq Range(queue') \cup Stored') => failed[Head(rows)] >= RetryMax

(* What a transaction adds to the rows, and that it spares the new ones.    *)
LEMMA CommitAdds ==
    ASSUME RowTypes, NEW rows \in Seq(Requests), NEW over,
           Sound(rows, over), Insert(rows) \/ InsertAndPrune(rows)
    PROVE  /\ table' \in [Requests -> Nat] /\ old' \subseteq Stored'
           /\ \A r \in Requests : table'[r] <= 1
           /\ Stored' \subseteq over
           /\ Range(rows) \subseteq Stored'
           /\ \E gone \in SUBSET Stored : Stored' = (Stored \ gone) \cup Range(rows)
<1>1. \A r \in Requests : Copies(rows, r) \in Nat /\ (Copies(rows, r) > 0 <=> r \in Range(rows))
    BY CopiesCount
<1>2. Range(rows) \subseteq Requests
    BY DEF Range
<1>3. CASE Insert(rows)
  <2>1. table' = [r \in Requests |-> table[r] + Copies(rows, r)] /\ old' = old
      BY <1>3 DEF Insert
  <2>2. \A r \in Requests : table'[r] \in Nat /\ table'[r] <= 1
                          /\ (table'[r] > 0 <=> table[r] > 0 \/ r \in Range(rows))
      BY <1>1, <2>1 DEF Sound, RowTypes
  <2>3. Stored' = (Stored \ {}) \cup Range(rows)
      BY <1>2, <2>2 DEF Stored
  <2> QED
      BY <2>1, <2>2, <2>3 DEF RowTypes, Sound
<1>4. CASE InsertAndPrune(rows)
  <2>1. /\ table' = [r \in Requests |-> (IF r \in old THEN 0 ELSE table[r]) + Copies(rows, r)]
        /\ old' = {}
      BY <1>4 DEF InsertAndPrune, Remaining
  <2>2. \A r \in Requests : table'[r] \in Nat /\ table'[r] <= 1
                          /\ (table'[r] > 0 <=> (r \notin old /\ table[r] > 0) \/ r \in Range(rows))
      BY <1>1, <2>1 DEF Sound, RowTypes
  <2>3. Stored' = (Stored \ old) \cup Range(rows)
      BY <1>2, <2>2 DEF Stored
  <2> QED
      BY <2>1, <2>2, <2>3 DEF RowTypes, Sound
<1> QED
    BY <1>3, <1>4

(* flush(), whatever it does: the invariant, one fate, and no row lost      *)
(* before its retries.                                                      *)
LEMMA FlushKeeps ==
    ASSUME RowInv, RetryMax \in Nat, NEW rows \in Seq(Requests),
           enabled' = enabled, ended' \subseteq Requests,
           Sound(rows, ended'), Flush(rows)
    PROVE  RowInv' /\ Log!Fate(Range(rows)) /\ Excused(rows)
<1>0. \A r \in Requests : Copies(<<>>, r) = 0
    BY CopiesEmpty
<1>a. Range(<<>>) = {}
    BY DEF Range
<1>1. CASE NothingToWrite(rows)
  <2>1. queue' = rows /\ UNCHANGED <<retries, table, old, failed>>
      BY <1>1 DEF NothingToWrite, disk, history
  <2>2. Stored' = Stored
      BY <2>1 DEF Stored
  <2> QED
      BY <2>1, <2>2 DEF RowInv, RowTypes, WrittenOnce, OffEmpty, RetryFailed, Sound,
                        Excused, Log!Fate, Log!Postponed
<1>2. CASE Written(rows)
  <2>1. /\ queue' = <<>> /\ retries' = 0 /\ failed' = failed
        /\ Insert(rows) \/ InsertAndPrune(rows)
      BY <1>2 DEF Written, Commit
  <2>2. /\ table' \in [Requests -> Nat] /\ old' \subseteq Stored'
        /\ \A r \in Requests : table'[r] <= 1
        /\ Stored' \subseteq ended'
        /\ Range(rows) \subseteq Stored'
        /\ \E gone \in SUBSET Stored : Stored' = (Stored \ gone) \cup Range(rows)
      BY <2>1, CommitAdds DEF RowInv
  <2>3. RowInv'
      BY <1>0, <1>a, <2>1, <2>2 DEF RowInv, RowTypes, WrittenOnce, OffEmpty, RetryFailed
  <2> QED
      BY <1>a, <2>1, <2>2, <2>3 DEF Excused, Log!Fate, Log!Written
<1>3. CASE PutBack(rows)
  <2>1. /\ queue' = rows /\ retries' = retries + 1 /\ UNCHANGED <<table, old>>
        /\ rows # <<>> /\ enabled
        /\ failed' = [r \in Requests |->
                IF r \in Range(rows) THEN Min2(failed[r] + 1, RetryMax + 1) ELSE failed[r]]
        /\ retries < RetryMax
      BY <1>3 DEF PutBack, Refused, Waiting, disk
  <2>2. Stored' = Stored
      BY <2>1 DEF Stored
  <2>3. Head(rows) \in Requests /\ Head(rows) \in Range(rows)
      BY <2>1 DEF Range
  <2>4. failed' \in [Requests -> Nat]
      BY <2>1 DEF RowInv, RowTypes, Min2
  <2>5. failed'[Head(rows)] >= retries + 1
      BY <2>1, <2>3 DEF RowInv, RowTypes, Sound, Min2
  <2>6. RowTypes'
      BY <2>1, <2>2, <2>4 DEF RowInv, RowTypes
  <2>7. WrittenOnce'
      BY <2>1, <2>2 DEF WrittenOnce, Sound
  <2>8. OffEmpty' /\ RetryFailed'
      BY <2>1, <2>5 DEF OffEmpty, RetryFailed
  <2> QED
      BY <2>1, <2>2, <2>6, <2>7, <2>8 DEF RowInv, Excused, Log!Fate, Log!Postponed
<1>4. CASE GivenUp(rows)
  <2>1. /\ queue' = <<>> /\ retries' = 0 /\ UNCHANGED <<table, old>>
        /\ rows # <<>> /\ retries >= RetryMax
        /\ failed' = [r \in Requests |->
                IF r \in Range(rows) THEN Min2(failed[r] + 1, RetryMax + 1) ELSE failed[r]]
      BY <1>4 DEF GivenUp, Refused, Waiting, disk
  <2>2. Stored' = Stored
      BY <2>1 DEF Stored
  <2>3. Head(rows) \in Requests
      BY <2>1
  <2>4. failed' \in [Requests -> Nat]
      BY <2>1 DEF RowInv, RowTypes, Min2
  <2>5. failed[Head(rows)] >= RetryMax
      BY <2>1, <2>3 DEF RowInv, RowTypes, Sound
  <2>6. RowTypes' /\ OffEmpty' /\ RetryFailed'
      BY <2>1, <2>2, <2>4 DEF RowInv, RowTypes, OffEmpty, RetryFailed
  <2>7. \A r \in Requests : table'[r] <= 1
    <3> TAKE r \in Requests
    <3>1. table[r] \in Nat /\ Copies(queue, r) \in Nat /\ table[r] + Copies(queue, r) <= 1
        BY CopiesCount DEF RowInv, RowTypes, WrittenOnce
    <3> QED
        BY <2>1, <3>1
  <2>8. Stored' \cup Range(queue') \subseteq ended'
      BY <1>a, <2>1, <2>2 DEF Sound
  <2>9. \A r \in Requests : table'[r] + Copies(queue', r) <= 1
      BY <1>0, <2>1, <2>7 DEF RowInv, RowTypes
  <2>10. WrittenOnce'
      BY <2>8, <2>9 DEF WrittenOnce
  <2> QED
      BY <1>a, <2>1, <2>2, <2>5, <2>6, <2>10 DEF RowInv, Excused, Log!Fate, Log!Lost
<1> QED
    BY <1>1, <1>2, <1>3, <1>4 DEF Flush

(***************************************************************************)
(* The steps                                                                *)
(***************************************************************************)

(* A process that is down has no database open. *)
DownOff == phase = "down" => ~enabled
Inv == RowInv /\ DownOff

(* What a step does to the rows: at most one batch of them moves, and       *)
(* nothing is given up too early by a process that goes on.                 *)
StepOK ==
    /\ Inv'
    /\ [Log!Next]_(Log!vars)
    /\ phase' # "down" => Excused(queue)

(* The queue is fit to be written, and stays so when a request ends. *)
LEMMA QueueSound ==
    ASSUME RowInv
    PROVE  Sound(queue, ended)
<1>1. enabled \/ (queue = <<>> /\ retries = 0)
    BY Zenon DEF RowInv, OffEmpty
<1>2. queue \in Seq(Requests) /\ (retries > 0 => queue # <<>> /\ failed[Head(queue)] >= retries)
    BY DEF RowInv, RowTypes, RetryFailed
<1>3. \A r \in Requests : table[r] + Copies(queue, r) <= 1
    BY DEF RowInv, WrittenOnce
<1>4. Stored \cup Range(queue) \subseteq ended
    BY DEF RowInv, WrittenOnce
<1> QED
    BY <1>1, <1>2, <1>3, <1>4 DEF Sound

LEMMA GrownSound ==
    ASSUME RowInv, enabled, NEW r \in Requests, r \notin ended
    PROVE  Sound(Append(queue, r), ended \cup {r})
<1> DEFINE rows == Append(queue, r)
<1>0. queue \in Seq(Requests)
    BY DEF RowInv, RowTypes
<1>1. rows \in Seq(Requests) /\ rows # <<>> /\ (queue # <<>> => Head(rows) = Head(queue))
  <2>1. rows \in Seq(Requests) /\ Len(rows) = Len(queue) + 1 /\ Len(queue) \in Nat
      BY <1>0
  <2>2. rows # <<>>
      BY <2>1
  <2>3. ASSUME queue # <<>> PROVE Head(rows) = Head(queue)
    <3>1. 1 \in 1 .. Len(queue)
        BY <1>0, <2>3
    <3>2. rows[1] = queue[1]
        BY <1>0, <3>1
    <3> QED
        BY <1>0, <2>1, <3>1, <3>2
  <2> QED
      BY <2>1, <2>2, <2>3
<1>2. Range(rows) = Range(queue) \cup {r}
    BY RangeAppend DEF RowInv, RowTypes
<1>3. table[r] = 0 /\ Copies(queue, r) = 0
    BY CopiesCount DEF RowInv, RowTypes, WrittenOnce, Stored
<1>4. \A x \in Requests : table[x] + Copies(rows, x) <= 1
  <2> TAKE x \in Requests
  <2>1. Copies(rows, x) = Copies(queue, x) + (IF x = r THEN 1 ELSE 0)
      BY CopiesAppend DEF RowInv, RowTypes
  <2>2. Copies(queue, x) \in Nat /\ table[x] \in Nat /\ table[x] + Copies(queue, x) <= 1
      BY CopiesCount DEF RowInv, RowTypes, WrittenOnce
  <2> QED
      BY <1>3, <2>1, <2>2
<1>5. Stored \cup Range(rows) \subseteq ended \cup {r}
    BY <1>2 DEF RowInv, WrittenOnce
<1> HIDE DEF rows
<1>6. retries > 0 => rows # <<>> /\ failed[Head(rows)] >= retries
    BY <1>1 DEF RowInv, RetryFailed
<1>7. Sound(rows, ended \cup {r})
    BY <1>1, <1>4, <1>5, <1>6 DEF Sound
<1> QED
    BY <1>7 DEF rows

(* A timer or a reader writes the queue as it stands. *)
LEMMA BatchStep ==
    ASSUME Inv, RetryMax \in Nat, Flush(queue), UNCHANGED <<server, enabled>>
    PROVE  StepOK
<1>1. UNCHANGED <<phase, ended, enabled>>
    BY DEF server
<1>2. RowInv' /\ Log!Fate(Range(queue)) /\ Excused(queue)
    BY <1>1, QueueSound, FlushKeeps DEF Inv, RowInv, RowTypes
<1> QED
    BY <1>1, <1>2 DEF StepOK, Inv, DownOff, Log!Next, Log!Batch

(* A request ends: it joins those that wait, is written with them, or is    *)
(* not recorded.                                                            *)
LEMMA EndStep ==
    ASSUME Inv, RetryMax \in Nat, NEW r \in Requests, End(r)
    PROVE  StepOK
<1> DEFINE rows == Append(queue, r)
<1>1. /\ r \notin ended /\ ended' = ended \cup {r} /\ ended' \subseteq Requests
      /\ UNCHANGED <<phase, enabled>> /\ Record(rows)
    BY DEF End, Inv, RowInv, RowTypes
<1>2. rows \in Seq(Requests) /\ Range(rows) = Range(queue) \cup {r} /\ queue \in Seq(Requests)
    BY RangeAppend DEF Inv, RowInv, RowTypes
<1> HIDE DEF rows
<1>3. CASE ~enabled
  <2>1. UNCHANGED <<queue, retries, table, old, failed>>
      BY <1>1, <1>3 DEF Record, disk, history
  <2>2. Stored' = Stored
      BY <2>1 DEF Stored
  <2>3. RowInv'
      BY <1>1, <2>1, <2>2 DEF Inv, RowInv, RowTypes, WrittenOnce, OffEmpty, RetryFailed
  <2> QED
      BY <1>1, <2>1, <2>2, <2>3 DEF StepOK, Inv, DownOff, Excused, Log!Next, Log!End
<1>4. CASE enabled /\ Flush(rows)
  <2>1. Sound(rows, ended')
      BY <1>1, <1>4, GrownSound DEF Inv, rows
  <2>2. RowInv' /\ Log!Fate(Range(rows)) /\ Excused(rows)
      BY <1>1, <1>2, <1>4, <2>1, FlushKeeps DEF Inv
  <2>3. Excused(queue)
    <3>1. CASE queue = <<>>
        BY <3>1 DEF Excused, Range
    <3>2. CASE queue # <<>>
      <4>1. Head(rows) = Head(queue)
          BY <3>2, <1>2 DEF rows
      <4> QED
          BY <4>1, <1>2, <2>2 DEF Excused
    <3> QED
        BY <3>1, <3>2
  <2> QED
      BY <1>1, <1>2, <2>2, <2>3 DEF StepOK, Inv, DownOff, Log!Next, Log!End
<1>5. CASE enabled /\ queue' = rows /\ UNCHANGED <<retries, disk, history>>
  <2>1. UNCHANGED <<retries, table, old, failed>>
      BY <1>5 DEF disk, history
  <2>2. Stored' = Stored
      BY <2>1 DEF Stored
  <2>3. Sound(rows, ended')
      BY <1>1, <1>5, GrownSound DEF Inv, rows
  <2>4. RowInv'
      BY <1>1, <1>2, <1>5, <2>1, <2>2, <2>3
         DEF Inv, RowInv, RowTypes, WrittenOnce, OffEmpty, RetryFailed, Sound
  <2> QED
      BY <1>1, <1>2, <1>5, <2>2, <2>4
         DEF StepOK, Inv, DownOff, Excused, Log!Next, Log!End, Log!Fate, Log!Postponed
<1> QED
    BY <1>1, <1>3, <1>4, <1>5 DEF Record

(* Steps that leave the rows where they are, whatever opens or grows old. *)
LEMMA QuietStep ==
    ASSUME Inv, UNCHANGED <<ended, queue, retries, table, failed>>, old' \subseteq Stored,
           \/ UNCHANGED enabled /\ (phase' = "down" => phase = "down")
           \/ phase = "down" /\ phase' # "down" /\ enabled' \in BOOLEAN
    PROVE  StepOK
<1>1. Stored' = Stored
    BY DEF Stored
<1>2. Inv'
    BY <1>1 DEF Inv, RowInv, RowTypes, WrittenOnce, OffEmpty, RetryFailed, DownOff
<1> QED
    BY <1>1, <1>2 DEF StepOK, Excused, Log!vars

(* The end of the process: what waits is lost, or written by close().       *)
LEMMA GoneStep ==
    ASSUME Inv, Gone,
           \/ UNCHANGED <<disk, history>>
           \/ Waiting(queue) /\ (Insert(queue) \/ InsertAndPrune(queue)) /\ UNCHANGED failed
           \/ Waiting(queue) /\ Refused(queue)
    PROVE  StepOK
<1>1. /\ phase' = "down" /\ queue' = <<>> /\ retries' = 0 /\ ended' = ended
      /\ Range(queue') = {} /\ \A r \in Requests : Copies(queue', r) = 0
    BY CopiesEmpty DEF Gone, Range
<1>a. enabled' = FALSE
    BY DEF Gone
<1>b. OffEmpty' /\ RetryFailed' /\ DownOff'
  <2>1. OffEmpty' /\ RetryFailed'
      BY <1>1 DEF OffEmpty, RetryFailed
  <2>2. DownOff'
      BY <1>a, Zenon DEF DownOff
  <2> QED
      BY <2>1, <2>2
<1>c. (ended \subseteq Requests /\ enabled \in BOOLEAN /\ queue \in Seq(Requests) /\ retries \in Nat)'
  <2>1. enabled' \in BOOLEAN
      BY <1>a
  <2>2. ended \subseteq Requests /\ <<>> \in Seq(Requests)
      BY DEF Inv, RowInv, RowTypes
  <2> QED
      BY <1>1, <2>1, <2>2
<1>2. \A r \in Requests : table[r] \in Nat /\ table[r] <= 1
  <2> TAKE r \in Requests
  <2>1. table[r] \in Nat /\ Copies(queue, r) \in Nat /\ table[r] + Copies(queue, r) <= 1
      BY CopiesCount DEF Inv, RowInv, RowTypes, WrittenOnce
  <2> QED
      BY <2>1
<1>3. CASE UNCHANGED <<table, old>> /\ failed' \in [Requests -> Nat]
  <2>1. Stored' = Stored
      BY <1>3 DEF Stored
  <2>2. RowTypes'
      BY <1>c, <1>3, <2>1 DEF Inv, RowInv, RowTypes
  <2>3. WrittenOnce'
      BY <1>1, <1>2, <1>3, <2>1 DEF Inv, RowInv, WrittenOnce
  <2>4. Log!Next
      BY <1>1, <2>1 DEF Log!Next, Log!Batch, Log!Fate, Log!Lost
  <2>5. Inv'
      BY <1>b, <2>2, <2>3 DEF Inv, RowInv
  <2> QED
      BY <1>1, <2>4, <2>5 DEF StepOK
<1>4. CASE (Insert(queue) \/ InsertAndPrune(queue)) /\ UNCHANGED failed
  <2>1. /\ table' \in [Requests -> Nat] /\ old' \subseteq Stored'
        /\ \A r \in Requests : table'[r] <= 1
        /\ Stored' \subseteq ended
        /\ \E gone \in SUBSET Stored : Stored' = (Stored \ gone) \cup Range(queue)
      BY <1>4, QueueSound, CommitAdds DEF Inv, RowInv, RowTypes
  <2>2. RowTypes'
      BY <1>c, <1>4, <2>1 DEF Inv, RowInv, RowTypes
  <2>3. WrittenOnce'
      BY <1>1, <2>1 DEF WrittenOnce
  <2>4. Log!Next
      BY <1>1, <2>1 DEF Log!Next, Log!Batch, Log!Fate, Log!Written
  <2>5. Inv'
      BY <1>b, <2>2, <2>3 DEF Inv, RowInv
  <2> QED
      BY <1>1, <2>4, <2>5 DEF StepOK
<1>5. ASSUME Refused(queue)
      PROVE  UNCHANGED <<table, old>> /\ failed' \in [Requests -> Nat]
    BY <1>5, UsageAssumption DEF Refused, disk, Min2, Inv, RowInv, RowTypes, UsageAssumption
<1> QED
    BY <1>3, <1>4, <1>5 DEF disk, history, Inv, RowInv, RowTypes

LEMMA NextStep ==
    ASSUME Inv, [Next]_vars
    PROVE  StepOK
<1> USE UsageAssumption DEF UsageAssumption
<1>1. ASSUME NEW r \in Requests, End(r) PROVE StepOK
    BY <1>1, EndStep
<1>2. ASSUME NEW r \in Requests, RowAges(r) PROVE StepOK
    BY <1>2, QuietStep DEF RowAges, server, memory, history, Inv, RowInv, RowTypes
<1>3. CASE TimerFires
    BY <1>3, BatchStep DEF TimerFires
<1>4. CASE ReadHistory \/ ReadIps \/ ReadTokens \/ ReadKeys \/ ReadTrend \/ ReadRows
    BY <1>4, BatchStep DEF ReadHistory, ReadIps, ReadTokens, ReadKeys, ReadTrend, ReadRows, Read
<1>5. ASSUME NEW v \in Views, CacheExpires(v) PROVE StepOK
    BY <1>5, QuietStep DEF CacheExpires, server, memory, disk, history, Inv, RowInv, RowTypes
<1>6. CASE PruneFallsDue
    BY <1>6, QuietStep DEF PruneFallsDue, server, disk, history, Inv, RowInv, RowTypes
<1>7. CASE Start
    BY <1>7, QuietStep DEF Start, Inv, RowInv, RowTypes
<1>8. CASE Kill
    BY <1>8, GoneStep DEF Kill
<1>9. CASE Signal
    BY <1>9, QuietStep DEF Signal, memory, disk, history, Inv, RowInv, RowTypes
<1>10. CASE Exit
    BY <1>10, GoneStep DEF Exit, Close
<1>11. CASE UNCHANGED vars
    BY <1>11, QuietStep DEF vars, server, memory, disk, history, Inv, RowInv, RowTypes
<1> QED
    BY <1>1, <1>2, <1>3, <1>4, <1>5, <1>6, <1>7, <1>8, <1>9, <1>10, <1>11 DEF Next

LEMMA InitInv == Init => Inv /\ Log!Init
<1> SUFFICES ASSUME Init PROVE Inv /\ Log!Init
    OBVIOUS
<1>1. Stored = {} /\ Range(queue) = {} /\ queue \in Seq(Requests)
    BY DEF Init, Stored, Range
<1>2. \A r \in Requests : Copies(queue, r) = 0
    BY CopiesEmpty DEF Init
<1>3. WrittenOnce
    BY <1>1, <1>2 DEF Init, WrittenOnce
<1>4. OffEmpty /\ RetryFailed /\ DownOff
    BY DEF Init, OffEmpty, RetryFailed, DownOff
<1>5. RowTypes
    BY <1>1 DEF Init, RowTypes
<1>6. Log!Init
    BY <1>1 DEF Init, Log!Init
<1> QED
    BY <1>3, <1>4, <1>5, <1>6 DEF Inv, RowInv

LEMMA Invariance == Spec => []Inv
<1>1. Init => Inv
    BY InitInv
<1>2. Inv /\ [Next]_vars => Inv'
    BY NextStep DEF StepOK
<1> QED
    BY <1>1, <1>2, PTL DEF Spec

(***************************************************************************)
(* The theorems                                                             *)
(***************************************************************************)

(* Whatever was put back, retried, pruned or cut off by the end of the      *)
(* process: a row is written at most once, and not while it still waits.    *)
THEOREM WrittenOnceHolds == Spec => []WrittenOnce
<1>1. Inv => WrittenOnce
    BY DEF Inv, RowInv
<1> QED
    BY <1>1, Invariance, PTL

(* The database keeps the promise of UsageLog: those that wait share one    *)
(* fate, and what is written does not wait again.                           *)
THEOREM ImplementsLog == Spec => LogImplemented
<1>1. Init => Log!Init
    BY InitInv
<1>2. Inv /\ [Next]_vars => [Log!Next]_(Log!vars)
    BY NextStep DEF StepOK
<1> QED
    BY <1>1, <1>2, Invariance, PTL DEF Spec, LogImplemented, Log!Spec

(* A running process gives rows up only when the oldest of them has failed  *)
(* as often as it may be retried.                                           *)
THEOREM DropsNeedRetryHolds == Spec => DropsNeedRetry
<1>1. Inv /\ [Next]_vars
        => [phase' # "down" /\ ~(Range(queue) \subseteq Range(queue') \cup Stored')
              => failed[Head(queue)] >= RetryMax]_vars
    BY NextStep DEF StepOK, Excused
<1> QED
    BY <1>1, Invariance, PTL DEF Spec, DropsNeedRetry

----------------------------------------------------------------------------
(* The totals of the keys, and the rows they sum up *)

TotalsTyped == totals \in [Keys -> Nat]

(* What is counted of a key is a sum over finitely many requests. *)
LEMMA CountIs ==
    /\ \A k \in Keys : IsFiniteSet(Billable(k)) /\ Billable(k) \in SUBSET Requests
    /\ \A f : \A k \in Keys : Count(f)[k] = SumFunctionOnSet(f, Billable(k))
<1>1. \A k \in Keys : Billable(k) \in SUBSET Requests
  BY DEF Billable
<1>2. \A k \in Keys : IsFiniteSet(Billable(k))
  BY <1>1, RequestsFinite, FS_Subset
<1> QED BY <1>1, <1>2 DEF Count

LEMMA CountTyped ==
    ASSUME NEW f \in [Requests -> Nat], NEW k \in Keys
    PROVE  Count(f)[k] \in Nat
<1>1. IsFiniteSet(Billable(k)) /\ \A r \in Billable(k) : f[r] \in Nat
  BY CountIs
<1> QED BY <1>1, CountIs, SumRemove

(* The counts of two lots of rows add up, and fewer rows count for less. *)
LEMMA CountAdds ==
    ASSUME NEW f \in [Requests -> Nat], NEW g \in [Requests -> Nat], NEW h \in [Requests -> Nat],
           \A r \in Requests : h[r] = f[r] + g[r], NEW k \in Keys
    PROVE  Count(h)[k] = Count(f)[k] + Count(g)[k]
<1>1. /\ IsFiniteSet(Billable(k))
      /\ \A r \in Billable(k) : f[r] \in Nat /\ g[r] \in Nat /\ h[r] = f[r] + g[r]
  BY CountIs
<1> QED BY <1>1, CountIs, SumOfSums

LEMMA CountAtMost ==
    ASSUME NEW f \in [Requests -> Nat], NEW g \in [Requests -> Nat],
           \A r \in Requests : f[r] <= g[r], NEW k \in Keys
    PROVE  Count(f)[k] <= Count(g)[k]
<1>1. /\ IsFiniteSet(Billable(k))
      /\ \A r \in Billable(k) : f[r] \in Nat /\ g[r] \in Nat /\ f[r] <= g[r]
  BY CountIs
<1> QED BY <1>1, CountIs, SumAtMost

(* What a step does to the disk: a transaction with some rows, the rebuild  *)
(* of the totals, or nothing that they or the rows would show.              *)
Untouched == table' = table /\ totals' = totals /\ pruned' = pruned
Transaction ==
    \E rows \in Seq(Requests) : Insert(rows) \/ InsertAndPrune(rows)
DiskStep == Untouched \/ Transaction \/ (Rebuilt /\ table' = table)

LEMMA FlushOnDisk ==
    ASSUME NEW rows \in Seq(Requests), Flush(rows)
    PROVE  DiskStep
<1>1. CASE NothingToWrite(rows)
  BY <1>1 DEF NothingToWrite, disk, history, DiskStep, Untouched
<1>2. CASE Written(rows)
  BY <1>2 DEF Written, Commit, DiskStep, Transaction
<1>3. CASE PutBack(rows) \/ GivenUp(rows)
  BY <1>3 DEF PutBack, GivenUp, Refused, disk, DiskStep, Untouched
<1> QED BY <1>1, <1>2, <1>3 DEF Flush

LEMMA EveryDiskStep ==
    ASSUME Inv, [Next]_vars
    PROVE  DiskStep
<1>1. queue \in Seq(Requests)
  BY DEF Inv, RowInv, RowTypes
<1>2. ASSUME NEW r \in Requests, End(r) PROVE DiskStep
  <2>1. Record(Append(queue, r)) /\ Append(queue, r) \in Seq(Requests)
    BY <1>1, <1>2 DEF End
  <2>2. CASE Flush(Append(queue, r))
    BY <2>1, <2>2, FlushOnDisk
  <2>3. CASE UNCHANGED <<disk, history>>
    BY <2>3 DEF disk, history, DiskStep, Untouched
  <2> QED BY <2>1, <2>2, <2>3 DEF Record
<1>3. CASE TimerFires \/ ReadHistory \/ ReadIps \/ ReadTokens \/ ReadKeys \/ ReadTrend \/ ReadRows
  <2>1. Flush(queue)
    BY <1>3 DEF TimerFires, ReadHistory, ReadIps, ReadTokens, ReadKeys, ReadTrend, ReadRows, Read
  <2> QED BY <1>1, <2>1, FlushOnDisk
<1>4. ASSUME NEW r \in Requests, RowAges(r) PROVE DiskStep
  BY <1>4 DEF RowAges, history, DiskStep, Untouched
<1>5. ASSUME NEW v \in Views, CacheExpires(v) PROVE DiskStep
  BY <1>5 DEF CacheExpires, disk, history, DiskStep, Untouched
<1>6. CASE PruneFallsDue \/ Kill \/ Signal \/ UNCHANGED vars
  BY <1>6 DEF PruneFallsDue, Kill, Signal, vars, disk, history, DiskStep, Untouched
<1>7. CASE Start
  BY <1>7 DEF Start, DiskStep, Untouched
<1>8. CASE Exit
  <2>1. Close
    BY <1>8 DEF Exit
  <2>2. CASE UNCHANGED <<disk, history>> \/ Refused(queue)
    BY <2>2 DEF Refused, disk, history, DiskStep, Untouched
  <2>3. CASE Insert(queue) \/ InsertAndPrune(queue)
    BY <1>1, <2>3 DEF DiskStep, Transaction
  <2> QED BY <2>1, <2>2, <2>3 DEF Close
<1> QED BY <1>2, <1>3, <1>4, <1>5, <1>6, <1>7, <1>8 DEF Next

(* The rows of a batch are counted in the totals as they are written, and   *)
(* the prune takes away no more than the rows it deletes.                   *)
LEMMA DiskStepCovers ==
    ASSUME Inv, Inv', TotalsTyped, TotalsCover, DiskStep
    PROVE  TotalsTyped' /\ TotalsCover'
<1>1. /\ table \in [Requests -> Nat] /\ totals \in [Keys -> Nat]
      /\ \A k \in Keys : totals[k] >= Count(table)[k] /\ (~pruned => totals[k] = Count(table)[k])
  BY DEF Inv, RowInv, RowTypes, TotalsTyped, TotalsCover
<1>2. PICK after \in [Requests -> Nat] : after = table'
  BY DEF Inv, RowInv, RowTypes
<1>3. SUFFICES /\ totals' \in [Keys -> Nat]
               /\ \A k \in Keys : /\ totals'[k] >= Count(after)[k]
                                  /\ ~pruned' => totals'[k] = Count(after)[k]
  <2>1. \A k \in Keys : Count(table)'[k] = Count(after)[k]
    BY <1>2 DEF Count, Billable
  <2> QED BY <2>1 DEF TotalsTyped, TotalsCover
<1>4. \A k \in Keys : Count(table)[k] \in Nat /\ Count(after)[k] \in Nat /\ totals[k] \in Nat
  BY <1>1, <1>2, CountTyped
<1>5. CASE Untouched
  BY <1>1, <1>2, <1>4, <1>5 DEF Untouched
<1>6. CASE Rebuilt /\ table' = table
  <2>1. totals' = Count(after) /\ pruned' = FALSE
    BY <1>2, <1>6 DEF Rebuilt
  <2>2. totals' = [k \in Keys |-> Count(after)[k]]
    BY <2>1 DEF Count
  <2> QED BY <1>4, <2>1, <2>2
<1>7. CASE Transaction
  <2>1. PICK rows \in Seq(Requests) : Insert(rows) \/ InsertAndPrune(rows)
    BY <1>7 DEF Transaction
  <2> DEFINE fresh == [r \in Requests |-> Copies(rows, r)]
             all == [r \in Requests |-> table[r] + fresh[r]]
  <2>2. \A r \in Requests : Copies(rows, r) \in Nat
    BY CopiesCount
  <2>3. /\ fresh \in [Requests -> Nat] /\ all \in [Requests -> Nat]
        /\ \A r \in Requests : all[r] = table[r] + fresh[r]
    BY <1>1, <2>2
  <2>4. Merged(rows) = [k \in Keys |-> totals[k] + Count(fresh)[k]]
    BY DEF Merged
  <2>5. table' = [r \in Requests |-> table[r] + Copies(rows, r)] => after = all
    BY <1>2
  <2>6. table' = Remaining(rows) => \A r \in Requests : after[r] <= all[r]
    BY <1>1, <1>2, <2>2 DEF Remaining
  <2> HIDE DEF fresh, all
  <2>7. \A k \in Keys : Count(all)[k] = Count(table)[k] + Count(fresh)[k] /\ Count(fresh)[k] \in Nat
    BY <1>1, <2>3, CountAdds, CountTyped
  <2>8. CASE Insert(rows)
    BY <1>1, <1>4, <2>4, <2>5, <2>7, <2>8 DEF Insert
  <2>9. CASE InsertAndPrune(rows)
    <3>1. \A k \in Keys : Count(after)[k] <= Count(all)[k]
      BY <1>2, <2>3, <2>6, <2>9, CountAtMost DEF InsertAndPrune
    <3>2. /\ totals' = [k \in Keys |-> IF Count(table')[k] = 0 THEN 0 ELSE Merged(rows)[k]]
          /\ pruned' = TRUE
      BY <2>9 DEF InsertAndPrune
    <3>3. totals' = [k \in Keys |-> IF Count(after)[k] = 0 THEN 0 ELSE Merged(rows)[k]]
      BY <1>2, <3>2
    <3> DEFINE total(k) == IF Count(after)[k] = 0 THEN 0 ELSE Merged(rows)[k]
    <3>4. \A k \in Keys : totals'[k] = total(k) /\ Merged(rows)[k] = totals[k] + Count(fresh)[k]
      BY <2>4, <3>3
    <3>5. \A k \in Keys : totals'[k] \in Nat /\ totals'[k] >= Count(after)[k]
      <4>1. ASSUME NEW k \in Keys PROVE totals'[k] \in Nat /\ totals'[k] >= Count(after)[k]
        <5>1. /\ Count(table)[k] \in Nat /\ Count(after)[k] \in Nat /\ totals[k] \in Nat
              /\ Count(fresh)[k] \in Nat /\ Count(all)[k] = Count(table)[k] + Count(fresh)[k]
              /\ Count(after)[k] <= Count(all)[k] /\ totals[k] >= Count(table)[k]
          BY <1>1, <1>4, <2>7, <3>1
        <5>2. \/ totals'[k] = 0 /\ Count(after)[k] = 0
              \/ totals'[k] = totals[k] + Count(fresh)[k]
          BY <3>4
        <5> QED BY <5>1, <5>2
      <4> QED BY <4>1
    <3> QED BY <3>2, <3>3, <3>5
  <2> QED BY <2>1, <2>8, <2>9
<1> QED BY <1>5, <1>6, <1>7 DEF DiskStep

(* TotalsCover: the totals of every key never fall short of the rows on     *)
(* disk and are exact until rows are deleted, however the batches are cut,  *)
(* refused, retried or pruned, and however often the process is restarted   *)
(* (flush(), prune(), rebuildTotals()).                                     *)
THEOREM TotalsCoverHolds == Spec => []TotalsCover
<1>1. Init => TotalsTyped /\ TotalsCover
  <2> SUFFICES ASSUME Init PROVE TotalsTyped /\ TotalsCover
    OBVIOUS
  <2>1. totals = [k \in Keys |-> 0] /\ table = [r \in Requests |-> 0]
    BY DEF Init
  <2>2. PICK none : none = [r \in Requests |-> 0]
    OBVIOUS
  <2>3. none \in [Requests -> Nat] /\ \A r \in Requests : none[r] = none[r] + none[r]
    BY <2>2
  <2>4. \A k \in Keys : Count(none)[k] \in Nat /\ Count(none)[k] = Count(none)[k] + Count(none)[k]
    BY <2>3, CountTyped, CountAdds
  <2>5. \A k \in Keys : Count(none)[k] = 0
    BY <2>4
  <2> QED BY <2>1, <2>2, <2>5 DEF TotalsTyped, TotalsCover
<1>2. Inv /\ Inv' /\ TotalsTyped /\ TotalsCover /\ [Next]_vars => TotalsTyped' /\ TotalsCover'
  BY EveryDiskStep, DiskStepCovers
<1> QED BY <1>1, <1>2, Invariance, PTL DEF Spec

----------------------------------------------------------------------------
(* The file is brought up to date *)

OpeningRecs ==
    [pc : {"off", "tables", "look", "add", "prepare", "serving", "disabled"},
     group : 1 .. 4, missing : SUBSET AllColumns, again : BOOLEAN, wide : BOOLEAN,
     cause : {"none", "file", "column"}]

ColumnsOf(g) == Columns[Groups[g]]

(* How far a process that was refused nothing has come. *)
Upgraded(me, cols) ==
    /\ me.pc \in {"off", "tables"} => me.group = 1
    /\ me.cause = "none" =>
        /\ me.pc \in {"look", "add"} => \A g \in 1 .. 4 : g < me.group => ColumnsOf(g) \subseteq cols
        /\ me.pc = "add" => me.missing # {} /\ ColumnsOf(me.group) \subseteq cols \cup me.missing
        /\ me.pc = "prepare" => AllColumns \subseteq cols
        /\ me.pc = "serving" => me.wide
        /\ me.pc # "disabled"

SchemaInv ==
    /\ opening \in [Processes -> OpeningRecs]
    /\ \A p \in Processes : Upgraded(opening[p], columns)

LEMMA SchemaInvImplies == SchemaInv => RaceLosesNothing
BY DEF SchemaInv, Upgraded, RaceLosesNothing, At, OpeningRecs

LEMMA GroupsShape ==
    /\ Len(Groups) = 4 /\ Groups[1] = "accounts" /\ Groups[2] = "requests"
    /\ Groups[3] = "tokens" /\ Groups[4] = "admin_audit"
    /\ \A g \in 1 .. 4 : Groups[g] \in Tables /\ ColumnsOf(g) \subseteq AllColumns
    /\ \A c \in AllColumns : \E g \in 1 .. 4 : c \in ColumnsOf(g)
<1>1. /\ Len(Groups) = 4 /\ Groups[1] = "accounts" /\ Groups[2] = "requests"
      /\ Groups[3] = "tokens" /\ Groups[4] = "admin_audit"
  BY DEF Groups
<1>2. Tables = {"accounts", "requests", "tokens", "admin_audit"}
  BY DEF Tables, Columns
<1>3. 1 .. 4 = {1, 2, 3, 4}
  OBVIOUS
<1>4. \A g \in 1 .. 4 : Groups[g] \in Tables
  BY <1>1, <1>2, <1>3
<1>5. \A t \in Tables : \E g \in 1 .. 4 : t = Groups[g]
  BY <1>1, <1>2, <1>3
<1> QED BY <1>1, <1>4, <1>5 DEF AllColumns, ColumnsOf

LEMMA FirstIsMissing ==
    ASSUME NEW S, S # {}
    PROVE  First(S) \in S
BY DEF First

(* Columns are never taken away. *)
LEMMA StaysUpgraded ==
    ASSUME NEW me, NEW cols, NEW more, cols \subseteq more, Upgraded(me, cols)
    PROVE  Upgraded(me, more)
BY DEF Upgraded

LEMMA NextGroupUpgraded ==
    ASSUME NEW me \in OpeningRecs, NEW cols, me.pc # "disabled",
           me.cause = "none" =>
              \A g \in 1 .. 4 : g <= me.group => ColumnsOf(g) \subseteq cols
    PROVE  NextGroup(me) \in OpeningRecs /\ Upgraded(NextGroup(me), cols)
<1>1. me.group \in 1 .. 4
  BY DEF OpeningRecs
<1>2. CASE me.group = 4
  <2>1. NextGroup(me) = [me EXCEPT !.pc = "prepare", !.missing = {}]
    BY <1>2, GroupsShape DEF NextGroup
  <2>2. me.cause = "none" => AllColumns \subseteq cols
    BY <1>2, GroupsShape
  <2> QED BY <2>1, <2>2 DEF OpeningRecs, Upgraded
<1>3. CASE me.group # 4
  <2> DEFINE next == me.group + 1
  <2>1. NextGroup(me) = [me EXCEPT !.pc = "look", !.group = next, !.missing = {}]
    BY <1>3, GroupsShape DEF NextGroup, OpeningRecs
  <2>2. next \in 1 .. 4 /\ \A g \in 1 .. 4 : g < next => g <= me.group
    BY <1>1, <1>3
  <2> HIDE DEF next
  <2>3. /\ NextGroup(me) \in OpeningRecs /\ NextGroup(me).group = next
        /\ NextGroup(me).pc = "look" /\ NextGroup(me).cause = me.cause
    BY <2>1, <2>2 DEF OpeningRecs
  <2> QED BY <2>2, <2>3 DEF Upgraded
<1> QED BY <1>2, <1>3

(* The first of the missing columns is dealt with: it is there now. *)
LEMMA DealtUpgraded ==
    ASSUME NEW me \in OpeningRecs, NEW cols, me.pc = "add", Upgraded(me, cols),
           me.cause = "none" => First(me.missing) \in cols
    PROVE  Dealt(me) \in OpeningRecs /\ Upgraded(Dealt(me), cols)
<1> DEFINE rest == me.missing \ {First(me.missing)}
           once == [me EXCEPT !.again = FALSE]
<1>1. /\ once \in OpeningRecs /\ once.pc = "add" /\ once.group = me.group
      /\ once.cause = me.cause
  BY DEF OpeningRecs
<1>2. CASE rest = {}
  <2>1. me.cause = "none" =>
           \A g \in 1 .. 4 : g <= me.group => ColumnsOf(g) \subseteq cols
    <3>1. me.group \in 1 .. 4
      BY DEF OpeningRecs
    <3> QED BY <1>2, <3>1 DEF Upgraded
  <2>2. Dealt(me) = NextGroup(once)
    BY <1>2 DEF Dealt
  <2> HIDE DEF once
  <2> QED BY <1>1, <2>1, <2>2, NextGroupUpgraded
<1>3. CASE rest # {}
  <2>1. Dealt(me) = [me EXCEPT !.missing = rest, !.again = FALSE]
    BY <1>3 DEF Dealt
  <2>2. rest \in SUBSET AllColumns
    BY DEF OpeningRecs
  <2>3. me.cause = "none" => ColumnsOf(me.group) \subseteq cols \cup rest
    BY DEF Upgraded
  <2> HIDE DEF rest
  <2>4. /\ Dealt(me) \in OpeningRecs /\ Dealt(me).missing = rest /\ Dealt(me).pc = "add"
        /\ Dealt(me).group = me.group /\ Dealt(me).cause = me.cause
    BY <2>1, <2>2 DEF OpeningRecs
  <2> QED BY <1>3, <2>3, <2>4 DEF Upgraded
<1> QED BY <1>2, <1>3

(* A step of one process, and columns that were added. *)
LEMMA OneProcess ==
    ASSUME SchemaInv, NEW p \in Processes, NEW me \in OpeningRecs, Goes(p, me),
           columns \subseteq columns', Upgraded(me, columns')
    PROVE  SchemaInv'
<1>1. /\ opening' \in [Processes -> OpeningRecs] /\ opening'[p] = me
      /\ \A q \in Processes : q # p => opening'[q] = opening[q]
  BY DEF SchemaInv, Goes
<1>2. \A q \in Processes : Upgraded(opening[q], columns')
  BY StaysUpgraded DEF SchemaInv
<1>3. \A q \in Processes : Upgraded(opening'[q], columns')
  BY <1>1, <1>2
<1> QED BY <1>1, <1>3 DEF SchemaInv, Upgraded

LEMMA ProcessSteps ==
    ASSUME SchemaInv, NEW p \in Processes,
           \/ Open(p) \/ TablesThere(p) \/ Look(p) \/ AddColumn(p) \/ ColumnRefused(p)
           \/ Prepare(p) \/ Stop(p)
           \/ \E t \in Tables : CreateTable(p, t)
    PROVE  SchemaInv'
<1> DEFINE me == opening[p]
<1>1. me \in OpeningRecs /\ Upgraded(me, columns)
  BY DEF SchemaInv
<1>2. CASE Open(p)
  <2> DEFINE begun == [me EXCEPT !.pc = "tables", !.cause = "none"]
             off == [me EXCEPT !.pc = "disabled", !.cause = "file"]
  <2>1. columns' = columns /\ me.pc = "off" /\ (Goes(p, begun) \/ Goes(p, off))
    BY <1>2 DEF Open, Given, At
  <2>2. /\ begun \in OpeningRecs /\ begun.pc = "tables" /\ begun.group = me.group
        /\ off \in OpeningRecs /\ off.pc = "disabled" /\ off.cause = "file"
    BY <1>1 DEF OpeningRecs
  <2>3. me.group = 1
    BY <1>1, <2>1 DEF Upgraded
  <2> HIDE DEF me, begun, off
  <2>4. Upgraded(begun, columns) /\ Upgraded(off, columns)
    BY <2>2, <2>3 DEF Upgraded
  <2> QED BY <2>1, <2>2, <2>4, OneProcess
<1>3. ASSUME NEW t \in Tables, CreateTable(p, t)
      PROVE  SchemaInv'
  <2> DEFINE off == [me EXCEPT !.pc = "disabled", !.cause = "file"]
  <2>1. \/ columns' = columns \cup Columns[t] /\ UNCHANGED opening
        \/ columns' = columns /\ Goes(p, off)
    BY <1>3 DEF CreateTable, Given
  <2>2. CASE columns' = columns \cup Columns[t] /\ UNCHANGED opening
    <3>1. columns \subseteq columns'
      BY <2>2
    <3>2. \A q \in Processes : Upgraded(opening[q], columns')
      BY <3>1, StaysUpgraded DEF SchemaInv
    <3> QED BY <2>2, <3>2 DEF SchemaInv, Upgraded
  <2>3. CASE columns' = columns /\ Goes(p, off)
    <3>1. off \in OpeningRecs /\ off.cause = "file" /\ off.pc = "disabled"
      BY <1>1 DEF OpeningRecs
    <3> HIDE DEF off
    <3>2. Upgraded(off, columns)
      BY <3>1 DEF Upgraded
    <3> QED BY <2>3, <3>1, <3>2, OneProcess
  <2> QED BY <2>1, <2>2, <2>3
<1>4. CASE TablesThere(p)
  <2> DEFINE now == [me EXCEPT !.pc = "look"]
  <2>1. now \in OpeningRecs /\ now.pc = "look" /\ now.group = me.group
    BY <1>1 DEF OpeningRecs
  <2>2. me.pc = "tables" /\ Goes(p, now) /\ columns' = columns
    BY <1>4 DEF TablesThere, At
  <2>3. now.group = 1
    BY <1>1, <2>1, <2>2 DEF Upgraded
  <2> HIDE DEF me, now
  <2>4. Upgraded(now, columns)
    BY <2>1, <2>3 DEF Upgraded
  <2> QED BY <2>1, <2>2, <2>4, OneProcess
<1>5. CASE Look(p)
  <2> DEFINE seen == ColumnsOf(me.group) \ columns
             found == [me EXCEPT !.pc = "add", !.missing = seen]
             refused == [NextGroup(me) EXCEPT !.cause = "column"]
  <2>1. /\ me.pc = "look" /\ columns' = columns
        /\ \/ Goes(p, IF seen = {} THEN NextGroup(me) ELSE found)
           \/ Goes(p, refused)
    BY <1>5 DEF Look, At, ColumnsOf
  <2>2. me.group \in 1 .. 4 /\ seen \in SUBSET AllColumns
    BY <1>1, GroupsShape DEF OpeningRecs
  <2>3. me.cause = "none" =>
           \A g \in 1 .. 4 : g < me.group => ColumnsOf(g) \subseteq columns
    BY <1>1, <2>1 DEF Upgraded
  <2>4. CASE seen = {} /\ Goes(p, NextGroup(me))
    <3>1. me.cause = "none" =>
             \A g \in 1 .. 4 : g <= me.group => ColumnsOf(g) \subseteq columns
      BY <2>2, <2>3, <2>4
    <3>2. NextGroup(me) \in OpeningRecs /\ Upgraded(NextGroup(me), columns)
      BY <1>1, <2>1, <3>1, NextGroupUpgraded
    <3> QED BY <2>1, <2>4, <3>2, OneProcess
  <2>5. CASE seen # {} /\ Goes(p, found)
    <3>1. /\ found \in OpeningRecs /\ found.pc = "add" /\ found.missing = seen
          /\ found.group = me.group /\ found.cause = me.cause
      BY <1>1, <2>2 DEF OpeningRecs
    <3>2. ColumnsOf(me.group) \subseteq columns \cup seen
      OBVIOUS
    <3> HIDE DEF found, me, seen
    <3>3. Upgraded(found, columns)
      BY <2>3, <2>5, <3>1, <3>2 DEF Upgraded
    <3> QED BY <2>1, <2>5, <3>1, <3>3, OneProcess
  <2>6. CASE Goes(p, refused)
    <3> DEFINE next == NextGroup(me)
               freed == [me EXCEPT !.cause = "column"]
    <3>1. freed \in OpeningRecs /\ freed.pc = "look" /\ freed.cause = "column" /\ freed.group = me.group
      BY <1>1, <2>1 DEF OpeningRecs
    <3>2. NextGroup(freed) = refused
      BY <1>1 DEF NextGroup, OpeningRecs
    <3> HIDE DEF freed, refused
    <3>3. refused \in OpeningRecs /\ Upgraded(refused, columns)
      BY <3>1, <3>2, NextGroupUpgraded
    <3> QED BY <2>1, <2>6, <3>3, OneProcess
  <2> QED BY <2>1, <2>4, <2>5, <2>6
<1>6. CASE AddColumn(p)
  <2>1. /\ me.pc = "add" /\ Goes(p, Dealt(me)) /\ columns \subseteq columns'
        /\ First(me.missing) \in columns'
    BY <1>6 DEF AddColumn, At
  <2>2. Upgraded(me, columns')
    BY <1>1, <2>1, StaysUpgraded
  <2>3. Dealt(me) \in OpeningRecs /\ Upgraded(Dealt(me), columns')
    BY <1>1, <2>1, <2>2, DealtUpgraded
  <2> QED BY <2>1, <2>3, OneProcess
<1>7. CASE ColumnRefused(p)
  <2> DEFINE c == First(me.missing)
             after == [AfterFailure(me) EXCEPT !.cause = IF c \in columns THEN @ ELSE "column"]
             blamed == IF c \in columns THEN me ELSE [me EXCEPT !.cause = "column"]
             twice == [blamed EXCEPT !.again = TRUE]
  <2>1. me.pc = "add" /\ Goes(p, after) /\ columns' = columns
    BY <1>7 DEF ColumnRefused, At
  <2>2. /\ blamed \in OpeningRecs /\ blamed.pc = "add" /\ blamed.missing = me.missing
        /\ blamed.group = me.group /\ blamed.again = me.again
        /\ blamed.cause = "none" => blamed = me /\ c \in columns
    BY <1>1, <2>1 DEF OpeningRecs
  <2>3. Upgraded(blamed, columns)
    BY <1>1, <2>2 DEF Upgraded
  <2>4. after = twice \/ after = Dealt(blamed)
    BY <1>1, <2>2 DEF AfterFailure, Dealt, NextGroup, OpeningRecs
  <2>5. Dealt(blamed) \in OpeningRecs /\ Upgraded(Dealt(blamed), columns)
    <3> HIDE DEF blamed
    <3> QED BY <2>2, <2>3, DealtUpgraded
  <2>6. twice \in OpeningRecs /\ Upgraded(twice, columns)
    <3> HIDE DEF blamed, me
    <3>1. /\ twice \in OpeningRecs /\ twice.pc = "add" /\ twice.missing = blamed.missing
          /\ twice.group = blamed.group /\ twice.cause = blamed.cause
      BY <2>2 DEF OpeningRecs
    <3> HIDE DEF twice
    <3> QED BY <2>2, <2>3, <3>1 DEF Upgraded
  <2> HIDE DEF after, blamed, twice
  <2> QED BY <2>1, <2>4, <2>5, <2>6, OneProcess
<1>8. CASE Prepare(p)
  <2> DEFINE serving == [me EXCEPT !.pc = "serving", !.wide = "api_key_fp" \in columns]
             disabled == [me EXCEPT !.pc = "disabled"]
  <2>1. /\ me.pc = "prepare" /\ columns' = columns
        /\ IF {"path", "audit ip"} \subseteq columns THEN Goes(p, serving) ELSE Goes(p, disabled)
    BY <1>8 DEF Prepare, At
  <2>2. {"path", "audit ip", "api_key_fp"} \subseteq AllColumns
    <3>1. Columns["requests"] \subseteq AllColumns /\ Columns["admin_audit"] \subseteq AllColumns
      BY DEF AllColumns, Tables, Columns
    <3> QED BY <3>1 DEF Columns
  <2>3. me.cause = "none" => {"path", "audit ip", "api_key_fp"} \subseteq columns
    BY <1>1, <2>1, <2>2 DEF Upgraded
  <2>4. ("api_key_fp" \in columns) \in BOOLEAN
    OBVIOUS
  <2>5. /\ serving \in OpeningRecs /\ serving.pc = "serving" /\ serving.cause = me.cause
        /\ serving.wide = ("api_key_fp" \in columns)
    BY <1>1, <2>4 DEF OpeningRecs
  <2>6. disabled \in OpeningRecs /\ disabled.pc = "disabled" /\ disabled.cause = me.cause
    BY <1>1 DEF OpeningRecs
  <2> HIDE DEF me, serving, disabled
  <2>7. Upgraded(serving, columns)
    BY <2>3, <2>5 DEF Upgraded
  <2>8. ~({"path", "audit ip"} \subseteq columns) => Upgraded(disabled, columns)
    BY <2>3, <2>6 DEF Upgraded
  <2> QED BY <2>1, <2>5, <2>6, <2>7, <2>8, OneProcess
<1>9. CASE Stop(p)
  <2>1. Goes(p, Off) /\ columns' = columns
    BY <1>9 DEF Stop
  <2>2. Off \in OpeningRecs
    BY DEF Off, OpeningRecs
  <2>3. Upgraded(Off, columns)
    BY DEF Off, Upgraded
  <2> QED BY <2>1, <2>2, <2>3, OneProcess
<1> QED BY <1>2, <1>3, <1>4, <1>5, <1>6, <1>7, <1>8, <1>9

LEMMA SchemaInvInit == SchemaInit => SchemaInv
<1> SUFFICES ASSUME SchemaInit PROVE SchemaInv
  OBVIOUS
<1>1. Off \in OpeningRecs /\ \A p \in Processes : opening[p] = Off
  BY DEF SchemaInit, Off, OpeningRecs
<1>2. Upgraded(Off, columns)
  BY DEF Off, Upgraded
<1> QED BY <1>1, <1>2 DEF SchemaInit, SchemaInv

LEMMA SchemaInvHolds == SchemaSpec => []SchemaInv
<1>1. SchemaInv /\ [SchemaNext]_schemaVars => SchemaInv'
  <2> SUFFICES ASSUME SchemaInv, [SchemaNext]_schemaVars PROVE SchemaInv'
    OBVIOUS
  <2>1. CASE SchemaNext
    BY <2>1, ProcessSteps DEF SchemaNext
  <2>2. CASE UNCHANGED schemaVars
    BY <2>2 DEF schemaVars, SchemaInv, Upgraded
  <2> QED BY <2>1, <2>2
<1> QED BY <1>1, SchemaInvInit, PTL DEF SchemaSpec

(* Two processes that bring one file up to date do each other no harm: a    *)
(* process that was refused nothing but what the other one had done before  *)
(* it serves, and with every column; for any number of processes, that may  *)
(* stop anywhere, over whatever file (constructor and migrate() of          *)
(* UsageDb).                                                                *)
THEOREM RaceLosesNothingHolds == SchemaSpec => []RaceLosesNothing
BY SchemaInvHolds, SchemaInvImplies, PTL

=============================================================================
