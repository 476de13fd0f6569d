---------------------------- MODULE Gates_proofs ----------------------------
(***************************************************************************)
(* What stands between a request and its handler, for any requests, tokens, *)
(* limits, costs and times: the quota of a token, the window of a rate      *)
(* limit, and the gates in their order.  The three share no state.          *)
(***************************************************************************)
EXTENDS TokenQuota, RateLimit, Gates, SumTheorems, FiniteSetTheorems, TLAPS

----------------------------------------------------------------------------
(* The quota of a token: types, the snapshot of the row, admission, and the *)
(* overrun of concurrent requests.                                          *)

(* What is done to a row leaves it a row, and active rows active. *)
LEMMA RowShape ==
    ASSUME NEW r \in Rows
    PROVE  Older(r) \in Rows /\ Older(r).status = r.status
  <1>1. /\ r = [status |-> r.status, limit |-> r.limit, used |-> r.used,
                cycle |-> r.cycle, age |-> r.age, life |-> r.life]
        /\ r.age \in 0 .. Month /\ r.life \in Nat \cup {Never} /\ Month \in Nat
    BY QuotaAssumption DEF Rows
  <1>2. (IF r.age < Month THEN r.age + 1 ELSE r.age) \in 0 .. Month
    BY <1>1
  <1>3. (IF r.life > 0 THEN r.life - 1 ELSE r.life) \in Nat \cup {Never}
    BY <1>1 DEF Never
  <1> QED BY <1>2, <1>3 DEF Older, Rows

(* The absent row and the empty cache are of the right shape. *)
LEMMA NoRowShape == NoRow \in Rows /\ NoCache \in [row : Rows, left : 0 .. CacheTime]
  BY QuotaAssumption DEF NoRow, NoCache, Rows, Cycles

(* A settlement within the bound leaves a row, in a new window or the old. *)
LEMMA ChargedShape ==
    ASSUME row \in Rows, NEW cost \in Costs, Charged(cost).used <= MaxUsed
    PROVE  Charged(cost) \in Rows
  <1>1. /\ cost \in Nat /\ row.used \in 0 .. MaxUsed /\ MaxUsed \in Nat /\ 0 \in 0 .. Month
    BY QuotaAssumption DEF Rows
  <1>2. CASE Rolled(row)
    <2>1. Charged(cost) = [row EXCEPT !.used = cost, !.age = 0]
      BY <1>2 DEF Charged
    <2>2. Charged(cost).used = cost
      BY <2>1 DEF Rows
    <2>3. cost \in 0 .. MaxUsed
      BY <1>1, <2>2
    <2> QED BY <1>1, <2>1, <2>3 DEF Rows
  <1>3. CASE ~Rolled(row) /\ TakesNothing
    BY <1>3 DEF Charged
  <1>4. CASE ~Rolled(row) /\ ~TakesNothing
    <2>1. Charged(cost) = [row EXCEPT !.used = row.used + cost]
      BY <1>4 DEF Charged
    <2>2. Charged(cost).used = row.used + cost
      BY <2>1 DEF Rows
    <2>3. row.used + cost \in 0 .. MaxUsed
      BY <1>1, <2>2
    <2> QED BY <2>1, <2>3 DEF Rows
  <1> QED BY <1>2, <1>3, <1>4

(* What a request leaves in the cache is an entry. *)
LEMMA FilledShape ==
    ASSUME TypeOK
    PROVE  Filled \in [row : Rows, left : 0 .. CacheTime]
  BY QuotaAssumption DEF TypeOK, Filled

(* TypeOK: all variables keep their types; in particular nothing the        *)
(* operator enters or a request costs makes a row that is not one.          *)
THEOREM QuotaTypeCorrect == Spec => []TypeOK
  <1>1. Init => TypeOK
    BY NoRowShape DEF Init, TypeOK
  <1>2. TypeOK /\ [Next]_vars => TypeOK'
    <2> SUFFICES ASSUME TypeOK, [Next]_vars PROVE TypeOK'
      OBVIOUS
    <2>1. CASE Authenticate
      BY <2>1, FilledShape DEF Authenticate, TypeOK
    <2>2. ASSUME NEW c \in Calls, Admit(c) PROVE TypeOK'
      BY <2>2, FilledShape DEF Admit, TypeOK
    <2>3. ASSUME NEW c \in Calls, Forward(c) \/ EndUnforwarded(c) \/ SettleFails(c)
          PROVE TypeOK'
      BY <2>3 DEF Forward, EndUnforwarded, SettleFails, TypeOK
    <2>4. ASSUME NEW c \in Calls, NEW cost \in Costs, Settle(c, cost) PROVE TypeOK'
      BY <2>4, ChargedShape, NoRowShape DEF Settle, TypeOK
    <2>5. CASE Edit
      <3>1. PICK limit \in Limits, cycle \in Cycles, life \in Lifetimes \cup {row.life} :
                \/ Create(limit, cycle, life)
                \/ \E status \in {"active", "disabled"} : Update(status, limit, cycle, life)
        BY <2>5 DEF Edit, CreateToken, PatchToken, QuotaInputs
      <3>2. /\ limit \in Nat /\ life \in Nat \cup {Never} /\ row \in Rows
            /\ 0 \in 0 .. MaxUsed /\ 0 \in 0 .. Month
        BY <3>1, QuotaAssumption DEF TypeOK, Rows
      <3>3. CASE Create(limit, cycle, life)
        <4>1. NewRow(limit, cycle, life) \in Rows
          BY <3>2 DEF NewRow, Rows
        <4> QED BY <3>3, <4>1 DEF Create, TypeOK
      <3>4. ASSUME NEW status \in {"active", "disabled"}, Update(status, limit, cycle, life)
            PROVE TypeOK'
        <4>1. Patched(status, limit, cycle, life) \in Rows
          BY <3>2 DEF Patched, Rows
        <4> QED BY <3>4, <4>1, NoRowShape DEF Update, TypeOK
      <3> QED BY <3>1, <3>3, <3>4
    <2>6. CASE Delete
      BY <2>6, NoRowShape DEF Delete, TypeOK
    <2>7. CASE Restart
      BY <2>7, NoRowShape DEF Restart, TypeOK
    <2>8. CASE Tick
      <3>1. cache.row \in Rows /\ cache.left \in 0 .. CacheTime /\ row \in Rows
        BY DEF TypeOK
      <3>2. Older(row) \in Rows /\ Older(cache.row) \in Rows
        BY <3>1, RowShape
      <3>3. cache' \in [row : Rows, left : 0 .. CacheTime]
        BY <2>8, <3>1, <3>2, NoRowShape, QuotaAssumption DEF Tick
      <3> QED BY <2>8, <3>2, <3>3 DEF Tick, TypeOK
    <2>9. CASE UNCHANGED vars
      BY <2>9 DEF vars, TypeOK
    <2> QED BY <2>1, <2>2, <2>3, <2>4, <2>5, <2>6, <2>7, <2>8, <2>9 DEF Next
  <1> QED BY <1>1, <1>2, PTL DEF Spec

(* CacheCoherent is inductive by itself: whatever changes the row drops the *)
(* snapshot in the same step, and only an active row is kept.               *)
THEOREM CacheCoherentHolds == Spec => []CacheCoherent
  <1>1. Init => CacheCoherent
    BY DEF Init, NoCache, CacheCoherent
  <1>2. TypeOK /\ CacheCoherent /\ [Next]_vars => CacheCoherent'
    <2> SUFFICES ASSUME TypeOK, CacheCoherent, [Next]_vars PROVE CacheCoherent'
      OBVIOUS
    <2>0. cache.left \in Nat /\ row \in Rows /\ cache.row \in Rows
      BY QuotaAssumption DEF TypeOK
    <2>1. CASE Authenticate
      BY <2>1 DEF Authenticate, Verified, Filled, CacheCoherent
    <2>2. ASSUME NEW c \in Calls, Admit(c) PROVE CacheCoherent'
      BY <2>2 DEF Admit, Verified, Filled, CacheCoherent
    <2>3. ASSUME NEW c \in Calls, Forward(c) \/ EndUnforwarded(c) \/ SettleFails(c)
          PROVE CacheCoherent'
      BY <2>3 DEF Forward, EndUnforwarded, SettleFails, CacheCoherent
    <2>4. ASSUME NEW c \in Calls, NEW cost \in Costs, Settle(c, cost) PROVE CacheCoherent'
      BY <2>4 DEF Settle, NoCache, CacheCoherent
    <2>5. CASE Edit
      BY <2>5 DEF Edit, CreateToken, PatchToken, Create, Update, NoCache, CacheCoherent
    <2>6. CASE Delete \/ Restart
      BY <2>6 DEF Delete, Restart, NoCache, CacheCoherent
    <2>7. CASE Tick
      BY <2>0, <2>7, RowShape DEF Tick, NoCache, CacheCoherent
    <2>8. CASE UNCHANGED vars
      BY <2>8 DEF vars, CacheCoherent
    <2> QED BY <2>1, <2>2, <2>3, <2>4, <2>5, <2>6, <2>7, <2>8 DEF Next
  <1> QED BY <1>1, <1>2, QuotaTypeCorrect, PTL DEF Spec

(* What the snapshot says is what the row says. *)
LEMMA SeenIsRow ==
    ASSUME CacheCoherent
    PROVE  Seen = row /\ (Verified => row.status = "active")
  BY DEF CacheCoherent, Seen, Verified

(* AdmitsOnlyEntitled: the only step by which a request becomes busy tests  *)
(* the snapshot, and the snapshot is the row.                               *)
THEOREM AdmitsOnlyEntitledHolds == Spec => AdmitsOnlyEntitled
  <1> DEFINE Entitled == row.status = "active" /\ ~Expired(row) /\ ~Exhausted(row)
  <1>1. ASSUME TypeOK, CacheCoherent, [Next]_vars,
               NEW c \in Calls, phase[c] = "idle", phase'[c] # "idle"
        PROVE  Entitled
    <2>0. phase \in [Calls -> {"idle", "admitted", "forwarded"}]
      BY <1>1 DEF TypeOK
    <2>1. CASE Authenticate \/ Edit \/ Delete \/ Tick
      BY <1>1, <2>1 DEF Authenticate, Edit, CreateToken, PatchToken, Create, Update, Delete, Tick
    <2>2. ASSUME NEW d \in Calls, Admit(d) PROVE Entitled
      BY <1>1, <2>2, SeenIsRow DEF Admit
    <2>3. ASSUME NEW d \in Calls, Forward(d) \/ EndUnforwarded(d) \/ SettleFails(d)
          PROVE Entitled
      BY <1>1, <2>0, <2>3 DEF Forward, EndUnforwarded, SettleFails
    <2>4. ASSUME NEW d \in Calls, NEW cost \in Costs, Settle(d, cost) PROVE Entitled
      BY <1>1, <2>0, <2>4 DEF Settle
    <2>5. CASE Restart
      BY <1>1, <2>5 DEF Restart
    <2>6. CASE UNCHANGED vars
      BY <1>1, <2>6 DEF vars
    <2> QED BY <1>1, <2>1, <2>2, <2>3, <2>4, <2>5, <2>6 DEF Next
  <1>2. TypeOK /\ CacheCoherent /\ [Next]_vars
          => \A c \in Calls : phase[c] = "idle" /\ phase'[c] # "idle" => Entitled
    BY <1>1
  <1> QED BY <1>2, QuotaTypeCorrect, CacheCoherentHolds, PTL DEF Spec, AdmitsOnlyEntitled

(* Sets of requests can be counted, and have at most as many as there are.  *)
LEMMA CallsCount ==
    ASSUME NEW S \in SUBSET Calls
    PROVE  /\ Cardinality(Calls) \in Nat /\ Cardinality(S) \in Nat
           /\ Cardinality(S) <= Cardinality(Calls)
  BY QuotaAssumption, FS_Subset, FS_CardinalityType

(* A request that ends is one less. *)
LEMMA BusyEnds ==
    ASSUME TypeOK, NEW c \in Calls, phase[c] # "idle",
           phase' = [phase EXCEPT ![c] = "idle"]
    PROVE  Cardinality(Busy)' = Cardinality(Busy) - 1
  <1>1. Busy' = Busy \ {c} /\ c \in Busy
    BY DEF Busy, TypeOK
  <1>2. IsFiniteSet(Busy)
    BY QuotaAssumption, FS_Subset DEF Busy
  <1>3. Cardinality(Busy \ {c}) = Cardinality(Busy) - 1
    BY <1>1, <1>2, FS_RemoveElement
  <1> QED BY <1>1, <1>3

(* A row that takes nothing more admits nobody. *)
LEMMA TakesNothingIsExhausted == TakesNothing => Exhausted(row)
  BY DEF TakesNothing, Exhausted, UsedNow

(* Time lets a window roll, and never does the reverse. *)
LEMMA TickRolls ==
    ASSUME TypeOK, Tick
    PROVE  TakesNothing' => TakesNothing
  <1>1. row \in Rows /\ Month \in Nat /\ Day \in Nat
    BY QuotaAssumption DEF TypeOK
  <1>2. /\ row'.limit = row.limit /\ row'.used = row.used /\ row'.cycle = row.cycle
        /\ row'.age = IF row.age < Month THEN row.age + 1 ELSE row.age
    BY <1>1 DEF Tick, Older, Rows
  <1>3. row.age \in Nat
    BY <1>1 DEF Rows
  <1>4. Rolled(row) => Rolled(row)'
    BY <1>1, <1>2, <1>3 DEF Rolled, Period
  <1> QED BY <1>2, <1>4 DEF TakesNothing

(* FreeRidesBounded: once the row takes nothing more, every request that is *)
(* settled unrecorded is one less under way, and no other is admitted.  A   *)
(* settlement that is recorded, or an edit, starts the count afresh.        *)
THEOREM FreeRidesBoundedHolds == Spec => []FreeRidesBounded
  <1> DEFINE Shrinking == TakesNothing => skipped + Cardinality(Busy) <= Cardinality(Calls)
             Inv == FreeRidesBounded /\ Shrinking
  <1>1. Init => Inv
    BY CallsCount DEF Init, NoRow, TakesNothing, FreeRidesBounded
  <1>2. TypeOK /\ CacheCoherent /\ Inv /\ [Next]_vars => Inv'
    <2> SUFFICES ASSUME TypeOK, CacheCoherent, Inv, [Next]_vars PROVE Inv'
      OBVIOUS
    <2>0. /\ skipped \in Nat /\ Cardinality(Calls) \in Nat
          /\ Cardinality(Busy) \in Nat /\ Cardinality(Busy)' \in Nat
          /\ Cardinality(Busy)' <= Cardinality(Calls)
      <3>1. Busy \in SUBSET Calls /\ Busy' \in SUBSET Calls
        BY DEF Busy
      <3> QED BY <3>1, CallsCount DEF TypeOK
    <2>1. CASE Authenticate
      BY <2>1 DEF Authenticate, TakesNothing, Rolled, Busy, FreeRidesBounded
    <2>2. ASSUME NEW c \in Calls, Admit(c) PROVE Inv'
      <3>1. ~TakesNothing
        BY <2>2, SeenIsRow, TakesNothingIsExhausted DEF Admit
      <3>2. ~TakesNothing'
        BY <2>2, <3>1 DEF Admit, TakesNothing, Rolled
      <3> QED BY <2>2, <3>2 DEF Admit, FreeRidesBounded
    <2>3. ASSUME NEW c \in Calls, Forward(c) PROVE Inv'
      <3>1. Busy' = Busy
        BY <2>3 DEF Forward, Busy, TypeOK
      <3> QED BY <2>3, <3>1 DEF Forward, TakesNothing, Rolled, FreeRidesBounded
    <2>4. ASSUME NEW c \in Calls, EndUnforwarded(c) \/ SettleFails(c) PROVE Inv'
      <3>1. Cardinality(Busy)' = Cardinality(Busy) - 1
        BY <2>4, BusyEnds DEF EndUnforwarded, SettleFails
      <3>2. UNCHANGED <<row, skipped>>
        BY <2>4 DEF EndUnforwarded, SettleFails
      <3> QED BY <2>0, <3>1, <3>2 DEF TakesNothing, Rolled, FreeRidesBounded
    <2>5. ASSUME NEW c \in Calls, NEW cost \in Costs, Settle(c, cost) PROVE Inv'
      <3>1. Cardinality(Busy)' = Cardinality(Busy) - 1
        BY <2>5, BusyEnds DEF Settle
      <3>2. CASE row.status = "absent"
        BY <2>0, <2>5, <3>1, <3>2 DEF Settle, TakesNothing, Rolled, FreeRidesBounded
      <3>3. CASE row.status # "absent" /\ TakesNothing
        <4>1. skipped' = skipped + 1
          BY <2>5, <3>3 DEF Settle
        <4> QED BY <2>0, <3>1, <3>3, <4>1 DEF FreeRidesBounded
      <3>4. CASE row.status # "absent" /\ ~TakesNothing
        <4>1. skipped' = 0
          BY <2>5, <3>4 DEF Settle
        <4> QED BY <2>0, <4>1 DEF FreeRidesBounded
      <3> QED BY <3>2, <3>3, <3>4
    <2>6. CASE Edit \/ Delete
      <3>1. skipped' = 0
        BY <2>6 DEF Edit, CreateToken, PatchToken, Create, Update, Delete
      <3> QED BY <2>0, <3>1 DEF FreeRidesBounded
    <2>7. CASE Restart
      <3>1. Busy' = {}
        BY <2>7 DEF Restart, Busy
      <3>2. Cardinality(Busy)' = 0
        BY <3>1, FS_EmptySet
      <3> QED BY <2>0, <2>7, <3>2 DEF Restart, FreeRidesBounded
    <2>8. CASE Tick
      <3>1. TakesNothing' => TakesNothing
        BY <2>8, TickRolls
      <3> QED BY <2>8, <3>1 DEF Tick, Busy, FreeRidesBounded
    <2>9. CASE UNCHANGED vars
      BY <2>9 DEF vars, TakesNothing, Rolled, Busy, FreeRidesBounded
    <2> QED BY <2>1, <2>2, <2>3, <2>4, <2>5, <2>6, <2>7, <2>8, <2>9 DEF Next
  <1> QED BY <1>1, <1>2, QuotaTypeCorrect, CacheCoherentHolds, PTL DEF Spec

----------------------------------------------------------------------------
(* The gates: types, and that no request is let in once the limit of tokens *)
(* per minute is reached.                                                   *)

Slot == [who : Everyone, checked : BOOLEAN]

(* The minute of a token in TpmLimiter is the natural minute, and what it   *)
(* has counted is what was used; a token without one has used nothing.      *)
MinuteKept ==
    \A u \in Users :
        /\ tpm[u].left > 0 => tpm[u].left = Minute - second /\ tpm[u].used = spent[u]
        /\ tpm[u].left = 0 => spent[u] = 0

GatesInv == GatesTypeOK /\ MinuteKept

----------------------------------------------------------------------------

LEMMA ArriveKeepsTypes ==
    ASSUME GatesTypeOK, NEW u \in Everyone, NEW checked \in BOOLEAN, Arrive(u, checked)
    PROVE  GatesTypeOK'
<1>1. own' \in [Users -> [Ages -> Nat]]
  <2>1. OwnCounted(u)
    BY DEF Arrive, RpmRefuses
  <2>2. CASE HasRpm(u)
    <3>1. u \in Users /\ 0 \in Ages
      BY <2>2, GatesAssumption DEF HasRpm, Ages, GatesAssumption
    <3>2. own' = [own EXCEPT ![u] = [own[u] EXCEPT ![0] = own[u][0] + 1]]
      BY <2>1, <2>2 DEF OwnCounted
    <3>3. [own[u] EXCEPT ![0] = own[u][0] + 1] \in [Ages -> Nat]
      BY <3>1 DEF GatesTypeOK
    <3> QED BY <3>1, <3>2, <3>3 DEF GatesTypeOK
  <2>3. CASE ~HasRpm(u)
    BY <2>1, <2>3 DEF OwnCounted, GatesTypeOK
  <2> QED BY <2>2, <2>3
<1>2. shared' \in [Ages -> [Everyone -> Nat]]
  <2>1. CASE SharedCounted(u)
    <3>1. 0 \in Ages
      BY GatesAssumption DEF Ages, GatesAssumption
    <3>2. shared' = [shared EXCEPT ![0] = [shared[0] EXCEPT ![u] = shared[0][u] + 1]]
      BY <2>1 DEF SharedCounted
    <3>3. [shared[0] EXCEPT ![u] = shared[0][u] + 1] \in [Everyone -> Nat]
      BY <3>1 DEF GatesTypeOK
    <3> QED BY <3>1, <3>2, <3>3 DEF GatesTypeOK
  <2>2. CASE UNCHANGED shared
    BY <2>2 DEF GatesTypeOK
  <2> QED BY <2>1, <2>2 DEF Arrive, RpmRefuses
<1>3. inside' \in [Requests -> {Outside} \cup Slot]
  <2>1. CASE UNCHANGED inside
    BY <2>1 DEF GatesTypeOK, Slot
  <2>2. CASE \E r \in Requests :
                inside' = [inside EXCEPT ![r] = [who |-> u, checked |-> checked]]
    <3>1. [who |-> u, checked |-> checked] \in Slot
      BY DEF Slot
    <3> QED BY <2>2, <3>1 DEF GatesTypeOK, Slot
  <2> QED BY <2>1, <2>2 DEF Arrive, RpmRefuses
<1>4. UNCHANGED <<second, tpm, spent>>
  BY DEF Arrive
<1> QED BY <1>1, <1>2, <1>3, <1>4 DEF GatesTypeOK, Slot

LEMMA LeaveKeepsInv ==
    ASSUME GatesInv, NEW r \in Requests, NEW n \in Uses, Leave(r, n)
    PROVE  GatesInv'
<1>1. inside' \in [Requests -> {Outside} \cup Slot]
  BY DEF GatesInv, GatesTypeOK, Slot, Leave
<1>2. UNCHANGED <<second, own, shared>>
  BY DEF Leave
<1>3. CASE inside[r].who = ApiKey
  <2>1. UNCHANGED <<tpm, spent>>
    BY <1>3 DEF Leave
  <2> QED BY <1>1, <1>2, <2>1 DEF GatesInv, GatesTypeOK, MinuteKept, Slot
<1>4. CASE inside[r].who # ApiKey
  <2> DEFINE u == inside[r].who
  <2>1. u \in Users
    BY <1>4 DEF Leave, GatesInv, GatesTypeOK, Everyone
  <2>2. n \in Nat /\ second \in Nat /\ second < Minute /\ Minute \in Nat
    BY GatesAssumption DEF GatesAssumption, GatesInv, GatesTypeOK, Ages
  <2>3. tpm' = Added(u, n) /\ spent' = [spent EXCEPT ![u] = @ + n]
    BY <1>4 DEF Leave
  <2>4. tpm[u] \in [left : Nat, used : Nat] /\ spent[u] \in Nat
    BY <2>1 DEF GatesInv, GatesTypeOK
  <2>5. spent' \in [Users -> Nat] /\ spent'[u] = spent[u] + n
    BY <2>1, <2>2, <2>3, <2>4 DEF GatesInv, GatesTypeOK
  <2>6. /\ tpm'[u] \in [left : Nat, used : Nat]
        /\ tpm'[u].left > 0 => tpm'[u].left = Minute - second /\ tpm'[u].used = spent'[u]
        /\ tpm'[u].left = 0 => spent'[u] = 0
    <3>1. CASE n = 0
      BY <2>1, <2>2, <2>3, <2>4, <2>5, <3>1 DEF Added, GatesInv, MinuteKept, GatesTypeOK
    <3>2. CASE n # 0 /\ tpm[u].left = 0
      <4>1. tpm'[u] = [left |-> Minute - second, used |-> n]
        BY <2>1, <2>3, <3>2 DEF Added, GatesInv, GatesTypeOK
      <4>2. spent[u] = 0
        BY <2>1, <3>2 DEF GatesInv, MinuteKept
      <4> QED BY <2>2, <2>5, <4>1, <4>2
    <3>3. CASE n # 0 /\ tpm[u].left # 0
      <4>1. tpm'[u] = [left |-> tpm[u].left, used |-> tpm[u].used + n]
        BY <2>1, <2>3, <3>3 DEF Added, GatesInv, GatesTypeOK
      <4>2. tpm[u].left = Minute - second /\ tpm[u].used = spent[u]
        BY <2>1, <2>4, <3>3 DEF GatesInv, MinuteKept
      <4> QED BY <2>2, <2>4, <2>5, <3>3, <4>1, <4>2
    <3> QED BY <3>1, <3>2, <3>3
  <2>7. \A v \in Users \ {u} : tpm'[v] = tpm[v] /\ spent'[v] = spent[v]
    BY <2>1, <2>3 DEF Added, GatesInv, GatesTypeOK
  <2>8. tpm' \in [Users -> [left : Nat, used : Nat]]
    <3>1. DOMAIN tpm' = Users /\ tpm' = [v \in Users |-> tpm'[v]]
      BY <2>3 DEF Added, GatesInv, GatesTypeOK
    <3> QED BY <2>6, <2>7, <3>1 DEF GatesInv, GatesTypeOK
  <2>9. MinuteKept'
    BY <1>2, <2>6, <2>7 DEF GatesInv, MinuteKept
  <2> QED BY <1>1, <1>2, <2>5, <2>8, <2>9 DEF GatesInv, GatesTypeOK, Slot
<1> QED BY <1>3, <1>4

LEMMA SecondPassesKeepsInv ==
    ASSUME GatesInv, SecondPasses
    PROVE  GatesInv'
<1>1. Minute \in Nat /\ Minute > 0 /\ second \in Nat /\ second < Minute
  BY GatesAssumption DEF GatesAssumption, GatesInv, GatesTypeOK, Ages
<1>2. \/ second + 1 < Minute /\ second' = second + 1
      \/ second + 1 = Minute /\ second' = 0
  BY <1>1 DEF SecondPasses
<1>3. second' \in Ages
  BY <1>1, <1>2 DEF Ages
<1>4. own' \in [Users -> [Ages -> Nat]]
  <2>1. ASSUME NEW u \in Users PROVE Shifted(own[u], 0) \in [Ages -> Nat]
    BY <1>1 DEF Shifted, GatesInv, GatesTypeOK, Ages
  <2> QED BY <2>1 DEF SecondPasses
<1>5. shared' \in [Ages -> [Everyone -> Nat]]
  <2>1. Nobody \in [Everyone -> Nat]
    BY DEF Nobody
  <2>2. \A i \in Ages : i # 0 => i - 1 \in Ages
    BY <1>1 DEF Ages
  <2> QED BY <2>1, <2>2 DEF SecondPasses, Shifted, GatesInv, GatesTypeOK
<1>6. ASSUME NEW u \in Users
      PROVE  /\ tpm'[u] \in [left : Nat, used : Nat] /\ spent'[u] \in Nat
             /\ tpm'[u].left > 0 => tpm'[u].left = Minute - second' /\ tpm'[u].used = spent'[u]
             /\ tpm'[u].left = 0 => spent'[u] = 0
  <2>1. tpm[u] \in [left : Nat, used : Nat] /\ spent[u] \in Nat
    BY DEF GatesInv, GatesTypeOK
  <2>2. /\ tpm[u].left > 0 => tpm[u].left = Minute - second /\ tpm[u].used = spent[u]
        /\ tpm[u].left = 0 => spent[u] = 0
    BY DEF GatesInv, MinuteKept
  <2>3. tpm'[u] = Shorter(tpm[u])
    BY DEF SecondPasses
  <2>4. spent'[u] = IF second' = 0 THEN 0 ELSE spent[u]
    BY DEF SecondPasses
  <2>5. CASE tpm[u].left <= 1
    BY <1>1, <1>2, <2>1, <2>2, <2>3, <2>4, <2>5 DEF Shorter, NoMinute
  <2>6. CASE tpm[u].left > 1
    <3>1. tpm'[u] = [tpm[u] EXCEPT !.left = @ - 1]
      BY <2>1, <2>3, <2>6 DEF Shorter
    <3>2. tpm'[u].left = tpm[u].left - 1 /\ tpm'[u].used = tpm[u].used
      BY <2>1, <3>1
    <3>3. second' = second + 1 /\ second' # 0
      BY <1>1, <1>2, <2>1, <2>2, <2>6
    <3>4. tpm'[u] \in [left : Nat, used : Nat]
      BY <2>1, <2>6, <3>1
    <3> QED BY <1>1, <2>1, <2>2, <2>4, <2>6, <3>2, <3>3, <3>4
  <2> QED BY <2>1, <2>5, <2>6
<1>7. tpm' \in [Users -> [left : Nat, used : Nat]]
  <2>1. tpm' = [u \in Users |-> Shorter(tpm[u])]
    BY DEF SecondPasses
  <2> QED BY <1>6, <2>1
<1>8. spent' \in [Users -> Nat]
  BY DEF SecondPasses, GatesInv, GatesTypeOK
<1>9. inside' = inside
  BY DEF SecondPasses
<1> QED BY <1>3, <1>4, <1>5, <1>6, <1>7, <1>8, <1>9 DEF GatesInv, GatesTypeOK, MinuteKept

----------------------------------------------------------------------------

(* The invariant holds in every state. *)
LEMMA GatesInvHolds == GatesSpec => []GatesInv
<1>1. GatesInit => GatesInv
  <2> SUFFICES ASSUME GatesInit PROVE GatesInv
    OBVIOUS
  <2>1. 0 \in Ages
    BY GatesAssumption DEF GatesAssumption, Ages
  <2>2. GatesTypeOK
    BY <2>1 DEF GatesInit, GatesTypeOK, Nobody, NoMinute
  <2>3. MinuteKept
    BY DEF GatesInit, MinuteKept, NoMinute
  <2> QED BY <2>2, <2>3 DEF GatesInv
<1>2. GatesInv /\ [GatesNext]_gateVars => GatesInv'
  <2> SUFFICES ASSUME GatesInv, [GatesNext]_gateVars PROVE GatesInv'
    OBVIOUS
  <2>1. ASSUME NEW u \in Everyone, NEW checked \in BOOLEAN, Arrive(u, checked)
        PROVE  GatesInv'
    <3>1. GatesTypeOK'
      BY <2>1, ArriveKeepsTypes DEF GatesInv
    <3>2. UNCHANGED <<second, tpm, spent>>
      BY <2>1 DEF Arrive
    <3> QED BY <3>1, <3>2 DEF GatesInv, MinuteKept
  <2>2. ASSUME NEW r \in Requests, NEW n \in Uses, Leave(r, n)
        PROVE  GatesInv'
    BY <2>2, LeaveKeepsInv
  <2>3. CASE SecondPasses
    BY <2>3, SecondPassesKeepsInv
  <2>4. CASE UNCHANGED gateVars
    BY <2>4 DEF gateVars, GatesInv, GatesTypeOK, MinuteKept
  <2> QED BY <2>1, <2>2, <2>3, <2>4 DEF GatesNext
<1> QED BY <1>1, <1>2, PTL DEF GatesSpec

(* GatesTypeCorrect: the windows and minutes of every token stay what they are,  *)
(* for any set of tokens, any limits, and any length of a minute.           *)
THEOREM GatesTypeCorrect == GatesSpec => []GatesTypeOK
<1>1. GatesInv => GatesTypeOK
  BY DEF GatesInv
<1> QED BY <1>1, GatesInvHolds, PTL

(* AdmitsBelowTpmHolds: a request whose limit of tokens was checked is let   *)
(* in only below it, whatever the number of tokens and requests: the minute *)
(* of TpmLimiter is always the natural one, and none of it is left out.      *)
THEOREM AdmitsBelowTpmHolds == GatesSpec => AdmitsBelowTpm
<1> DEFINE Below ==
        \A r \in Requests : inside[r] = Outside /\ inside'[r] # Outside /\ inside'[r].checked =>
            inside'[r].who = ApiKey \/ spent[inside'[r].who] < TpmLimit
<1>1. GatesInv /\ [GatesNext]_gateVars => [Below]_gateVars
  <2> SUFFICES ASSUME GatesInv, GatesNext,
                      NEW r \in Requests, inside[r] = Outside, inside'[r] # Outside,
                      inside'[r].checked
               PROVE  inside'[r].who = ApiKey \/ spent[inside'[r].who] < TpmLimit
    OBVIOUS
  <2>1. ASSUME NEW u \in Everyone, NEW checked \in BOOLEAN, Arrive(u, checked)
        PROVE  inside'[r].who = ApiKey \/ spent[inside'[r].who] < TpmLimit
    <3>1. inside'[r] = [who |-> u, checked |-> checked]
      BY <2>1 DEF Arrive, RpmRefuses, GatesInv, GatesTypeOK
    <3>2. inside'[r].who = u /\ inside'[r].checked = checked
      BY <3>1
    <3>3. CASE u = ApiKey
      BY <3>2, <3>3
    <3>4. CASE u # ApiKey
      <4>1. u \in Users
        BY <3>4 DEF Everyone
      <4>2. ~(UsedTokens(u) >= TpmLimit)
        BY <2>1, <3>2, <4>1 DEF Arrive, OverTpm
      <4>3. UsedTokens(u) = spent[u]
        BY <4>1 DEF UsedTokens, GatesInv, GatesTypeOK, MinuteKept
      <4>4. spent[u] \in Nat /\ TpmLimit \in Nat
        BY <4>1, GatesAssumption DEF GatesAssumption, GatesInv, GatesTypeOK
      <4> QED BY <3>2, <4>2, <4>3, <4>4
    <3> QED BY <3>3, <3>4
  <2>2. ASSUME NEW q \in Requests, NEW n \in Uses, Leave(q, n)
        PROVE  FALSE
    BY <2>2 DEF Leave, GatesInv, GatesTypeOK
  <2>3. CASE SecondPasses
    BY <2>3 DEF SecondPasses
  <2> QED BY <2>1, <2>2, <2>3 DEF GatesNext
<1> QED BY <1>1, GatesInvHolds, PTL DEF GatesSpec, AdmitsBelowTpm

----------------------------------------------------------------------------
(* The limit of a token shields the limit of all *)

(* What the window of all has counted of a token, the token's own window    *)
(* has counted too, second by second; and not beyond the token's limit.     *)
Shielded(u) ==
    /\ \A i \in Ages : shared[i][u] <= own[u][i]
    /\ Sent(u) <= RpmOf[u]

ShieldedInv == \A u \in Users : HasRpm(u) => Shielded(u)

SentBy(u) == [i \in Ages |-> shared[i][u]]

LEMMA AgesShape == IsFiniteSet(Ages) /\ 0 \in Ages /\ \A i \in Ages : i # 0 => i - 1 \in Ages
<1>1. Minute \in Nat /\ Minute # 0
  BY GatesAssumption DEF GatesAssumption
<1>2. IsFiniteSet(0 .. Minute - 1)
  BY <1>1, FS_Interval
<1> QED BY <1>1, <1>2 DEF Ages

(* The two windows as sums. *)
LEMMA WindowSums ==
    ASSUME GatesTypeOK, NEW u \in Users
    PROVE  /\ Checks(own[u]) = SumFunctionOnSet(own[u], Ages) /\ Checks(own[u]) \in Nat
           /\ Sent(u) = SumFunctionOnSet(SentBy(u), Ages) /\ Sent(u) \in Nat
           /\ \A i \in Ages : own[u][i] \in Nat /\ shared[i][u] \in Nat
<1>1. own[u] \in [Ages -> Nat] /\ \A i \in Ages : shared[i][u] \in Nat
  BY DEF GatesTypeOK, Everyone
<1>2. SentBy(u) \in [Ages -> Nat]
  BY <1>1 DEF SentBy
<1>3. /\ SumFunctionOnSet(own[u], Ages) \in Nat
      /\ SumFunctionOnSet(SentBy(u), Ages) \in Nat
  BY <1>1, <1>2, AgesShape, SumRemove
<1>4. DOMAIN own[u] = Ages /\ DOMAIN SentBy(u) = Ages
  BY <1>1 DEF SentBy
<1> QED BY <1>1, <1>3, <1>4 DEF Checks, Sent, SentBy, SumFunction

LEMMA ArriveShields ==
    ASSUME GatesTypeOK, GatesTypeOK', ShieldedInv,
           NEW w \in Everyone, NEW checked \in BOOLEAN, Arrive(w, checked)
    PROVE  ShieldedInv'
<1> SUFFICES ASSUME NEW u \in Users, HasRpm(u) PROVE Shielded(u)'
  BY DEF ShieldedInv, HasRpm
<1>1. \A i \in Ages : own[u][i] \in Nat /\ shared[i][u] \in Nat /\ shared[i][u] <= own[u][i]
  BY WindowSums DEF ShieldedInv, Shielded
<1>2. Sent(u) \in Nat /\ Sent(u) <= RpmOf[u]
  BY WindowSums DEF ShieldedInv, Shielded
<1>3. Sent(u)' = SumFunctionOnSet(SentBy(u)', Ages)
  <2>1. DOMAIN SentBy(u)' = Ages
    BY DEF SentBy
  <2> QED BY <2>1 DEF Sent, SentBy, SumFunction
<1>4. CASE u # w
  <2>1. \A i \in Ages : shared'[i][u] = shared[i][u]
    BY <1>4, AgesShape DEF Arrive, RpmRefuses, SharedCounted, GatesTypeOK, Everyone
  <2>2. own'[u] = own[u]
    BY <1>4 DEF Arrive, RpmRefuses, OwnCounted, GatesTypeOK, HasRpm
  <2>3. SentBy(u)' = SentBy(u)
    BY <2>1 DEF SentBy
  <2> QED BY <1>1, <1>2, <1>3, <2>1, <2>2, <2>3, WindowSums DEF Shielded
<1>5. CASE u = w
  <2>1. /\ own'[u][0] = own[u][0] + 1
        /\ \A i \in Ages \ {0} : own'[u][i] = own[u][i]
    <3>1. own' = [own EXCEPT ![u] = [own[u] EXCEPT ![0] = own[u][0] + 1]]
      BY <1>5 DEF Arrive, RpmRefuses, OwnCounted
    <3> QED BY <3>1, AgesShape DEF GatesTypeOK
  <2>2. CASE shared' = shared
    <3>1. SentBy(u)' = SentBy(u)
      BY <2>2 DEF SentBy
    <3>2. \A i \in Ages : shared'[i][u] <= own'[u][i]
      BY <1>1, <2>1, <2>2, AgesShape
    <3> QED BY <1>2, <1>3, <3>1, <3>2, WindowSums DEF Shielded
  <2>3. CASE shared' # shared
    <3>1. SharedCounted(u) /\ ~OwnFull(u)
      BY <1>5, <2>3 DEF Arrive, RpmRefuses
    <3>2. /\ shared'[0][u] = shared[0][u] + 1
          /\ \A i \in Ages \ {0} : shared'[i][u] = shared[i][u]
      <4>1. shared' = [shared EXCEPT ![0] = [shared[0] EXCEPT ![u] = shared[0][u] + 1]]
        BY <3>1 DEF SharedCounted
      <4> QED BY <4>1, AgesShape DEF GatesTypeOK, Everyone
    <3>3. \A i \in Ages : shared'[i][u] <= own'[u][i]
      BY <1>1, <2>1, <3>2, AgesShape
    <3>4. Checks(own[u]) < RpmOf[u]
      <4>1. RpmOf[u] \in Nat /\ Checks(own[u]) \in Nat
        BY WindowSums, GatesAssumption DEF GatesAssumption
      <4> QED BY <3>1, <4>1 DEF OwnFull
    <3>5. Sent(u) <= Checks(own[u])
      <4>1. SumFunctionOnSet(SentBy(u), Ages) <= SumFunctionOnSet(own[u], Ages)
        BY <1>1, AgesShape, SumAtMost DEF SentBy
      <4> QED BY <4>1, WindowSums
    <3>6. Sent(u)' = Sent(u) + 1
      <4> DEFINE f == SentBy(u)
                 g == SentBy(u)'
      <4>1. /\ f[0] \in Nat /\ g[0] = f[0] + 1
            /\ \A i \in Ages \ {0} : f[i] \in Nat /\ g[i] = f[i]
        BY <1>1, <3>2, AgesShape DEF SentBy
      <4>2. Sent(u) = SumFunctionOnSet(f, Ages)
        BY WindowSums
      <4>3. Sent(u)' = SumFunctionOnSet(g, Ages)
        BY <1>3
      <4> HIDE DEF f, g
      <4>4. SumFunctionOnSet(g, Ages) + f[0] = SumFunctionOnSet(f, Ages) + g[0]
        <5>1. g[0] \in Nat /\ 0 \in Ages
          BY <4>1, AgesShape
        <5> QED BY <4>1, <5>1, AgesShape, SumChanged
      <4>5. SumFunctionOnSet(g, Ages) \in Nat
        <5>1. \A i \in Ages : g[i] \in Nat
          BY <4>1
        <5> QED BY <5>1, AgesShape, SumRemove
      <4> QED BY <1>2, <4>1, <4>2, <4>3, <4>4, <4>5
    <3>7. Checks(own[u]) \in Nat /\ RpmOf[u] \in Nat
      BY WindowSums, GatesAssumption DEF GatesAssumption
    <3>8. Sent(u)' <= RpmOf[u]
      BY <1>2, <3>4, <3>5, <3>6, <3>7
    <3> QED BY <3>3, <3>8 DEF Shielded
  <2> QED BY <2>2, <2>3
<1> QED BY <1>4, <1>5

(* When the seconds move on, a window loses its oldest one. *)
LEMMA ShiftLoses ==
    ASSUME NEW f, NEW g, \A i \in Ages : f[i] \in Nat /\ g[i] = IF i = 0 THEN 0 ELSE f[i - 1]
    PROVE  SumFunctionOnSet(g, Ages) <= SumFunctionOnSet(f, Ages)
<1> DEFINE later == Ages \ {0}
           at == [i \in later |-> i - 1]
           kept == {at[i] : i \in later}
<1>1. later \subseteq Nat /\ kept \in SUBSET Ages
  BY AgesShape DEF Ages
<1>2. IsFiniteSet(later)
  BY AgesShape, FS_Subset
<1>3. \A i \in Ages : g[i] \in Nat
  BY AgesShape
<1>4. SumFunctionOnSet(g, Ages) = SumFunctionOnSet(g, later)
  <2>1. \A i \in Ages \ later : g[i] = 0
    OBVIOUS
  <2> HIDE DEF later
  <2>2. later \in SUBSET Ages
    BY DEF later
  <2> QED BY <1>3, <2>1, <2>2, AgesShape, SumWithoutZeros
<1>5. SumFunctionOnSet(g, later) = SumFunctionOnSet(f, kept)
  <2>1. \A i, j \in later : at[i] = at[j] => i = j
    BY <1>1
  <2>2. \A i \in later : f[at[i]] \in Nat /\ g[i] = f[at[i]]
    BY AgesShape
  <2> HIDE DEF at, later
  <2> QED BY <1>2, <2>1, <2>2, SumRenamed
<1>6. SumFunctionOnSet(f, kept) <= SumFunctionOnSet(f, Ages)
  <2> HIDE DEF kept
  <2> QED BY <1>1, AgesShape, SumOfPart
<1> QED BY <1>4, <1>5, <1>6

LEMMA SecondPassesShields ==
    ASSUME GatesTypeOK, GatesTypeOK', ShieldedInv, SecondPasses
    PROVE  ShieldedInv'
<1> SUFFICES ASSUME NEW u \in Users, HasRpm(u) PROVE Shielded(u)'
  BY DEF ShieldedInv, HasRpm
<1>1. /\ \A i \in Ages : own[u][i] \in Nat /\ shared[i][u] \in Nat /\ shared[i][u] <= own[u][i]
      /\ Sent(u) = SumFunctionOnSet(SentBy(u), Ages) /\ Sent(u) \in Nat /\ Sent(u) <= RpmOf[u]
  BY WindowSums DEF ShieldedInv, Shielded
<1>2. \A i \in Ages : /\ own'[u][i] = IF i = 0 THEN 0 ELSE own[u][i - 1]
                      /\ shared'[i][u] = IF i = 0 THEN 0 ELSE shared[i - 1][u]
  BY DEF SecondPasses, Shifted, Nobody, Everyone
<1>3. \A i \in Ages : shared'[i][u] <= own'[u][i]
  BY <1>1, <1>2, AgesShape
<1>4. Sent(u)' = SumFunctionOnSet(SentBy(u)', Ages)
  <2>1. DOMAIN SentBy(u)' = Ages
    BY DEF SentBy
  <2> QED BY <2>1 DEF Sent, SentBy, SumFunction
<1>5. SumFunctionOnSet(SentBy(u)', Ages) <= SumFunctionOnSet(SentBy(u), Ages)
  <2> DEFINE f == SentBy(u)
             g == SentBy(u)'
  <2>1. \A i \in Ages : f[i] \in Nat /\ g[i] = IF i = 0 THEN 0 ELSE f[i - 1]
    BY <1>1, <1>2, AgesShape DEF SentBy
  <2> HIDE DEF f, g
  <2>2. SumFunctionOnSet(g, Ages) <= SumFunctionOnSet(f, Ages)
    BY <2>1, ShiftLoses
  <2> QED BY <2>2 DEF f, g
<1>6. SumFunctionOnSet(SentBy(u)', Ages) \in Nat /\ RpmOf[u] \in Nat
  <2>1. \A i \in Ages : SentBy(u)'[i] \in Nat
    BY <1>1, <1>2, AgesShape DEF SentBy
  <2> DEFINE g == SentBy(u)'
  <2> HIDE DEF g
  <2>2. SumFunctionOnSet(g, Ages) \in Nat
    BY <2>1, AgesShape, SumRemove DEF g
  <2> QED BY <2>2, GatesAssumption DEF GatesAssumption, g
<1>7. Sent(u)' <= RpmOf[u]
  BY <1>1, <1>4, <1>5, <1>6
<1> QED BY <1>3, <1>7 DEF Shielded

(* NeighboursShielded: however fast the requests of a token come, they take *)
(* no more of the limit of all than the token's own limit in any minute,    *)
(* for any tokens and limits and a minute of any length: the gate of the    *)
(* token comes first, and what it refuses never reaches the gate of all.    *)
THEOREM NeighboursShieldedHolds == GatesSpec => []NeighboursShielded
<1>1. GatesInit => ShieldedInv
  <2> SUFFICES ASSUME GatesInit, NEW u \in Users, HasRpm(u) PROVE Shielded(u)
    BY DEF ShieldedInv
  <2>1. \A i \in Ages : SentBy(u)[i] = 0 /\ shared[i][u] = 0 /\ own[u][i] = 0
    BY DEF GatesInit, SentBy, Nobody, Everyone
  <2>2. SumFunctionOnSet(SentBy(u), Ages) = SumFunctionOnSet(SentBy(u), {})
    <3>1. \A i \in Ages : SentBy(u)[i] \in Nat
      BY <2>1
    <3> QED BY <2>1, <3>1, AgesShape, SumWithoutZeros
  <2>3. DOMAIN SentBy(u) = Ages /\ RpmOf[u] \in Nat
    BY GatesAssumption DEF SentBy, GatesAssumption
  <2>4. Sent(u) = 0
    BY <2>2, <2>3, SumEmpty DEF Sent, SentBy, SumFunction
  <2> QED BY <2>1, <2>3, <2>4 DEF Shielded
<1>2. GatesTypeOK /\ GatesTypeOK' /\ ShieldedInv /\ [GatesNext]_gateVars => ShieldedInv'
  <2> SUFFICES ASSUME GatesTypeOK, GatesTypeOK', ShieldedInv, [GatesNext]_gateVars
               PROVE  ShieldedInv'
    OBVIOUS
  <2>1. ASSUME NEW w \in Everyone, NEW checked \in BOOLEAN, Arrive(w, checked)
        PROVE  ShieldedInv'
    BY <2>1, ArriveShields
  <2>2. CASE UNCHANGED <<own, shared>>
    BY <2>2 DEF ShieldedInv, Shielded, Sent, HasRpm
  <2>3. ASSUME NEW r \in Requests, NEW n \in Uses, Leave(r, n)
        PROVE  ShieldedInv'
    BY <2>2, <2>3 DEF Leave
  <2>4. CASE SecondPasses
    BY <2>4, SecondPassesShields
  <2>5. CASE UNCHANGED gateVars
    BY <2>2, <2>5 DEF gateVars
  <2> QED BY <2>1, <2>3, <2>4, <2>5 DEF GatesNext
<1>3. ShieldedInv => NeighboursShielded
  BY DEF ShieldedInv, Shielded, NeighboursShielded
<1> QED BY <1>1, <1>2, <1>3, GatesTypeCorrect, PTL DEF GatesSpec

----------------------------------------------------------------------------
(* The ring of one window *)

(* The seconds since a bucket was the current one. *)
Since(s) == IF s <= slot THEN slot - s ELSE slot + Buckets - s

(* A bucket that counts holds what was checked when it was the current one; *)
(* in the time of one that does not count, nothing was.  A window that is   *)
(* idle for that long has seen no check.                                    *)
RateInv ==
    /\ slot \in Slots /\ tracked \in BOOLEAN /\ idle \in 0 .. Buckets
    /\ counts \in [Slots -> Nat] /\ age \in [Slots -> 0 .. Buckets]
    /\ recent \in [Slots -> Nat]
    /\ \A s \in Slots :
          IF Live(s) THEN age[s] = Since(s) /\ counts[s] = recent[Since(s)]
          ELSE recent[Since(s)] = 0
    /\ tracked => \A i \in Slots : i < idle => recent[i] = 0

LEMMA SlotsShape ==
    /\ Buckets \in Nat /\ Buckets > 0 /\ IsFiniteSet(Slots) /\ Slots \subseteq Nat
    /\ \A s : s \in Slots <=> s \in Nat /\ s < Buckets
<1>1. Buckets \in Nat /\ Buckets > 0
  BY RateAssumption DEF RateAssumption
<1>2. IsFiniteSet(0 .. Buckets - 1)
  BY <1>1, FS_Interval
<1> QED BY <1>1, <1>2 DEF Slots

LEMMA SinceShape ==
    ASSUME slot \in Slots
    PROVE  /\ \A s \in Slots : Since(s) \in Slots
           /\ \A s, t \in Slots : Since(s) = Since(t) => s = t
           /\ \A i \in Slots : \E s \in Slots : Since(s) = i
           /\ Since(slot) = 0
<1>1. ASSUME NEW i \in Slots PROVE \E s \in Slots : Since(s) = i
  <2>1. CASE i <= slot
    <3>1. slot - i \in Slots /\ Since(slot - i) = i
      BY <2>1, SlotsShape DEF Since
    <3> QED BY <3>1
  <2>2. CASE i > slot
    <3>1. slot + Buckets - i \in Slots /\ Since(slot + Buckets - i) = i
      BY <2>2, SlotsShape DEF Since
    <3> QED BY <3>1
  <2> QED BY <2>1, <2>2, SlotsShape
<1> QED BY <1>1, SlotsShape DEF Since

LEMMA WindowIsExact == RateInv => WindowExact
<1> SUFFICES ASSUME RateInv PROVE WindowExact
  OBVIOUS
<1> DEFINE at == [s \in Slots |-> Since(s)]
           f == [s \in Slots |-> recent[Since(s)]]
<1>1. /\ slot \in Slots /\ recent \in [Slots -> Nat] /\ LiveSlots \in SUBSET Slots
      /\ \A s \in LiveSlots : counts[s] = recent[Since(s)]
      /\ \A s \in Slots \ LiveSlots : recent[Since(s)] = 0
  BY DEF RateInv, LiveSlots
<1>2. \A s \in Slots : recent[Since(s)] \in Nat
  BY <1>1, SinceShape
<1>3. /\ \A s \in LiveSlots : f[s] \in Nat /\ counts[s] = f[s]
      /\ \A s \in Slots : f[s] \in Nat
      /\ \A s \in Slots \ LiveSlots : f[s] = 0
  BY <1>1, <1>2
<1>4. {at[s] : s \in Slots} = Slots
  BY <1>1, SinceShape
<1>5. \A s, t \in Slots : at[s] = at[t] => s = t
  BY <1>1, SinceShape
<1>6. \A s \in Slots : recent[at[s]] \in Nat /\ f[s] = recent[at[s]]
  BY <1>2
<1>7. IsFiniteSet(LiveSlots)
  BY <1>1, SlotsShape, FS_Subset
<1> HIDE DEF at, f
<1>8. SumFunctionOnSet(f, LiveSlots) = SumFunctionOnSet(counts, LiveSlots)
  BY <1>3, <1>7, SumEqual
<1>9. SumFunctionOnSet(f, Slots) = SumFunctionOnSet(f, LiveSlots)
  BY <1>1, <1>3, SlotsShape, SumWithoutZeros
<1>10. SumFunctionOnSet(f, Slots) = SumFunctionOnSet(recent, {at[s] : s \in Slots})
  BY <1>5, <1>6, SlotsShape, SumRenamed
<1>11. DOMAIN recent = Slots
  BY <1>1
<1> QED BY <1>4, <1>8, <1>9, <1>10, <1>11 DEF WindowExact, Total, SumFunction

(* A check is counted where it is made. *)
LEMMA CheckKeepsInv ==
    ASSUME RateInv, Counted, Recorded, slot' = slot
    PROVE  /\ counts' \in [Slots -> Nat] /\ age' \in [Slots -> 0 .. Buckets] /\ idle' = 0
           /\ recent' \in [Slots -> Nat]
           /\ (\A s \in Slots :
                  IF Live(s) THEN age[s] = Since(s) /\ counts[s] = recent[Since(s)]
                  ELSE recent[Since(s)] = 0)'
<1>1. /\ slot \in Slots /\ recent \in [Slots -> Nat] /\ counts \in [Slots -> Nat]
      /\ age \in [Slots -> 0 .. Buckets]
      /\ \A s \in Slots : IF Live(s) THEN age[s] = Since(s) /\ counts[s] = recent[Since(s)]
                          ELSE recent[Since(s)] = 0
  BY DEF RateInv
<1>2. /\ counts' = [s \in Slots |-> (IF Live(s) THEN counts[s] ELSE 0) + (IF s = slot THEN 1 ELSE 0)]
      /\ age' = [age EXCEPT ![slot] = 0] /\ idle' = 0
      /\ recent' = [recent EXCEPT ![0] = @ + 1]
  BY DEF Counted, Recorded
<1>3. 0 \in Slots /\ 0 \in 0 .. Buckets
  BY SlotsShape
<1>4. /\ recent' \in [Slots -> Nat] /\ age' \in [Slots -> 0 .. Buckets]
      /\ counts' \in [Slots -> Nat]
  BY <1>1, <1>2, <1>3
<1>5. ASSUME NEW s \in Slots
      PROVE  (IF Live(s) THEN age[s] = Since(s) /\ counts[s] = recent[Since(s)]
              ELSE recent[Since(s)] = 0)'
  <2>1. Since(s)' = Since(s) /\ Since(s) \in Slots /\ (s # slot => Since(s) # 0)
    BY <1>1, SinceShape DEF Since
  <2>2. CASE s = slot
    <3>1. /\ age'[s] = 0 /\ Since(s) = 0 /\ Live(s)'
          /\ counts'[s] = (IF Live(s) THEN counts[s] ELSE 0) + 1
          /\ recent'[0] = recent[0] + 1
      BY <1>1, <1>2, <1>3, <2>2, SinceShape, SlotsShape DEF Live
    <3>2. recent[0] \in Nat /\ recent[0] = IF Live(s) THEN counts[s] ELSE 0
      BY <1>1, <1>3, <3>1
    <3> QED BY <2>1, <3>1, <3>2
  <2>3. CASE s # slot
    <3>1. /\ age'[s] = age[s] /\ (Live(s)' <=> Live(s))
          /\ Live(s) => counts'[s] = counts[s]
          /\ recent'[Since(s)] = recent[Since(s)]
      BY <1>1, <1>2, <2>1, <2>3 DEF Live
    <3> QED BY <1>1, <2>1, <3>1
  <2> QED BY <2>2, <2>3
<1> QED BY <1>2, <1>4, <1>5

(* A second later, every bucket is one second older. *)
LEMMA RateTickKeepsInv ==
    ASSUME RateInv, RateTick
    PROVE  RateInv'
<1>1. /\ slot \in Slots /\ recent \in [Slots -> Nat] /\ counts \in [Slots -> Nat]
      /\ age \in [Slots -> 0 .. Buckets] /\ idle \in 0 .. Buckets /\ tracked \in BOOLEAN
      /\ \A s \in Slots : IF Live(s) THEN age[s] = Since(s) /\ counts[s] = recent[Since(s)]
                          ELSE recent[Since(s)] = 0
      /\ tracked => \A i \in Slots : i < idle => recent[i] = 0
  BY DEF RateInv
<1>2. \/ slot + 1 < Buckets /\ slot' = slot + 1
      \/ slot + 1 = Buckets /\ slot' = 0
  <2>1. slot \in Nat /\ slot < Buckets /\ Buckets \in Nat /\ Buckets > 0
    BY <1>1, SlotsShape
  <2>2. slot' = (slot + 1) % Buckets
    BY DEF RateTick
  <2>3. CASE slot + 1 < Buckets
    BY <2>1, <2>2, <2>3
  <2>4. CASE slot + 1 = Buckets
    BY <2>1, <2>2, <2>4
  <2> QED BY <2>1, <2>3, <2>4
<1>3. slot' \in Slots
  BY <1>1, <1>2, SlotsShape
<1>4. /\ age' = [s \in Slots |-> Capped(age[s] + 1)]
      /\ counts' = counts /\ tracked' = tracked
      /\ idle' = IF tracked THEN Capped(idle + 1) ELSE idle
      /\ recent' = [i \in Slots |-> IF i = 0 THEN 0 ELSE recent[i - 1]]
  BY DEF RateTick
<1>5. \A i \in Slots : i # 0 => i - 1 \in Slots
  BY SlotsShape
<1>6. /\ age' \in [Slots -> 0 .. Buckets] /\ idle' \in 0 .. Buckets
      /\ recent' \in [Slots -> Nat]
  <2>1. \A s \in Slots : Capped(age[s] + 1) \in 0 .. Buckets
    BY <1>1, SlotsShape DEF Capped
  <2>2. idle' \in 0 .. Buckets
    BY <1>1, <1>4, SlotsShape DEF Capped
  <2>3. recent' \in [Slots -> Nat]
    BY <1>1, <1>4, <1>5
  <2> QED BY <1>4, <2>1, <2>2, <2>3
<1>7. ASSUME NEW s \in Slots
      PROVE  (IF Live(s) THEN age[s] = Since(s) /\ counts[s] = recent[Since(s)]
              ELSE recent[Since(s)] = 0)'
  <2>1. \/ Since(s)' = Since(s) + 1 /\ Since(s) + 1 < Buckets
        \/ Since(s)' = 0 /\ Since(s) + 1 = Buckets
    BY <1>1, <1>2, SlotsShape DEF Since
  <2>2. Since(s) \in Slots /\ Since(s)' \in Slots
    BY <1>1, <2>1, SinceShape, SlotsShape
  <2>3. /\ Since(s)' = Since(s) + 1 => recent'[Since(s)'] = recent[Since(s)]
        /\ Since(s)' = 0 => recent'[Since(s)'] = 0
    BY <1>1, <1>4, <2>2, SlotsShape
  <2>4. age'[s] = Capped(age[s] + 1) /\ age[s] \in 0 .. Buckets
    BY <1>1, <1>4
  <2>5. CASE Live(s)'
    <3>1. age[s] + 1 < Buckets /\ age'[s] = age[s] + 1
      BY <2>4, <2>5, SlotsShape DEF Live, Capped
    <3>2. age[s] = Since(s) /\ counts[s] = recent[Since(s)]
      BY <1>1, <3>1, SlotsShape DEF Live
    <3> QED BY <1>4, <2>1, <2>3, <2>5, <3>1, <3>2, SlotsShape
  <2>6. CASE ~Live(s)'
    <3>1. age[s] + 1 >= Buckets
      BY <2>4, <2>6, SlotsShape DEF Live, Capped
    <3>2. ~Live(s) \/ Since(s) + 1 >= Buckets
      BY <1>1, <3>1
    <3>3. CASE ~Live(s)
      BY <1>1, <2>1, <2>3, <2>6, <3>3
    <3>4. CASE Since(s) + 1 >= Buckets
      BY <2>1, <2>2, <2>3, <2>6, <3>4, SlotsShape
    <3> QED BY <3>2, <3>3, <3>4
  <2> QED BY <2>5, <2>6
<1>8. tracked' => \A i \in Slots : i < idle' => recent'[i] = 0
  BY <1>1, <1>4, <1>5, SlotsShape DEF Capped
<1> QED BY <1>1, <1>3, <1>4, <1>6, <1>7, <1>8 DEF RateInv

LEMMA PruneKeepsInv ==
    ASSUME RateInv, Prune
    PROVE  RateInv'
<1>1. \A i \in Slots : recent[i] = 0
  BY SlotsShape DEF RateInv, Prune
<1>2. /\ slot' = slot /\ recent' = recent /\ tracked' = FALSE /\ idle' = 0
      /\ counts' = [s \in Slots |-> 0] /\ age' = [s \in Slots |-> Buckets]
  BY DEF Prune, Empty, Unwritten
<1>3. /\ counts' \in [Slots -> Nat] /\ age' \in [Slots -> 0 .. Buckets] /\ 0 \in 0 .. Buckets
      /\ \A s \in Slots : ~Live(s)'
  BY <1>2, SlotsShape DEF Live
<1>4. \A s \in Slots : Since(s)' = Since(s) /\ Since(s) \in Slots
  BY <1>2, SinceShape DEF Since, RateInv
<1> QED BY <1>1, <1>2, <1>3, <1>4 DEF RateInv

LEMMA RateInvHolds == RateSpec => []RateInv
<1>1. RateInit => RateInv
  <2> SUFFICES ASSUME RateInit PROVE RateInv
    OBVIOUS
  <2>1. /\ slot = 0 /\ tracked = FALSE /\ idle = 0
        /\ counts = [s \in Slots |-> 0] /\ age = [s \in Slots |-> Buckets]
        /\ recent = [s \in Slots |-> 0]
    BY DEF RateInit, Empty, Unwritten
  <2>2. slot \in Slots /\ 0 \in 0 .. Buckets /\ Buckets \in 0 .. Buckets
    BY <2>1, SlotsShape
  <2>3. \A s \in Slots : ~Live(s) /\ Since(s) \in Slots
    BY <2>1, <2>2, SlotsShape, SinceShape DEF Live
  <2> QED BY <2>1, <2>2, <2>3 DEF RateInv
<1>2. RateInv /\ [RateNext]_rateVars => RateInv'
  <2> SUFFICES ASSUME RateInv, [RateNext]_rateVars PROVE RateInv'
    OBVIOUS
  <2>1. CASE CheckOther \/ CheckClient
    <3>1. Counted /\ Recorded /\ slot' = slot /\ tracked' = TRUE
      BY <2>1 DEF CheckOther, CheckClient, Counted
    <3>2. \A i \in Slots : ~(i < 0)
      BY SlotsShape
    <3>3. slot \in Slots /\ 0 \in 0 .. Buckets
      BY SlotsShape DEF RateInv
    <3>4. /\ counts' \in [Slots -> Nat] /\ age' \in [Slots -> 0 .. Buckets] /\ idle' = 0
          /\ recent' \in [Slots -> Nat]
          /\ (\A s \in Slots :
                 IF Live(s) THEN age[s] = Since(s) /\ counts[s] = recent[Since(s)]
                 ELSE recent[Since(s)] = 0)'
      BY <3>1, CheckKeepsInv
    <3> QED BY <3>1, <3>2, <3>3, <3>4 DEF RateInv
  <2>2. CASE Prune
    BY <2>2, PruneKeepsInv
  <2>3. CASE RateTick
    BY <2>3, RateTickKeepsInv
  <2>4. CASE UNCHANGED rateVars
    BY <2>4 DEF rateVars, window, client, RateInv, Live, Since
  <2> QED BY <2>1, <2>2, <2>3, <2>4 DEF RateNext
<1> QED BY <1>1, <1>2, PTL DEF RateSpec

(* WindowExact: the window counts exactly the checks of its last Buckets    *)
(* seconds, for a ring of any size and however many checks there are,       *)
(* though buckets are emptied late and windows are dropped when idle        *)
(* (RpmLimiter.check() and prune()).                                        *)
THEOREM WindowExactHolds == RateSpec => []WindowExact
BY RateInvHolds, WindowIsExact, PTL

----------------------------------------------------------------------------
(* When a client is told to come back *)

(* What is younger than m in the window is what was checked since.  *)
LEMMA YoungerThan ==
    ASSUME RateInv, NEW m \in 0 .. Buckets
    PROVE  /\ SumFunctionOnSet(counts, {s \in LiveSlots : age[s] < m})
                = SumFunctionOnSet(recent, {i \in Slots : i < m})
           /\ SumFunctionOnSet(recent, {i \in Slots : i < m}) \in Nat
<1> DEFINE at == [s \in Slots |-> Since(s)]
           f == [s \in Slots |-> recent[Since(s)]]
           young == {s \in LiveSlots : age[s] < m}
           these == {s \in Slots : Since(s) < m}
           last == {i \in Slots : i < m}
<1>1. /\ slot \in Slots /\ recent \in [Slots -> Nat]
      /\ \A s \in Slots : IF Live(s) THEN age[s] = Since(s) /\ counts[s] = recent[Since(s)]
                          ELSE recent[Since(s)] = 0
  BY DEF RateInv
<1>2. \A s \in Slots : recent[Since(s)] \in Nat
  BY <1>1, SinceShape
<1>3. young \in SUBSET these /\ \A s \in these \ young : f[s] = 0
  BY <1>1 DEF LiveSlots
<1>4. /\ \A s \in young : f[s] \in Nat /\ counts[s] = f[s]
      /\ \A s \in these : f[s] \in Nat
  BY <1>1, <1>2 DEF LiveSlots
<1>5. {at[s] : s \in these} = last
  BY <1>1, SinceShape
<1>6. \A s, t \in these : at[s] = at[t] => s = t
  BY <1>1, SinceShape
<1>7. \A s \in these : recent[at[s]] \in Nat /\ f[s] = recent[at[s]]
  BY <1>2
<1>8. IsFiniteSet(these) /\ IsFiniteSet(last) /\ \A i \in last : recent[i] \in Nat
  BY <1>1, SlotsShape, FS_Subset
<1> HIDE DEF at, f, young, these, last
<1>9. IsFiniteSet(young)
  BY <1>3, <1>8, FS_Subset
<1>10. SumFunctionOnSet(f, young) = SumFunctionOnSet(counts, young)
  BY <1>4, <1>9, SumEqual
<1>11. SumFunctionOnSet(f, these) = SumFunctionOnSet(f, young)
  BY <1>3, <1>4, <1>8, SumWithoutZeros
<1>12. SumFunctionOnSet(f, these) = SumFunctionOnSet(recent, {at[s] : s \in these})
  BY <1>6, <1>7, <1>8, SumRenamed
<1>13. SumFunctionOnSet(recent, last) \in Nat
  BY <1>8, SumRemove
<1> QED BY <1>5, <1>10, <1>11, <1>12, <1>13 DEF young, last

(* The oldest bucket whose departure leaves room. *)
Roomy(s) == SumFunctionOnSet(counts, {u \in LiveSlots : age[u] < age[s]}) < Limit

LEMMA HintShape ==
    ASSUME RateInv, Denied
    PROVE  \E m \in 0 .. Buckets - 1 :
              /\ RetryAfter = Buckets - m
              /\ \E s \in LiveSlots : age[s] = m /\ Roomy(s)
              /\ \A s \in LiveSlots : Roomy(s) => age[s] <= m
<1> DEFINE ages == {age[s] : s \in {t \in LiveSlots : Roomy(t)}}
           alive == {age[s] : s \in LiveSlots}
<1>1. RetryAfter = Buckets - Max(ages)
  BY DEF RetryAfter, Roomy
<1>2. \A s \in LiveSlots : age[s] \in 0 .. Buckets - 1 /\ age[s] \in Nat
  BY SlotsShape DEF LiveSlots, Live, RateInv
<1>3. LiveSlots # {}
  <2>1. SUFFICES ASSUME LiveSlots = {} PROVE FALSE
    OBVIOUS
  <2>2. Total = 0
    BY <2>1, SumEmpty DEF Total
  <2> QED BY <2>2, RateAssumption DEF Denied, RateAssumption
<1>4. ages # {}
  <2>1. alive \in SUBSET Nat /\ alive # {}
    BY <1>2, <1>3
  <2> HIDE DEF alive
  <2>2. PICK k \in alive : \A j \in alive : k <= j
    BY <2>1, LeastOfNat
  <2>3. PICK s \in LiveSlots : k = age[s]
    BY <2>2 DEF alive
  <2>4. \A u \in LiveSlots : ~(age[u] < age[s])
    <3>1. k \in Nat
      BY <2>1, <2>2
    <3>2. \A u \in LiveSlots : k <= age[u] /\ age[u] \in Nat
      BY <1>2, <2>2 DEF alive
    <3> QED BY <2>3, <3>1, <3>2
  <2>5. {u \in LiveSlots : age[u] < age[s]} = {}
    BY <2>4
  <2>6. Roomy(s)
    BY <2>5, SumEmpty, RateAssumption DEF Roomy, RateAssumption
  <2> QED BY <2>3, <2>6
<1>5. ages \in SUBSET (0 .. Buckets - 1) /\ Buckets - 1 \in Nat
  BY <1>2, SlotsShape
<1> HIDE DEF ages
<1>6. \E m \in ages : \A j \in ages : j <= m
  BY <1>4, <1>5, GreatestOfNat
<1>7. Max(ages) \in ages /\ \A j \in ages : j <= Max(ages)
  <2>1. \E m \in ages : \A j \in ages : m >= j
    BY <1>5, <1>6
  <2>2. Max(ages) \in ages /\ \A j \in ages : Max(ages) >= j
    BY <2>1 DEF Max
  <2> QED BY <1>5, <2>2
<1>8. Max(ages) \in 0 .. Buckets - 1
  BY <1>5, <1>7
<1> QED BY <1>1, <1>7, <1>8 DEF ages

LEMMA SoonerIsYounger ==
    \A b \in Nat : \A w \in 0 .. b : \A d \in 0 .. w - 1 :
        d \in 0 .. b /\ b - d \in Nat /\ b - d > b - w
OBVIOUS

LEMMA HintIsRight ==
    ASSUME RateInv, CheckClient, denied'
    PROVE  /\ wait' \in Nat /\ LeftAfter(wait') < Limit
           /\ \A d \in 0 .. wait' - 1 : LeftAfter(d) >= Limit
<1>1. Denied /\ wait' = RetryAfter
  BY DEF CheckClient
<1>2. PICK m \in 0 .. Buckets - 1 :
              /\ RetryAfter = Buckets - m
              /\ \E s \in LiveSlots : age[s] = m /\ Roomy(s)
              /\ \A s \in LiveSlots : Roomy(s) => age[s] <= m
  BY <1>1, HintShape
<1>3. Buckets \in Nat /\ Buckets > 0 /\ Slots \subseteq Nat /\ Limit \in Nat
  BY SlotsShape, RateAssumption DEF RateAssumption
<1>4. ASSUME NEW d \in 0 .. Buckets
      PROVE  /\ LeftAfter(d) = SumFunctionOnSet(counts, {s \in LiveSlots : age[s] < Buckets - d})
             /\ LeftAfter(d) \in Nat
  <2>1. Buckets - d \in 0 .. Buckets
    BY <1>3
  <2>2. \A i \in Slots : i + d < Buckets <=> i < Buckets - d
    <3>1. ASSUME NEW i \in Slots PROVE i + d < Buckets <=> i < Buckets - d
      <4>1. i \in Nat /\ d \in Nat
        BY <1>3
      <4> QED BY <1>3, <4>1
    <3> QED BY <3>1
  <2>3. {i \in Slots : i + d < Buckets} = {i \in Slots : i < Buckets - d}
    BY <2>2
  <2> QED BY <2>1, <2>3, YoungerThan DEF LeftAfter
<1>5. wait' \in Nat /\ wait' \in 0 .. Buckets /\ Buckets - wait' = m
  <2>1. wait' = Buckets - m
    BY <1>1, <1>2
  <2>2. m \in Nat /\ m < Buckets
    BY <1>3
  <2>3. PICK b \in Nat : b = Buckets
    BY <1>3
  <2>4. m <= b /\ b - m \in Nat /\ b - m \in 0 .. b /\ b - (b - m) = m
    BY <2>2, <2>3
  <2> QED BY <2>1, <2>3, <2>4
<1>6. LeftAfter(wait') < Limit
  <2>1. PICK s \in LiveSlots : age[s] = m /\ Roomy(s)
    BY <1>2
  <2>2. SumFunctionOnSet(counts, {u \in LiveSlots : age[u] < m}) < Limit
    BY <2>1 DEF Roomy
  <2>3. PICK w \in 0 .. Buckets : w = wait'
    BY <1>5
  <2>4. LeftAfter(w) < Limit
    BY <1>4, <1>5, <2>2, <2>3
  <2> QED BY <2>3, <2>4
<1>7. ASSUME NEW d \in 0 .. wait' - 1 PROVE LeftAfter(d) >= Limit
  <2> DEFINE k == Buckets - d
             older == {age[s] : s \in {t \in LiveSlots : age[t] >= k}}
  <2>1. d \in 0 .. Buckets /\ k \in Nat /\ k > m
    <3>1. PICK b \in Nat, w \in Nat : b = Buckets /\ w = wait'
      BY <1>3, <1>5
    <3>2. d \in 0 .. w - 1 /\ w \in 0 .. b /\ b - w = m
      BY <1>5, <3>1
    <3>3. d \in 0 .. b /\ b - d \in Nat /\ b - d > b - w
      BY <3>2, SoonerIsYounger
    <3> QED BY <3>1, <3>2, <3>3
  <2>2. LeftAfter(d) = SumFunctionOnSet(counts, {s \in LiveSlots : age[s] < k}) /\ LeftAfter(d) \in Nat
    BY <1>4, <2>1
  <2>3. \A s \in LiveSlots : age[s] \in Nat
    BY DEF LiveSlots, RateInv
  <2>4. SUFFICES ASSUME LeftAfter(d) < Limit PROVE FALSE
    BY <1>3, <2>2
  <2> HIDE DEF k
  <2>5. CASE older = {}
    <3>0. \A s \in LiveSlots : age[s] < k
      BY <2>1, <2>3, <2>5
    <3>1. {s \in LiveSlots : age[s] < k} = LiveSlots
      BY <3>0
    <3>2. LeftAfter(d) = Total
      BY <2>2, <3>1 DEF Total
    <3> QED BY <1>1, <1>3, <2>2, <2>4, <3>2 DEF Denied
  <2>6. CASE older # {}
    <3>1. older \in SUBSET Nat
      BY <2>3
    <3> HIDE DEF older
    <3>2. PICK a \in older : \A j \in older : a <= j
      BY <2>6, <3>1, LeastOfNat
    <3>3. PICK s \in LiveSlots : age[s] = a /\ a >= k
      BY <3>2 DEF older
    <3>0. \A u \in LiveSlots : age[u] < a <=> age[u] < k
      <4>1. a \in Nat
        BY <3>1, <3>2
      <4>2. \A u \in LiveSlots : age[u] >= k => a <= age[u]
        BY <3>2 DEF older
      <4> QED BY <2>1, <2>3, <3>3, <4>1, <4>2
    <3>4. {u \in LiveSlots : age[u] < a} = {u \in LiveSlots : age[u] < k}
      BY <3>0
    <3>5. Roomy(s)
      BY <2>2, <2>4, <3>3, <3>4 DEF Roomy
    <3>6. a <= m
      BY <1>2, <3>3, <3>5
    <3> QED BY <2>1, <2>3, <3>3, <3>6
  <2> QED BY <2>5, <2>6
<1> QED BY <1>5, <1>6, <1>7

(* HintIsEarliest: a client that is turned away is told the first second at *)
(* which the checks made before its own leave room, for a ring of any size  *)
(* and any limit (RpmLimiter.check(), its retryAfterSeconds).               *)
THEOREM HintIsEarliestHolds == RateSpec => HintIsEarliest
<1>1. RateInv /\ [RateNext]_rateVars
        => [denied' /\ CheckClient =>
              LeftAfter(wait') < Limit /\ \A d \in 0 .. wait' - 1 : LeftAfter(d) >= Limit]_rateVars
  BY HintIsRight
<1> QED BY <1>1, RateInvHolds, PTL DEF RateSpec, HintIsEarliest
=============================================================================
