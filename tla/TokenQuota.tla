----------------------------- MODULE TokenQuota -----------------------------
(***************************************************************************)
(* One distributed token and its quota: the row of the tokens table         *)
(* (src/tokens.ts), the snapshot of it that verify() keeps for ten seconds, *)
(* the requests that are admitted on the snapshot and settled on the row,   *)
(* and the operator who edits, deletes and creates the token meanwhile.     *)
(*                                                                          *)
(* The three quotas ($, tokens, requests) work alike and independently: one *)
(* is modelled.  verify() and the quota check of a request run in one turn  *)
(* of the event loop, so they see the same row.  Time is kept as what has   *)
(* passed since quota_reset_at and what is left of a deadline.              *)
(***************************************************************************)
EXTENDS Integers, FiniteSets

CONSTANTS
    Calls,      \* requests on the token
    Limits,     \* quotas the operator may set; 0 is no limit
    Costs,      \* what a request may turn out to cost
    Lifetimes,  \* times to live the operator may set; Never is none
    CacheTime,  \* VERIFY_CACHE_TTL_MS
    Day, Month, \* the two cycles
    MaxUsed     \* bound: what is recorded at most

Never == -1

ASSUME QuotaAssumption ==
    /\ IsFiniteSet(Calls)
    /\ Limits \subseteq Nat /\ Costs \subseteq Nat
    /\ Lifetimes \subseteq Nat \cup {Never}
    /\ CacheTime \in Nat \ {0}
    /\ Day \in Nat \ {0} /\ Month \in Nat /\ Day <= Month
    /\ MaxUsed \in Nat /\ \A cost \in Costs : cost <= MaxUsed

Cycles == {"none", "daily", "monthly"}

VARIABLES
    row,        \* the row: status, limit, used, cycle, age of the window, life
    cache,      \* the entry of verifyCache: the row it was read from, time left
    phase,      \* per request: "idle", "admitted", "forwarded" (a key was chosen)
    skipped     \* history: settlements the row took no notice of, since the
                \* last one it did

vars == <<row, cache, phase, skipped>>

(* age: since quota_reset_at, as long as it matters; life: until expires_at. *)
Rows == [status : {"absent", "active", "disabled"}, limit : Nat, used : 0 .. MaxUsed,
         cycle : Cycles, age : 0 .. Month, life : Nat \cup {Never}]
NoRow == [status |-> "absent", limit |-> 0, used |-> 0, cycle |-> "none",
          age |-> Month, life |-> Never]
NewRow(limit, cycle, life) ==
    [status |-> "active", limit |-> limit, used |-> 0, cycle |-> cycle, age |-> 0, life |-> life]
NoCache == [row |-> NoRow, left |-> 0]

Busy == {c \in Calls : phase[c] # "idle"}

Init ==
    /\ row = NoRow
    /\ cache = NoCache
    /\ phase = [c \in Calls |-> "idle"]
    /\ skipped = 0

----------------------------------------------------------------------------
(* What a row says *)

Period(cycle) == IF cycle = "daily" THEN Day ELSE Month

(* quotaWindowExpired(): what was used before counts for nothing.           *)
Rolled(r) == r.cycle # "none" /\ r.age >= Period(r.cycle)
UsedNow(r) == IF Rolled(r) THEN 0 ELSE r.used

(* Mutant: only a settlement starts a new window. *)
ExhaustedRaw(r) == r.limit # 0 /\ r.used >= r.limit

(* computeQuotaStatus() *)
Exhausted(r) == r.limit # 0 /\ UsedNow(r) >= r.limit
Expired(r) == r.life = 0

----------------------------------------------------------------------------
(* Requests *)

Verified == cache.left > 0 \/ row.status = "active"
Seen == IF cache.left > 0 THEN cache.row ELSE row

(* verify(): only a hit on an active row is kept. *)
Filled == IF cache.left > 0 THEN cache ELSE [row |-> row, left |-> CacheTime]

(* A request that is authenticated and goes no further: turned away by the  *)
(* quota or a later gate, or a count_tokens request.                        *)
Authenticate ==
    /\ Verified
    /\ cache' = Filled
    /\ UNCHANGED <<row, phase, skipped>>

(* A request that passes verify() and the quota check. *)
Admit(c) ==
    /\ phase[c] = "idle"
    /\ Verified /\ ~Expired(Seen) /\ ~Exhausted(Seen)
    /\ cache' = Filled
    /\ phase' = [phase EXCEPT ![c] = "admitted"]
    /\ UNCHANGED <<row, skipped>>

(* The upstream answered on a key: ctx.keyFingerprint is set. *)
Forward(c) ==
    /\ phase[c] = "admitted"
    /\ phase' = [phase EXCEPT ![c] = "forwarded"]
    /\ UNCHANGED <<row, cache, skipped>>

(* It ends without an answer of the upstream, and is not settled. *)
EndUnforwarded(c) ==
    /\ phase[c] = "admitted"
    /\ phase' = [phase EXCEPT ![c] = "idle"]
    /\ UNCHANGED <<row, cache, skipped>>

(* The UPDATE of settleQuota(): a new window begins with this request; a    *)
(* quota that is used up takes nothing more.                                *)
TakesNothing == row.limit # 0 /\ row.used >= row.limit /\ ~Rolled(row)
Charged(cost) ==
    IF Rolled(row) THEN [row EXCEPT !.used = cost, !.age = 0]
    ELSE IF TakesNothing THEN row
    ELSE [row EXCEPT !.used = @ + cost]

(* Mutant: the snapshot is left to its time. *)
SettleKeepingCache(c, cost) ==
    /\ phase[c] = "forwarded"
    /\ phase' = [phase EXCEPT ![c] = "idle"]
    /\ IF row.status = "absent"
       THEN UNCHANGED <<row, skipped>>
       ELSE /\ Charged(cost).used <= MaxUsed
            /\ row' = Charged(cost)
            /\ skipped' = IF TakesNothing THEN skipped + 1 ELSE 0
    /\ UNCHANGED cache

(* The end of a request the upstream has answered. *)
Settle(c, cost) ==
    /\ phase[c] = "forwarded"
    /\ phase' = [phase EXCEPT ![c] = "idle"]
    /\ IF row.status = "absent"
       THEN UNCHANGED <<row, cache, skipped>>
       ELSE /\ Charged(cost).used <= MaxUsed
            /\ row' = Charged(cost)
            /\ cache' = NoCache
            /\ skipped' = IF TakesNothing THEN skipped + 1 ELSE 0

(* The database fails: the request is not charged, and nobody is told. *)
SettleFails(c) ==
    /\ phase[c] = "forwarded"
    /\ phase' = [phase EXCEPT ![c] = "idle"]
    /\ UNCHANGED <<row, cache, skipped>>

----------------------------------------------------------------------------
(* The operator, restarts, and time *)

(* A custom key may be created again after it was deleted. *)
Create(limit, cycle, life) ==
    /\ row.status = "absent"
    /\ row' = NewRow(limit, cycle, life)
    /\ skipped' = 0
    /\ UNCHANGED <<cache, phase>>

(* A new value of the cycle other than "none" starts a window. *)
Patched(status, limit, cycle, life) ==
    [row EXCEPT !.status = status, !.limit = limit, !.cycle = cycle, !.life = life,
                !.age = IF cycle \notin {row.cycle, "none"} THEN 0 ELSE @]

(* Mutant: the snapshot is left to its time. *)
UpdateStale(status, limit, cycle, life) ==
    /\ row.status # "absent"
    /\ row' = Patched(status, limit, cycle, life)
    /\ skipped' = 0
    /\ UNCHANGED <<cache, phase>>

Update(status, limit, cycle, life) ==
    /\ row.status # "absent"
    /\ row' = Patched(status, limit, cycle, life)
    /\ cache' = NoCache
    /\ skipped' = 0
    /\ UNCHANGED phase

(* Mutant: the snapshot is left to its time. *)
DeleteStale ==
    /\ row.status # "absent"
    /\ row' = NoRow
    /\ skipped' = 0
    /\ UNCHANGED <<cache, phase>>

Delete ==
    /\ row.status # "absent"
    /\ row' = NoRow
    /\ cache' = NoCache
    /\ skipped' = 0
    /\ UNCHANGED phase

(* The process stops and starts: requests under way are never settled. *)
Restart ==
    /\ cache' = NoCache
    /\ phase' = [c \in Calls |-> "idle"]
    /\ UNCHANGED <<row, skipped>>

Older(r) == [r EXCEPT !.age = IF @ < Month THEN @ + 1 ELSE @,
                      !.life = IF @ > 0 THEN @ - 1 ELSE @]

Tick ==
    /\ row' = Older(row)
    /\ cache' = IF cache.left > 1 THEN [row |-> Older(cache.row), left |-> cache.left - 1]
                ELSE NoCache
    /\ UNCHANGED <<phase, skipped>>

(* What validateTokenPatch() and parseTokenQuota() let through: zero is no   *)
(* limit, and an end that is not mentioned stays what it was.               *)
QuotaInputs == [limit : Limits, cycle : Cycles, life : Lifetimes \cup {row.life}]

(* The panel's POST and PATCH, once their bodies have been read and checked. *)
CreateToken == \E q \in QuotaInputs : Create(q.limit, q.cycle, q.life)
PatchToken ==
    \E q \in QuotaInputs, status \in {"active", "disabled"} :
        Update(status, q.limit, q.cycle, q.life)

Edit == CreateToken \/ PatchToken

Next ==
    \/ Authenticate
    \/ \E c \in Calls : Admit(c) \/ Forward(c) \/ EndUnforwarded(c) \/ SettleFails(c)
    \/ \E c \in Calls, cost \in Costs : Settle(c, cost)
    \/ Edit \/ Delete \/ Restart \/ Tick

Spec == Init /\ [][Next]_vars

(* Time always passes; nothing else is promised to happen. *)
FairSpec == Spec /\ WF_vars(Tick)

----------------------------------------------------------------------------

TypeOK ==
    /\ row \in Rows
    /\ cache \in [row : Rows, left : 0 .. CacheTime]
    /\ phase \in [Calls -> {"idle", "admitted", "forwarded"}]
    /\ skipped \in Nat

(* As long as the snapshot is used, it is the row: a settlement, an edit or *)
(* a deletion takes effect at once, not when the ten seconds are over       *)
(* (tokens.ts:483, "a disabled token is refused immediately").              *)
CacheCoherent == cache.left > 0 => cache.row = row /\ row.status = "active"

(* A request is admitted only on a row that, at that moment, is active, has *)
(* not expired, and has quota left.                                         *)
AdmitsOnlyEntitled ==
    [][\A c \in Calls : phase[c] = "idle" /\ phase'[c] # "idle" =>
          row.status = "active" /\ ~Expired(row) /\ ~Exhausted(row)]_vars

(* After the quota has been used up, no more requests go through unrecorded *)
(* than were under way at that moment (tokens.ts:865, the overrun of N      *)
(* concurrent requests is capped).                                          *)
FreeRidesBounded == skipped <= Cardinality(Calls)

(* A token with a cycle gets its quota back, if it is left alone, also when *)
(* there is no request to start the new window.                             *)
Refilling == row.cycle # "none" /\ Exhausted(row)
QuotaComesBack == <>[][~Edit]_vars => (Refilling ~> ~Refilling)

(* tokens.ts:375, when the window has rolled the use of the window before   *)
(* counts as zero: from then on only settled requests use quota.            *)
OnlySettlingUses ==
    [][UsedNow(row') > UsedNow(row) =>
          \E c \in Calls : phase[c] = "forwarded" /\ phase'[c] = "idle"]_vars

============================================================================
