------------------------------ MODULE Accounts ------------------------------
(***************************************************************************)
(* The accounts (src/accounts.ts, their table in src/usagedb.ts), the pool  *)
(* of upstream keys that runs with them, and the panel's handlers that      *)
(* change both (src/admin.ts).  Each handler changes them in one turn of    *)
(* the event loop, once its body has come: what tears them apart is a       *)
(* statement of the database that fails, and a restart.                     *)
(*                                                                          *)
(* Of an account are kept its keys, its workspace, its list of models and   *)
(* its OAuth token.  Ids are AUTOINCREMENT: none is given twice.            *)
(*                                                                          *)
(* A start takes into the pool the keys that it can: it may be unable to    *)
(* read the table, or have another secret and be unable to decrypt the keys *)
(* of a row.  One without a database or a secret reads nothing, and the     *)
(* panel then changes nothing: it is such a life without edits.             *)
(***************************************************************************)
EXTENDS Naturals, FiniteSetsExt

CONSTANTS
    Keys,
    Workspaces, NoWorkspace,
    AccountLists, Unlimited,    \* allowedModels
    Unasked,        \* no entry in allowedCache
    NoToken,
    MaxId           \* bound: accounts ever created

ASSUME AccountsAssumption ==
    /\ NoWorkspace \notin Workspaces
    /\ Unlimited \notin AccountLists /\ Unasked \notin AccountLists \cup {Unlimited}
    /\ MaxId \in Nat \ {0}

VARIABLES
    env,        \* cfg.upstreamKeys
    rows,       \* per id: the account, if there is one
    nextId,     \* sqlite_sequence
    pool,       \* per key of the pool: the account it is used for
    cache,      \* allowedCache
    sealed,     \* the accounts whose keys this process cannot decrypt
    missing,    \* history: keys of rows that this start left out
    torn,       \* history: keys a failed statement left in two rows, or out of the pool
    misread     \* history: accounts whose list could not be read when first asked for

accountVars == <<env, rows, nextId, pool, cache, sealed, missing, torn, misread>>

Ids      == 1 .. MaxId
Nobody   == 0            \* the account of a key that is in no row
Unpooled == MaxId + 1

NoRow == [there |-> FALSE, keys |-> {}, ws |-> NoWorkspace, list |-> Unlimited, tok |-> NoToken]
NewRow(keys, ws) == [NoRow EXCEPT !.there = TRUE, !.keys = keys, !.ws = ws]

There      == {id \in Ids : rows[id].there}
Holders(k) == {id \in There : k \in rows[id].keys}

----------------------------------------------------------------------------
(* What a start makes of the table: seedFromEnv() when it is empty, then    *)
(* env keys and the keys of the accounts that were loaded, a key of two     *)
(* rows for the first of them.                                              *)

PoolOf(table, loaded, named) ==
    [k \in Keys |->
        LET held == {id \in loaded : k \in table[id].keys} IN
        IF held # {} THEN Min(held) ELSE IF k \in named THEN Nobody ELSE Unpooled]

KeysIn(table, ids) == {k \in Keys : \E id \in ids : k \in table[id].keys}

(* keysForPool(): the rows that can be decrypted, or none at all.           *)
Loads(table) == {{}, {id \in Ids : table[id].there} \ sealed'}

Started(table, next) ==
    /\ rows' = table /\ nextId' = next
    /\ sealed' \in SUBSET There
    /\ \E loaded \in Loads(table) :
        /\ pool' = PoolOf(table, loaded, env')
        /\ missing' = KeysIn(table, Ids) \ KeysIn(table, loaded)
    /\ cache' = [id \in Ids |-> Unasked]
    /\ misread' = {}
    /\ torn' = torn \cap {k \in Keys : Cardinality({id \in Ids : k \in table[id].keys}) > 1}

AccountsInit ==
    /\ env \in SUBSET Keys
    /\ \/ rows = [id \in Ids |-> NoRow] /\ nextId = 1
       \/ /\ env # {} /\ nextId = 2
          /\ rows = [[id \in Ids |-> NoRow] EXCEPT ![1] = NewRow(env, NoWorkspace)]
    /\ \E loaded \in {{}, There} :
        /\ pool = PoolOf(rows, loaded, env)
        /\ missing = KeysIn(rows, Ids) \ KeysIn(rows, loaded)
    /\ cache = [id \in Ids |-> Unasked]
    /\ sealed = {} /\ torn = {} /\ misread = {}

Seeded == There = {} /\ nextId \in Ids /\ env' # {}

AccountsRestart ==
    /\ env' \in SUBSET Keys
    /\ \/ Seeded /\ Started([rows EXCEPT ![nextId] = NewRow(env', NoWorkspace)], nextId + 1)
       \/ Started(rows, nextId)     \* also when the table could not be read

----------------------------------------------------------------------------
(* KeyPool.addKey(): a key that is there stays with the account it is of. *)
Pooled(keys, id) == [k \in Keys |-> IF k \in keys /\ pool[k] = Unpooled THEN id ELSE pool[k]]

Unpool(keys) == [k \in Keys |-> IF k \in keys THEN Unpooled ELSE pool[k]]

(* keyOwner() refuses a key of another row, unless it cannot read the rows. *)
Doubled(keys) == {k \in keys : Holders(k) # {}}

Insert(row) ==
    /\ nextId \in Ids
    /\ rows' = [rows EXCEPT ![nextId] = row]
    /\ nextId' = nextId + 1

(* handleCreate(): the row is read back, and without it the pool is not told. *)
Create(keys, ws) ==
    /\ Insert(NewRow(keys, ws))
    /\ \/ pool' = Pooled(keys, nextId) /\ torn' = torn \cup Doubled(keys)
       \/ pool' = pool /\ torn' = torn \cup keys
    /\ UNCHANGED <<env, cache, sealed, missing, misread>>

(* handleAddKey() *)
AddKey(id, k) ==
    /\ id \in There \ sealed /\ k \notin rows[id].keys
    /\ rows' = [rows EXCEPT ![id].keys = @ \cup {k}]
    /\ pool' = Pooled({k}, id)
    /\ torn' = torn \cup Doubled({k})
    /\ UNCHANGED <<env, nextId, cache, sealed, missing, misread>>

(* Mutant: the key goes on being used. *)
RemoveKeyFromRow(id, k) ==
    /\ id \notin sealed /\ k \in rows[id].keys
    /\ rows' = [rows EXCEPT ![id].keys = @ \ {k}]
    /\ missing' = missing \ {k}
    /\ UNCHANGED <<env, nextId, pool, cache, sealed, torn, misread>>

(* handleRemoveKey() *)
RemoveKey(id, k) ==
    /\ id \notin sealed /\ k \in rows[id].keys
    /\ rows' = [rows EXCEPT ![id].keys = @ \ {k}]
    /\ pool' = Unpool({k})
    /\ missing' = missing \ {k}
    /\ UNCHANGED <<env, nextId, cache, sealed, torn, misread>>

(* handleDelete(): keys that cannot be decrypted are not looked for.        *)
Delete(id) ==
    /\ id \in There
    /\ rows' = [rows EXCEPT ![id] = NoRow]
    /\ pool' = IF id \in sealed THEN pool ELSE Unpool(rows[id].keys)
    /\ missing' = missing \ rows[id].keys
    /\ cache' = [cache EXCEPT ![id] = Unasked]
    /\ sealed' = sealed \ {id} /\ misread' = misread \ {id}
    /\ UNCHANGED <<env, nextId, torn>>

(* Mutant: a change of another field takes the list out of force. *)
PatchWorkspaceAndList(id, ws) ==
    /\ id \in There
    /\ rows' = [rows EXCEPT ![id].ws = ws]
    /\ cache' = [cache EXCEPT ![id] = Unlimited]
    /\ UNCHANGED <<env, nextId, pool, sealed, missing, torn, misread>>

(* handlePatch(): an update of the fields the body has. *)
PatchWorkspace(id, ws) ==
    /\ id \in There
    /\ rows' = [rows EXCEPT ![id].ws = ws]
    /\ UNCHANGED <<env, nextId, pool, cache, sealed, missing, torn, misread>>

(* The list goes to allowedCache when, and only when, the row took it. *)
PatchList(id, list) ==
    /\ id \in There
    /\ rows' = [rows EXCEPT ![id].list = list]
    /\ cache' = [cache EXCEPT ![id] = list]
    /\ misread' = misread \ {id}
    /\ UNCHANGED <<env, nextId, pool, sealed, missing, torn>>

(* allowedModelsOf(), asked by the choice of a key: an account that is not  *)
(* found, or could not be read, has no list, and that is remembered.        *)
AccountGateReads(id) ==
    /\ cache[id] = Unasked /\ \E k \in Keys : pool[k] = id
    /\ \/ cache' = [cache EXCEPT ![id] = rows[id].list] /\ UNCHANGED misread
       \/ cache' = [cache EXCEPT ![id] = Unlimited] /\ misread' = misread \cup {id}
    /\ UNCHANGED <<env, rows, nextId, pool, sealed, missing, torn>>

AccountsEdited ==
    \/ \E keys \in SUBSET Keys, ws \in Workspaces \cup {NoWorkspace} : Create(keys, ws)
    \/ \E id \in Ids :
        \/ Delete(id) \/ AccountGateReads(id)
        \/ \E k \in Keys : AddKey(id, k) \/ RemoveKey(id, k)
        \/ \E list \in AccountLists \cup {Unlimited} : PatchList(id, list)
        \/ \E ws \in Workspaces \cup {NoWorkspace} : PatchWorkspace(id, ws)

AccountsNext == AccountsRestart \/ AccountsEdited

----------------------------------------------------------------------------
(* The pool is what the rows say: a key of a row is in it, for that account *)
(* unless it was there already as a key of the environment; a key of no row,*)
(* or one the start left out, is in it only as one of the environment, and  *)
(* stays so until the panel removes it or another start loads it.  A failed *)
(* statement may leave a key in two rows, or out of the pool (admin.ts:638  *)
(* §3.4, accounts.ts:242 m6, accounts.ts:327).                              *)
PoolIsRows == \A k \in Keys \ torn :
    IF Holders(k) = {} \/ k \in missing
    THEN pool[k] = Unpooled \/ (pool[k] = Nobody /\ k \in env)
    ELSE \E id \in Ids : Holders(k) = {id} /\
            (pool[k] = id \/ (pool[k] = Nobody /\ k \in env))

(* The choice of a key goes by the list of the account's row, whichever     *)
(* field was changed before (comment at accounts.ts:297), unless             *)
(* the list could not be read when it was first needed: then there is none  *)
(* until it is set again, or a restart.                                     *)
ListsInForce == \A id \in Ids \ misread : cache[id] \in {Unasked, rows[id].list}
=============================================================================
