---------------------------- MODULE ModelAccess ----------------------------
(***************************************************************************)
(* Which models an upstream key may serve: its row of the model_access      *)
(* table, the cache the request path reads it through (src/modelaccess.ts), *)
(* the key itself coming and going (src/admin.ts), and the PUT that checks  *)
(* that the key exists, waits for its body, and then writes (src/server.ts).*)
(*                                                                          *)
(* A key stands for its hash.  Adding and removing one is a single turn of  *)
(* the event loop, pool and database together.  Each write and each query   *)
(* may fail; a write that fails changes nothing.                            *)
(***************************************************************************)
CONSTANTS
    UpstreamKeys,       \* upstream keys
    Lists,      \* lists of models a key, or the gateway, may be limited to
    NoList,     \* no row: the key follows the gateway's list
    Unread      \* no entry in the cache

VARIABLES
    inPool,     \* the keys there are
    owned,      \* the keys some account has
    row,        \* per key: its row
    cached,     \* per key: its entry in the cache
    put,        \* per key, a PUT past its check: "none", "open", or
                \* "overtaken" if the key was removed meanwhile
    orphans     \* history: keys whose row may outlive them

accessVars == <<inPool, owned, row, cached, put, orphans>>

AccessInit ==
    /\ inPool \in SUBSET UpstreamKeys     \* of the environment, which may seed an account
    /\ owned \in {{}, inPool}
    /\ row = [k \in UpstreamKeys |-> NoList]
    /\ cached = [k \in UpstreamKeys |-> Unread]
    /\ put = [k \in UpstreamKeys |-> "none"]
    /\ orphans = {}

(* setCustom(): a write that succeeds empties the whole cache. *)
SetCustom(k, list) ==
    /\ row' = [row EXCEPT ![k] = list]
    /\ cached' = [key \in UpstreamKeys |-> Unread]

(* Mutant: a failed query counts as no row, and is remembered. *)
ReadOrAssume(k) ==
    IF cached[k] # Unread THEN {cached} ELSE {[cached EXCEPT ![k] = l] : l \in {row[k], NoList}}

(* getCustom(): what is found is cached, that there is no row included; a   *)
(* query that fails is not.                                                 *)
GetCustom(k) ==
    IF cached[k] # Unread THEN {cached} ELSE {[cached EXCEPT ![k] = row[k]], cached}

(* The gate of a request asks about a key of the pool. *)
GateReads(k) ==
    /\ k \in inPool
    /\ cached' \in GetCustom(k)
    /\ UNCHANGED <<inPool, owned, row, put, orphans>>

(* handleAddKey(), handleCreate(): an account has the key, and so has the   *)
(* pool, unless a new account's row could not be read back.                 *)
KeyAdded(k) ==
    /\ owned' = owned \cup {k}
    /\ inPool' \in {inPool, inPool \cup {k}}
    /\ UNCHANGED <<row, cached, put, orphans>>

OvertakePut(k) == put' = [put EXCEPT ![k] = IF @ = "open" THEN "overtaken" ELSE @]

(* An account loses the key, and so does the pool, also when a failed query *)
(* let a second account have it.                                            *)
Disowned(k) ==
    /\ k \in owned
    /\ owned' \in {owned, owned \ {k}}
    /\ inPool' = inPool \ {k}
    /\ OvertakePut(k)

(* Mutant: the row stays. *)
KeyRemovedAlone(k) ==
    /\ Disowned(k)
    /\ UNCHANGED <<row, cached, orphans>>

(* handleRemoveKey(), handleDelete(): the row goes with the key, if the     *)
(* database takes it.                                                       *)
KeyRemoved(k) ==
    /\ Disowned(k)
    /\ \/ /\ SetCustom(k, NoList)
          /\ orphans' = orphans \ {k}
       \/ /\ orphans' = orphans \cup {k}
          /\ UNCHANGED <<row, cached>>

(* handlePutModelAccessKey(): only for a key that exists ... *)
PutChecked(k) ==
    /\ k \in inPool
    /\ put[k] = "none"
    /\ put' = [put EXCEPT ![k] = "open"]
    /\ UNCHANGED <<inPool, owned, row, cached, orphans>>

(* ... but written when the body has come: an empty list deletes the row. *)
PutWritten(k, list) ==
    /\ put[k] # "none"
    /\ put' = [put EXCEPT ![k] = "none"]
    /\ SetCustom(k, list)
    /\ orphans' = IF list = NoList THEN orphans \ {k}
                  ELSE IF put[k] = "overtaken" THEN orphans \cup {k} ELSE orphans
    /\ UNCHANGED <<inPool, owned>>

(* A body that is refused or never comes, a write that fails. *)
PutAbandoned(k) ==
    /\ put[k] # "none"
    /\ put' = [put EXCEPT ![k] = "none"]
    /\ UNCHANGED <<inPool, owned, row, cached, orphans>>

AccessNext ==
    \E k \in UpstreamKeys :
        \/ GateReads(k) \/ KeyAdded(k) \/ KeyRemoved(k) \/ PutChecked(k) \/ PutAbandoned(k)
        \/ \E list \in Lists \cup {NoList} : PutWritten(k, list)

(* A new process: the cache is empty, and the pool has the keys of the      *)
(* environment, which may be another, and those of the accounts that could  *)
(* be read; the environment seeds an account where there is none.  The rows *)
(* of the keys that are gone stay.                                          *)
AccessRestart ==
    /\ \E named \in SUBSET UpstreamKeys, loaded \in SUBSET owned :
        /\ inPool' = named \cup loaded
        /\ owned' \in {owned} \cup (IF owned = {} THEN {named} ELSE {})
    /\ orphans' = orphans \cup {k \in inPool \ inPool' : row[k] # NoList}
    /\ cached' = [k \in UpstreamKeys |-> Unread]
    /\ put' = [k \in UpstreamKeys |-> "none"]
    /\ UNCHANGED row

(* The gate never decides by a list the table does not hold: not after a    *)
(* write, not after a query that failed, not after a key's return           *)
(* (modelaccess.ts:77 "not cached").                                        *)
GateSeesRow == \A k \in UpstreamKeys : cached[k] \in {Unread, row[k]}

(* No key starts under the list of its previous life ("D-P2-3",             *)
(* admin.ts:706) once the panel has removed it: a row whose key is gone was *)
(* written by a PUT that the removal overtook, or its deletion failed, or   *)
(* it is a restart that did without the key (main.ts:125), because the      *)
(* environment no longer names it or its account could not be read.         *)
RowsOwned == \A k \in UpstreamKeys : row[k] # NoList /\ k \notin inPool => k \in orphans
=============================================================================
