------------------------------- MODULE Legacy -------------------------------
(***************************************************************************)
(* The channel of the old console (src/legacy.ts, the legacy routes of      *)
(* src/server.ts, their adapter in src/main.ts), for one account: pages of  *)
(* a workspace that are fetched as HTML and cached, for thirty seconds in   *)
(* ttl and, the plain keys, for fifteen minutes in plain; and the writes,   *)
(* which void both.  The operator moves the account to another workspace,   *)
(* changes its credentials or deletes it at any time (src/admin.ts).        *)
(*                                                                          *)
(* What a page says is the number of writes on its topic it has seen.  The   *)
(* credentials are left out: the operator may change them at any time, so   *)
(* that each request finds usable ones or none.                             *)
(***************************************************************************)
EXTENDS Naturals, FiniteSetsExt

CONSTANTS
    LegacyWorkspaces,
    NoLegacyWorkspace, Gone,
    Handlers,     \* the requests of the panel that may be under way at once
    Pages,        \* the kinds of ttl: keys, go, billing
    MaxChanges    \* bound: writes the old console carries out

ASSUME LegacyAssumption ==
    /\ LegacyWorkspaces \cap {NoLegacyWorkspace, Gone} = {} /\ Gone # NoLegacyWorkspace
    /\ {"keys", "go"} \subseteq Pages /\ Pages \subseteq {"keys", "go", "billing"}
    /\ MaxChanges \in Nat

Reads  == Pages \cup {"plain"}
Writes == {"change", "toggle"}               \* of the keys; of the go page
Topic(kind) == CASE kind \in {"keys", "plain", "change"} -> "keys"
                 [] kind \in {"go", "toggle"} -> "go"
                 [] kind = "billing" -> "billing"

VARIABLES
    linked,   \* the workspace of the account, if it has one and is there
    page,     \* the old console: the writes on each topic of each workspace
    ttl,      \* LegacyTtlCache
    plain,    \* LegacyPlainCache
    handler,  \* the requests of the panel
    acknowledged, \* history: the writes that were acknowledged
    quiet     \* history: no fetch of the topic was under way at the last of them

legacyVars == <<linked, page, ttl, plain, handler, acknowledged, quiet>>

None == [ws |-> NoLegacyWorkspace, from |-> NoLegacyWorkspace, seen |-> 0]
NotBusy == [pc |-> "idle", kind |-> "keys", ws |-> NoLegacyWorkspace, res |-> "none", seen |-> 0]

(* A go page whose windows came by the API key and whose switches could not *)
(* be read: both are shown as off.                                          *)
Blank == MaxChanges + 1

Zero == [w \in LegacyWorkspaces |-> [t \in Pages |-> 0]]

LegacyInit ==
    /\ linked \in LegacyWorkspaces \cup {NoLegacyWorkspace}
    /\ page = Zero /\ acknowledged = Zero
    /\ ttl = [k \in Pages |-> None] /\ plain = None
    /\ handler = [h \in Handlers |-> NotBusy]
    /\ quiet = [w \in LegacyWorkspaces |-> [t \in Pages |-> TRUE]]

----------------------------------------------------------------------------
(* PATCH and DELETE of the account; neither looks at the caches. *)

PatchAccount ==
    /\ linked # Gone
    /\ linked' \in LegacyWorkspaces \cup {NoLegacyWorkspace}
    /\ UNCHANGED <<page, ttl, plain, handler, acknowledged, quiet>>

DeleteAccount ==
    /\ linked' = Gone
    /\ UNCHANGED <<page, ttl, plain, handler, acknowledged, quiet>>

----------------------------------------------------------------------------
(* Entry of a handler *)

(* legacyGuard() finds the account gone, and clears what is left of it. *)
GuardClears ==
    /\ linked = Gone
    /\ ttl' = [k \in Pages |-> None] /\ plain' = None
    /\ UNCHANGED <<linked, page, handler, acknowledged, quiet>>

Ready(h) == handler[h].pc = "idle" /\ linked \in LegacyWorkspaces

Ask(h, kind) ==
    handler' = [handler EXCEPT ![h] =
                  [NotBusy EXCEPT !.pc = "asked", !.kind = kind, !.ws = linked]]

(* LegacyTtlCache.get(): a hit answers at once and changes nothing; an entry *)
(* of another workspace is a miss and is dropped.                           *)
ReadPage(h, k) ==
    /\ Ready(h) /\ ttl[k].ws # linked
    /\ ttl' = [ttl EXCEPT ![k] = None]
    /\ Ask(h, k)
    /\ UNCHANGED <<linked, page, plain, acknowledged, quiet>>

ReadPlain(h) ==
    /\ Ready(h) /\ plain.ws # linked
    /\ Ask(h, "plain")
    /\ UNCHANGED <<linked, page, ttl, plain, acknowledged, quiet>>

Write(h, kind) ==
    /\ Ready(h)
    /\ Ask(h, kind)
    /\ UNCHANGED <<linked, page, ttl, plain, acknowledged, quiet>>

(* A key is created or deleted; a switch of the go page is turned. *)
ChangeKeys(h) == Write(h, "change")
TurnSwitch(h) == Write(h, "toggle")

(* The list of keys, or a change of it, is wanted and no cookie is of use:  *)
(* the plain keys are cleared and nothing is sent.                          *)
NoCookieLeft(h) ==
    /\ Ready(h)
    /\ plain' = None
    /\ \/ UNCHANGED ttl
       \/ ttl["keys"].ws # linked /\ ttl' = [ttl EXCEPT !["keys"] = None]
    /\ UNCHANGED <<linked, page, handler, acknowledged, quiet>>

----------------------------------------------------------------------------
(* The old console, and what comes back of it *)

Settle(h, res, seen) ==
    handler' = [handler EXCEPT ![h].pc = "answered", ![h].res = res, ![h].seen = seen]

(* A read is answered with the page as it is now ... *)
Shows(h, kinds, t) ==
    handler[h].kind \in kinds /\ Settle(h, "ok", page[handler[h].ws][t])

KeysRead(h)    == Shows(h, {"keys", "plain"}, "keys")
GoRead(h)      == Shows(h, {"go"}, "go")
BillingRead(h) == Shows(h, {"billing"}, "billing")

(* ... or, of a go page, with the windows alone, by the API key where the   *)
(* cookie gives no switches ...                                             *)
WindowsRead(h) == handler[h].kind = "go" /\ Settle(h, "ok", Blank)

(* ... or it fails: refused, another status, a timeout, another page.       *)
ServeRead(h) ==
    /\ handler[h].pc = "asked" /\ handler[h].kind \in Reads
    /\ \/ KeysRead(h) \/ GoRead(h) \/ BillingRead(h)
       \/ WindowsRead(h)
       \/ Settle(h, "failed", 0)
    /\ UNCHANGED <<linked, page, ttl, plain, acknowledged, quiet>>

Carried == MapThenSumSet(LAMBDA w : MapThenSumSet(LAMBDA t : page[w][t], Pages),
                         LegacyWorkspaces)

(* A write is carried out, even if its answer is lost, or it is refused. *)
CarriedOut(h, kind, t) ==
    LET me == handler[h] IN
    /\ me.kind = kind /\ Carried < MaxChanges
    /\ page' = [page EXCEPT ![me.ws][t] = @ + 1]
    /\ \E res \in {"ok", "failed"} : Settle(h, res, page[me.ws][t] + 1)

KeysChanged(h)  == CarriedOut(h, "change", "keys")
SwitchTurned(h) == CarriedOut(h, "toggle", "go")

ServeWrite(h) ==
    /\ handler[h].pc = "asked" /\ handler[h].kind \in Writes
    /\ \/ KeysChanged(h) \/ SwitchTurned(h)
       \/ Settle(h, "failed", 0) /\ UNCHANGED page
    /\ UNCHANGED <<linked, ttl, plain, acknowledged, quiet>>

----------------------------------------------------------------------------
(* The end of a handler *)

Entry(me) == [ws |-> me.ws, from |-> me.ws, seen |-> me.seen]

HasAnswer(h, kinds) == handler[h].pc = "answered" /\ handler[h].kind \in kinds
Released(h) == handler' = [handler EXCEPT ![h] = NotBusy]

(* Mutant: ... with the workspace the account has now. *)
CachePageOfRow(me) ==
    ttl' = [ttl EXCEPT ![me.kind] =
              IF linked \in LegacyWorkspaces
              THEN [Entry(me) EXCEPT !.ws = linked] ELSE Entry(me)]

(* A page that could be read is cached, with the workspace it was asked of. *)
CachePage(me) == ttl' = [ttl EXCEPT ![me.kind] = Entry(me)]

PageReturns(h) ==
    LET me == handler[h] IN
    /\ HasAnswer(h, Pages) /\ Released(h)
    /\ IF me.res = "ok" THEN CachePage(me) ELSE UNCHANGED ttl
    /\ plain' = IF me.res = "ok" /\ me.kind = "keys" THEN Entry(me) ELSE plain
    /\ UNCHANGED <<linked, page, acknowledged, quiet>>

PlainReturns(h) ==
    LET me == handler[h] IN
    /\ HasAnswer(h, {"plain"}) /\ Released(h)
    /\ plain' = IF me.res = "ok" THEN Entry(me) ELSE None
    /\ UNCHANGED <<linked, page, ttl, acknowledged, quiet>>

(* Mutant: the pages live on to the end of their time. *)
VoidPlainOnly(me) ==
    /\ UNCHANGED ttl
    /\ plain' = IF me.kind = "change" THEN None ELSE plain

(* A write that succeeded voids what was read before: all of ttl, and the   *)
(* plain keys if it changed them.                                           *)
VoidAfter(me) ==
    /\ ttl' = [k \in Pages |-> None]
    /\ plain' = IF me.kind = "change" THEN None ELSE plain

Fetching(w, t) == \E g \in Handlers :
    /\ handler[g].pc # "idle" /\ handler[g].kind \in Reads
    /\ handler[g].ws = w /\ Topic(handler[g].kind) = t

PostReturns(h) ==
    LET me == handler[h]
        t  == Topic(me.kind) IN
    /\ HasAnswer(h, Writes) /\ Released(h)
    /\ IF me.res = "ok"
       THEN /\ VoidAfter(me)
            /\ acknowledged' = [acknowledged EXCEPT ![me.ws][t] = IF me.seen > @ THEN me.seen ELSE @]
            /\ quiet' = [quiet EXCEPT ![me.ws][t] = ~Fetching(me.ws, t)]
       ELSE UNCHANGED <<ttl, plain, acknowledged, quiet>>
    /\ UNCHANGED <<linked, page>>

(* An entry is too old, or one too many. *)
PageExpires(k) ==
    /\ ttl[k] # None /\ ttl' = [ttl EXCEPT ![k] = None]
    /\ UNCHANGED <<linked, page, plain, handler, acknowledged, quiet>>
PlainExpires ==
    /\ plain # None /\ plain' = None
    /\ UNCHANGED <<linked, page, ttl, handler, acknowledged, quiet>>

LegacyNext ==
    \/ PatchAccount \/ DeleteAccount \/ GuardClears
    \/ PlainExpires \/ \E k \in Pages : PageExpires(k)
    \/ \E h \in Handlers :
         \/ \E k \in Pages : ReadPage(h, k)
         \/ ChangeKeys(h) \/ TurnSwitch(h)
         \/ ReadPlain(h) \/ NoCookieLeft(h) \/ ServeRead(h) \/ ServeWrite(h)
         \/ PageReturns(h) \/ PlainReturns(h) \/ PostReturns(h)

LegacySpec == LegacyInit /\ [][LegacyNext]_legacyVars

Entries == {ttl[k] : k \in Pages} \cup {plain}

(* An entry that can still be served is what its own workspace said, and    *)
(* not what the one before said when the account was moved while the fetch   *)
(* was under way (LegacyTtlEntry.ws, LegacyPlainCache.get).                  *)
OwnWorkspace == \A e \in Entries : e.ws = e.from

Covers(e, t) ==
    (e # None /\ quiet[e.ws][t]) => e.seen = Blank \/ e.seen >= acknowledged[e.ws][t]

(* No cache answers with the state before an acknowledged write, unless a    *)
(* fetch of that topic was under way when it was acknowledged: then what it  *)
(* brings is cached over the cleared entry, for the whole of its time        *)
(* (runLegacyWrite clears, the handlers set without looking back).  A go     *)
(* page whose switches could not be read says nothing of the writes.         *)
NoStalePage == Covers(plain, "keys") /\ \A k \in Pages : Covers(ttl[k], Topic(k))

(* Both: what the operator is shown is the account's own, and true. *)
PagesTrue == OwnWorkspace /\ NoStalePage

(* A comment of src/main.ts says that clearing the plain keys after a        *)
(* deletion keeps a deleted key from being given out.                        *)
NoDeletedKey == plain # None => plain.seen >= acknowledged[plain.ws]["keys"]
=============================================================================
