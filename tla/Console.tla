------------------------------ MODULE Console ------------------------------
(***************************************************************************)
(* The console channel of one account (src/console.ts): reads of an         *)
(* endpoint that are cached and share one call upstream, writes that void   *)
(* what was read before, and the choice of the credential: the cookie of    *)
(* the row, unless it was refused, or an access token, which comes from a  *)
(* refresh that all callers share (OauthTokens).  The operator may change   *)
(* the cookie at any time (src/admin.ts, src/server.ts).                    *)
(*                                                                          *)
(* One endpoint stands for all: they share credentials and generations.     *)
(* The workspace of the account is fixed.                                   *)
(***************************************************************************)
EXTENDS OauthTokens

CONSTANTS
    Calls,      \* the calls that may be under way at once
    NoCall,
    Cookies,    \* values of the session cookie
    NoCookie,
    MaxWrites   \* bound: writes the upstream carries out

ASSUME ConsoleAssumption ==
    /\ NoCall \notin Calls
    /\ NoCookie \notin Cookies
    /\ MaxWrites \in Nat

VARIABLES
    cookie,     \* the row's cookie
    data,       \* the writes the upstream has carried out
    cache,      \* the writes the cached answer knows of, or Stale
    leader,     \* inflight: the read that later reads share
    health,     \* ok, or the channel whose credential was refused
    call,       \* per call: see Rest
    acked       \* history: the writes that were acknowledged

consoleVars == <<cookie, data, cache, leader, health, call, acked>>
vars == <<tokenVars, consoleVars>>

Stale == MaxWrites + 1

(* via is the channel, with the call whose answer is shared, old whether    *)
(* the generation has moved on since the call began, floor what had been    *)
(* acknowledged by then.                                                    *)
Rest == [pc |-> "idle", kind |-> "read", old |-> FALSE, via |-> "none",
         cookie |-> NoCookie, token |-> NoToken, with |-> NoCall,
         res |-> "none", data |-> 0, floor |-> 0]

Init ==
    /\ TokensInit
    /\ cookie \in Cookies \cup {NoCookie}
    /\ data = 0 /\ cache = Stale /\ leader = NoCall
    /\ health = "ok"
    /\ call = [c \in Calls |-> Rest]
    /\ acked = 0

HeldByCalls == {call[c].token : c \in Calls}

----------------------------------------------------------------------------
(* invalidate() and noteCredentialChanged() *)

Outdated(calls) == [c \in Calls |-> IF calls[c].pc = "idle" THEN Rest
                                     ELSE [calls[c] EXCEPT !.old = TRUE]]

Invalidate(calls) ==
    /\ cache' = Stale /\ leader' = NoCall
    /\ call' = Outdated(calls)

(* noteCredentialChanged(): what was refused may be tried again. *)
CredentialChanged ==
    /\ health' = "ok" /\ access' = NoToken
    /\ Invalidate(call)
    /\ UNCHANGED <<stored, upstream, job, data, acked>>

(* PATCH /accounts/:id: a cookie, the same one, or none. *)
CookiePasted(v) == cookie' = v /\ CredentialChanged

(* import-cookie, once the browser has given it: the row may have changed   *)
(* while it was asked.                                                      *)
CookieImported(v) == v # NoCookie /\ cookie' = v /\ CredentialChanged

----------------------------------------------------------------------------
(* getCredentials() *)

UsableCookie == cookie # NoCookie /\ health = "ok"

WithCookie(rec) == [rec EXCEPT !.pc = "sent", !.via = "cookie", !.cookie = cookie]
WithToken(rec, t) == [rec EXCEPT !.pc = "sent", !.via = "oauth", !.token = t]

(* Without any credential nothing is sent and nothing changes. *)
Equip(c, rec) ==
    \/ /\ UsableCookie
       /\ call' = [call EXCEPT ![c] = WithCookie(rec)]
       /\ UNCHANGED job
    \/ /\ ~UsableCookie /\ access # NoToken
       /\ call' = [call EXCEPT ![c] = WithToken(rec, access)]
       /\ UNCHANGED job
    \/ /\ ~UsableCookie /\ access = NoToken /\ stored # NoToken
       /\ call' = [call EXCEPT ![c] = [rec EXCEPT !.pc = "refreshing"]]
       /\ job' = IF job["console"].pc = "idle"
                 THEN [job EXCEPT !["console"] = Asking(stored, FALSE)] ELSE job

Ended(S) == [c \in Calls |-> IF c \in S \/ call[c].with \in S THEN Rest ELSE call[c]]
Waiting == {c \in Calls : call[c].pc = "refreshing"}

HealthAfterRefresh == IF job["console"].res = "denied" THEN "oauth" ELSE health

(* doRefresh() ends: all who waited for it go on with its token, or fail. *)
RefreshEnds ==
    \/ /\ ConsoleRefreshed
       /\ health' = "ok"
       /\ call' = [c \in Calls |-> IF c \in Waiting
                     THEN WithToken(call[c], job["console"].new) ELSE call[c]]
       /\ UNCHANGED leader
    \/ /\ ConsoleRefreshFailed
       /\ health' = HealthAfterRefresh
       /\ call' = Ended(Waiting)
       /\ leader' = IF leader \in Waiting THEN NoCall ELSE leader

RefreshEnding == RefreshEnds /\ UNCHANGED <<cookie, data, cache, acked>>

----------------------------------------------------------------------------
(* cachedGet() and postJson() *)

Begun(kind) == [Rest EXCEPT !.kind = kind, !.floor = IF kind = "read" THEN acked ELSE 0]

(* The panel reads nothing of an account that has neither a cookie nor a    *)
(* refresh token, whatever is left in the caches; a refused one may try.    *)
HasCredential == cookie # NoCookie \/ stored # NoToken

(* A read that finds the cache filled changes nothing. *)
ReadAsked(c) == HasCredential /\ call[c].pc = "idle" /\ cache = Stale

ReadLeads(c) ==
    /\ ReadAsked(c) /\ leader = NoCall
    /\ Equip(c, Begun("read"))
    /\ leader' = c
    /\ UNCHANGED <<stored, upstream, access, cookie, data, cache, health, acked>>

ReadFollows(c) ==
    /\ ReadAsked(c) /\ leader # NoCall
    /\ call' = [call EXCEPT ![c] = [Begun("read") EXCEPT !.pc = "following", !.with = leader]]
    /\ UNCHANGED <<tokenVars, cookie, data, cache, leader, health, acked>>

(* A write is tried whatever the row has; without a credential it ends at   *)
(* once (Equip).                                                            *)
WriteAsked(c) == call[c].pc = "idle" /\ data < MaxWrites

WriteBegins(c) ==
    /\ WriteAsked(c)
    /\ Equip(c, Begun("write"))
    /\ UNCHANGED <<stored, upstream, access, cookie, data, cache, leader, health, acked>>

(* What the panel's routes of the channel begin. *)
ConsoleRoute(c) == ReadLeads(c) \/ ReadFollows(c) \/ WriteBegins(c)

(* A cookie is accepted or refused as the upstream likes. *)
MayAccept(c) == call[c].via = "cookie" \/ call[c].token \in live
MayDeny(c) == call[c].via = "cookie" \/ call[c].token \notin live

(* What it was sent with no longer matters, but for a refusal. *)
Answer(c, res, seen) ==
    call' = [call EXCEPT ![c] =
        [call[c] EXCEPT !.pc = "answered", !.res = res, !.data = seen, !.token = NoToken,
                        !.via = IF res = "denied" THEN @ ELSE "none",
                        !.cookie = IF res = "denied" THEN @ ELSE NoCookie]]

CallServed(c) ==
    /\ call[c].pc = "sent" /\ MayAccept(c)
    /\ data' = IF call[c].kind = "write" THEN data + 1 ELSE data
    /\ data' <= MaxWrites
    /\ Answer(c, "ok", data')
    /\ UNCHANGED <<tokenVars, cookie, cache, leader, health, acked>>

CallDenied(c) ==
    /\ call[c].pc = "sent" /\ MayDeny(c)
    /\ Answer(c, "denied", 0)
    /\ UNCHANGED <<tokenVars, cookie, data, cache, leader, health, acked>>

(* A write that failed may have been carried out all the same. *)
CallFails(c) ==
    /\ call[c].pc = "sent"
    /\ Answer(c, "failed", 0)
    /\ \/ UNCHANGED data
       \/ MayAccept(c) /\ call[c].kind = "write" /\ data < MaxWrites /\ data' = data + 1
    /\ UNCHANGED <<tokenVars, cookie, cache, leader, health, acked>>

(* Mutant: the read that is over stays the shared one. *)
LeftIn(c) == leader

Left(c) == IF leader = c THEN NoCall ELSE leader

(* Mutant: whatever the generation. *)
CacheAnyway(c) == cache' = call[c].data

(* Only what was asked for after the last invalidate() is cached. *)
CacheIfCurrent(c) == cache' = IF call[c].old THEN cache ELSE call[c].data

ReadReturns(c) ==
    /\ call[c].kind = "read" /\ call[c].res = "ok"
    /\ health' = "ok"
    /\ CacheIfCurrent(c)
    /\ call' = Ended({c}) /\ leader' = Left(c)
    /\ UNCHANGED <<access, acked>>

Higher(a, b) == IF a > b THEN a ELSE b

WriteReturns(c) ==
    /\ call[c].kind = "write" /\ call[c].res = "ok"
    /\ health' = "ok"
    /\ Invalidate(Ended({c}))
    /\ acked' = Higher(acked, call[c].data)
    /\ UNCHANGED <<access>>

(* A refused access token is forgotten, though not by a write. *)
DeniedReturns(c) ==
    /\ call[c].res = "denied"
    /\ health' = call[c].via
    /\ access' = IF call[c].via = "oauth" /\ call[c].kind = "read" THEN NoToken ELSE access
    /\ call' = Ended({c}) /\ leader' = Left(c)
    /\ UNCHANGED <<cache, acked>>

FailedReturns(c) ==
    /\ call[c].res = "failed"
    /\ call' = Ended({c}) /\ leader' = Left(c)
    /\ UNCHANGED <<access, health, cache, acked>>

Returns(c) ==
    /\ call[c].pc = "answered"
    /\ ReadReturns(c) \/ WriteReturns(c) \/ DeniedReturns(c) \/ FailedReturns(c)
    /\ UNCHANGED <<stored, upstream, job, cookie, data>>

----------------------------------------------------------------------------
(* Time *)

CacheExpires ==
    /\ cache # Stale /\ cache' = Stale
    /\ UNCHANGED <<tokenVars, cookie, data, leader, health, call, acked>>

AccessExpires ==
    /\ access # NoToken /\ access' = NoToken
    /\ UNCHANGED <<stored, upstream, job, consoleVars>>

TokenStep == TokensNext(HeldByCalls) /\ UNCHANGED consoleVars

Next ==
    \/ TokenStep \/ RefreshEnding \/ CacheExpires \/ AccessExpires
    \/ \E v \in Cookies \cup {NoCookie} : CookiePasted(v) \/ CookieImported(v)
    \/ \E c \in Calls :
          \/ ConsoleRoute(c)
          \/ CallServed(c) \/ CallDenied(c) \/ CallFails(c) \/ Returns(c)

Spec == Init /\ [][Next]_vars

----------------------------------------------------------------------------
(* Properties *)

TypeOK ==
    /\ TokensTypeOK
    /\ cookie \in Cookies \cup {NoCookie}
    /\ data \in 0..MaxWrites /\ acked \in 0..MaxWrites /\ cache \in 0..Stale
    /\ health \in {"ok", "cookie", "oauth"}
    /\ leader \in Calls \cup {NoCall}
    /\ call \in [Calls ->
          [pc : {"idle", "refreshing", "sent", "answered", "following"},
           kind : {"read", "write"}, old : BOOLEAN, via : {"none", "cookie", "oauth"},
           cookie : Cookies \cup {NoCookie}, token : Tokens \cup {NoToken},
           with : Calls \cup {NoCall}, res : {"none", "ok", "denied", "failed"},
           data : 0..MaxWrites, floor : 0..MaxWrites]]

(* A read begun after a write was acknowledged never shows what was there   *)
(* before it: not from the cache, and not by sharing a call that is older   *)
(* than the write (generations and inflight, src/console.ts:314).           *)
ReadSeesWrites ==
    /\ cache # Stale => cache >= acked
    /\ \A c, f \in Calls :
          call[c].res = "ok" /\ call[c].kind = "read" /\ (f = c \/ call[f].with = c)
             => call[c].data >= call[f].floor

(* Nobody waits for a refresh or a read that is not under way. *)
NobodyForgotten ==
    /\ \A c \in Calls : call[c].pc = "refreshing" => job["console"].pc # "idle"
    /\ \A c \in Calls : call[c].pc = "following" =>
          call[call[c].with].pc \in {"refreshing", "sent", "answered"}
    /\ leader # NoCall => call[leader].pc \in {"refreshing", "sent", "answered"} /\ ~call[leader].old

(* The channel is given up on a cookie only because that cookie, the one    *)
(* the row has, was refused: a new one is tried (src/console.ts:290).       *)
NewCookieTried ==
    [][health # "cookie" /\ health' = "cookie" =>
         \E c \in Calls : call[c].res = "denied" /\ call[c].cookie = cookie]_vars
=============================================================================
