# Specifications of fuckopencode

fuckopencode is a gateway in one Node process. It speaks the OpenAI and the
Anthropic protocol to its clients and forwards what they ask to DeepSeek /
opencode upstreams over a pool of API keys, with an admin panel, distributed
tokens with quotas, usage statistics, and a self-update with roll-back. This
directory holds TLA+ models of the parts of it that keep state, configurations
that TLC checks on small instances, and proofs checked by TLAPS.

Paths below are relative to the repository; `keypool.ts` is `src/keypool.ts`
and so on. PROJECT.json relates every definition to the lines it models.

    tlc -workers 2 -config MCKeyPool.cfg MCKeyPool.tla      a run
    tlapm KeyPool_proofs.tla                                the proofs of a module

## 1. The system

### 1.1 What runs concurrently

All TypeScript code shares one event loop: a handler runs alone from one
`await` to the next, and everything may happen between two of them. What
interleaves is therefore

  - requests with each other, each suspended at its upstream call;
  - the events of one request: headers, chunks, timers (header, idle, total),
    the client's disconnection, `finish` and `close` of the response;
  - background tasks: key and account probes, usage flush, console refresh, the
    health timer, an update;
  - the panel's operator, whose page polls without waiting for its last poll;
  - and, outside the process, systemd with the roll-back guard, `deploy.sh`,
    a second process during a deployment, the threads of the edge shield, and a
    kill of the process or of the machine at any moment.

In the models one action is one such uninterrupted piece of code. A step that
is not atomic outside the process (two `rename`s, a shell script) is an action
for the whole and further actions for its interrupted and failing forms.

### 1.2 Components

| Component | State | Operations | Hard to test | What makes it correct |
|---|---|---|---|---|
| **Upstream key pool** (`keypool.ts`, `main.ts` diskStore, key routes of `admin.ts`) | keys with deadline, reason, load; file `pool-disabled.json`; account rows | acquire, release, markFailure, disable, reset, addKey, removeKey, restore, reap | reports in any order and long after the call; restart between two of them; memory and file diverging; a key removed while in use | a cooldown is not cut short and survives a restart; what the operator disables stays off; loads are given back |
| **Failure classification** (`errors.ts`) | none | status and body to a class | classes chosen by different branches | a class does to the key what it should |
| **Circuit breaker** (`upstream.ts`) | state, failure count, two deadlines | shouldReject, recordFailure, recordSuccess | late reports; a probe that never reports | opens on a full run of failures only; never stuck |
| **Upstream call and proxy handlers** (`server.ts`, `upstream.ts`, `sse.ts`) | per request: phase, key, attempt; shared: concurrency count, loads, breaker | entry gates, call, retry, error exit, stream, release | a dozen exits; aborts at any await; `finish` and `close` both firing | each exit gives back what it holds, once; a retry goes elsewhere; every request ends |
| **Tokens and quotas** (`tokens.ts`, `security/auth.ts`) | row per token; ten-second snapshot | verify, quotaCheck, settleQuota, create, update, delete | check before, charge after; snapshot beside the row; windows that roll | the overrun of concurrent requests is bounded; the snapshot is the row; quota comes back |
| **Rate limits** (`ratelimit.ts`, gates of `server.ts`) | ring of 60 one-second buckets per key; a fixed minute of tokens | check, prune, add; the order of the gates | ring laps, lazy emptying, pruning; turns of the minute; one caller's refusals charged to all | no window exceeds the limit; the retry hint is true; who has a limit cannot shut out the others |
| **Self-update and roll-back guard** (`ota.ts`, `ota-guard.ts`, `main.ts`, `rollback-guard.sh`, `deploy.sh`, `install.sh`) | `dist`, `dist.prev`, start counter, health marker, lock file; `.ota-tmp`, cached tag list | check, fetch, verify, replaceDist, confirmHealth, guard at each start, deploy, roll back | a kill between two file operations; failing renames; three programs on the same files; mirrors that lie or lag | only what was published is installed; a version to start is always left; no roll-back without cause, no bad version for ever |
| **Key and account probes** (`keyprobe.ts`) | the round under way; status and next time per account | timer, candidates, ask each key, verdict | a probe that overlaps requests, operators and the next round; a round that throws | an idle account is probed again and again |
| **OAuth** (`oauth.ts`, `console.ts`, `keyprobe.ts`) | device sessions, stored refresh token | start, poll, refresh, persist | two refreshers rotate one token; polls overlap; a deletion between two awaits | the stored refresh token is the live one; a sign-in that was granted is not lost |
| **Accounts and secrets** (`accounts.ts`, `secrets.ts`) | rows, pool, cache of lists | CRUD of accounts and keys | one statement of several fails; memory and rows part | the pool is what the rows say |
| **Model access and aliases** (`modelaccess.ts`, `modelmap.ts`) | a list per key, its cache; aliases | read, PUT, key removal | a PUT that waits for its body while the key goes; a failed read that is remembered | the gate decides by the row; no key inherits a list |
| **Usage database** (`usagedb.ts`, `metrics.ts`) | queue, rows, totals, caches | record, flush, prune, query, close, migrate | flush beside records, at shutdown and on errors; two processes on one file | no row written twice; batches share one fate; totals are the rows |
| **Settings** (`settings.ts`, `config.ts`) | stored values over environment | load, patch, reset | hot change, restart, two handlers for one value | what runs is what a restart would load |
| **Shutdown** (`shutdown.ts`) | exited flag | signal, close, deadline | close callback against the deadline | the queue is flushed after the last writer |
| **Admin panel and sessions** (`admin.ts`, `server.ts`, `dashboard.ts`) | revoked list, its file | login, logout, expiry | a capped list; a file that cannot be read or written | a session that was ended stays ended |
| **Console channel** (`console.ts`) | access token, cache, shared reads, generations | read, write, refresh | sharing a call older than a write; a late refusal | no read shows what was before a write; nobody waits for nothing |
| **Old console** (`legacy.ts`, routes of `server.ts`) | two caches, credentials | pages, plain keys, writes | the account moves while a page is fetched | a page shown is the account's own, and true |
| **Protocol conversion** (`toAnthropic.ts`, `deepseek.ts`, `dsml.ts`, `toOpenAI.ts`, ...) | per-stream state | chunk to events | any sequence of chunks | blocks open and close in order; nothing is lost |
| **Edge shield** (`scripts/dwgx/kiro_shield.py`) | slots, per request budgets, head sent | retry by verdict, keep-alive head, relay | verdicts that mix, budgets changed meanwhile, clients that leave | effort is bounded; one answer per request, with a head |
| **Validation and screening** (`security/validate.ts`, `security/injection.ts`) | none | body to verdict | | |
| **Cookies, entry point, build scripts** | | | | |

How they interact: a request passes breaker, concurrency gate, authentication
(verify), quota, token rate, address list, request rates, body and model checks
in that order; then `postUpstreamChat` acquires a key, and reports to the
breaker; the handler reports to the pool, releases, and its `finally` settles
the quota and records usage. Probes report to the same pool, and refresh the
same OAuth token as the console channel and a sign-in. The panel writes account
rows, pool and file; tokens; settings; lists. The update writes what the guard
reads at the next start. The shield stands before all of it, as a program of its
own.

## 2. Modules

| Module | Models | Checked in |
|---|---|---|
| `KeyPool` | the pool with its file, the account rows, restarts | `MCKeyPool` |
| `ProbeRound` | the prober's timer, rounds and verdicts | `MCKeyPool` |
| `Breaker` | the breaker as functions on a record, shared by the next two | |
| `CircuitBreaker` | the breaker with calls that report in any order | `MCGates` |
| `Gateway` | requests, `Breaker`, concurrency gate and a reduced pool, composed | `MCGateway`, `MCGatewayMessagesCut` |
| `TokenQuota` | one token: row, snapshot, requests, operator | `MCGates`, `MCTokenQuotaCycle` |
| `RateLimit` | the sliding window of one key, and a client that obeys its hints | `MCGates` |
| `Gates` | the gates in their order, windows and token minutes of several callers | `MCGates` |
| `OtaGuard` | update, guard, systemd, deploy.sh on shared files | `MCOta` |
| `OtaFetch` | the check, and a package from mirrors up to `dist` | `MCOta` |
| `UsageLog` | abstract: rows wait, are written or are lost together | |
| `UsageDb` | queue, flush, totals, caches, prune, restart, close; implements `UsageLog` | `MCDatabase` |
| `Schema` | the migration of one file by two processes | `MCDatabase`, `MCSchemaColumn` |
| `OauthTokens` | a rotating refresh token and its three users | `MCConsole` |
| `Console` | the console channel; extends `OauthTokens` | `MCConsole` |
| `Accounts` | account rows, the pool they feed, the cache of lists | `MCPanel` |
| `DeviceLogin` | the device flow; extends `Accounts` | `MCPanel` |
| `AdminSessions` | signed cookies and the list of those logged out | `MCPanel` |
| `ModelAccess` | a key's list, its cache, the PUT | `MCPanel` |
| `Panel` | settings and aliases; extends the previous two | `MCPanel` |
| `Legacy` | pages and writes of the old console | `MCPanel` |
| `AnthropicEvents` | a client that assembles a streamed message | |
| `StreamBlocks` | OpenAI chunks to Anthropic events; extends it | `MCWire` |
| `Shield` | the edge shield | `MCWire`, `MCShieldHead` |
| `KeyPool_proofs` | theorems about `KeyPool` | |
| `Gateway_proofs` | about `Gateway`, `CircuitBreaker` and `Shield` | |
| `Gates_proofs` | about `TokenQuota`, `RateLimit` and `Gates` | |
| `OtaGuard_proofs` | about `OtaGuard` and `OtaFetch` | |
| `UsageDb_proofs` | about `UsageDb`, its refinement of `UsageLog`, and `Schema` | |
| `Console_proofs` | about `OauthTokens` and `Console` | |
| `Panel_proofs` | about `Panel`, `AdminSessions`, `ModelAccess`, `Accounts`, `DeviceLogin` and `Legacy` | |
| `SumTheorems` | lemmas about sums over finite sets, used by three of them | |

Conventions. *Time* is kept as what is left of a deadline (or what has passed
since an event), counted down by a tick, where the code compares an absolute
deadline with `Date.now()`; no clock has to be bounded then, and deadlines of any
length are covered by the proofs. *History variables* (marked so) exist only for
properties and guard no action. Definitions that begin with "Mutant:" are
plausible bugs, used to check that each property would notice; no specification
uses them. A run's module may hold several components that share no state: a
variable `focus`, fixed at the start, says which one a behaviour is about while
the others rest, so the state space is the sum and not the product of the parts.
Each component's own `Init`, `Next` and specification have no `focus`; the
theorems are about those.

### 2.1 KeyPool

`mem[k]` is `disabledUntil` and `disabledReason`, `disk[k]` the file's entry,
`inFlight[k]` the load, `rows` the account rows. `holder` says which call holds
which key; the code has no such table, only the local variable of each handler.
Each action is one method with everything it does: `Acquire` begins with
`reapRecovered()` whether or not it then throws; `RemoveKey` is the panel's
route, that is, row, pool entry and file entry. `MarkFailure` is tied to no
holder, since probes and requests that have long released their key also report.
`Crash` and `Start` may come at any point; `Start` restores from the file as the
constructor does. The environment of a start comes from `EnvChoices`.

Abstracted: the choice among the least loaded (the code takes the one least
recently used; the model any), the account of a key, the model filter (any set
of keys), the durations (any values that the assumption admits).

### 2.2 ProbeRound

`TimerTicks` is the interval's callback with its `running` flag and the choice
of candidates; `AskKey` and `KeyAnswers` are the two sides of the one await of a
round, `SkipManual` the branch of a key disabled by hand, `Conclude` the verdict
and the time it sets, `RoundThrows` the way through `catch` and `finally`. The
code's `lastUsedAt` is `fresh`; `traffic` is its history twin that only clients
set. `RetryAfter` is the table of `classifyAccountError()`: the state an error
means and the time until the account is asked again; an account that is asked by
its session has two times of its own (`RetryTimes`). The row keeps only that the
account is failing; no property tells the states apart.

### 2.3 Breaker, CircuitBreaker

The four functions of `upstream.ts` on the record `circuit`. In `CircuitBreaker`
a call that has been let in may report a failure, a success or nothing, at any
time later. `Vanish` is every way to end without a report: a later gate, an
empty pool, a client that left.

### 2.4 Gateway

One action per turn of the event loop of a handler:

| Action | Code |
|---|---|
| `Arrive` | the dispatcher up to the concurrency gate; the breaker may spend its probe on a request that the gate then turns away |
| `Refuse` | any later gate says no |
| `FirstCall` (`ChatFirstCall`, `MessagesFirstCall`) | `postUpstreamChat` up to its fetch; `acquire()` may throw |
| `FetchResolves`, `FetchThrows` | headers, or network error, timer, abort |
| `ChatRetry` | the first answer was an error: report, release, and call again on another key, in one turn |
| `ChatError`, `MessagesError` | the error exits; the one of chat is shared by both attempts and treats them differently |
| `BodyEnds` | the body is read to its end, or ends by timer, reset, dirty line or abort |
| `ClientLeaves` | `close` of the response at any await |
| `Finish` | the response is written out and the handler has returned |
| `Recover`, `Tick` | cooldowns, model blocks and the breaker's periods run out |

An error's body has been read (`ErrorBodyRead`) before any of the three error
actions decides what to do with it. `released` is the flag of `releaseOnce`; `slot` the one of the entry gate.
`IsUpstreamWatchdog` is translated as it stands: it asks whether the handler's
own controller is aborted while the response is intact, and that controller is
aborted by the response's `close` alone.

Abstracted: bodies and conversion (a body is one of the ways it may end), the
deadlines of cooldowns (`KeyPool` has them), the gates between concurrency and
call (`Gates`, `TokenQuota`), one model and one account per key.

### 2.5 TokenQuota, RateLimit, Gates

The three quotas of a token are independent columns treated alike; `TokenQuota`
has one. `Admit` is `verify()` and `quotaCheck()` of a request, in one turn and
therefore on one row; `Settle` is the `UPDATE` of `settleQuota()` and the
invalidation of the snapshot. `CreateToken` and `PatchToken` take what the panel's
routes let through (`QuotaInputs`): an edit of the limit, the cycle, the expiry or
the status writes the row and drops the snapshot in one turn. `SettleFails` and `Restart` lose a settlement, as
the code does. A cost may be anything in `Costs`, zero included.

In `RateLimit` the ring is modelled slot by slot with the lazy emptying of the
code, not as a list of times: that the ring equals such a list is what
`WindowExact` says; sums over the ring are taken with the community modules'
`SumFunctionOnSet`. A client (`CheckClient`) shares the key with others
(`CheckOther`) and obeys the hint it is given. Ages stop at `Buckets`.

`Gates` takes that equality as given and has several callers: `Arrive` is the
whole row of gates in one turn (token minute, the token's own window, the window
of all), with what each has counted when a later one refuses; `Leave` is the
`finally`, which adds the tokens used to the natural minute in which the request
*ends*. `RpmRefuses` is the order: own window first.

### 2.6 OtaGuard, OtaFetch

A version is a number, 0 a missing directory. `Boot` is `ExecStartPre` (the
whole guard script) and `ExecStart`; the script's three outcomes are
`GuardPasses`, `GuardForgives` and `GuardRollsBack`. `performUpdate` waits twice
(`TagsArrive`, then `Replace`), and everything else may happen in between;
`replaceDist` has a whole, a failing and an interrupted form, as has the guard.
`Disturbances` chooses what happens besides: `kill`, failing file operations
(`io`), `deploy`. The history variable `disturbed` records which have occurred,
so that each property can say what it withstands, and all hold in one run.

`OtaFetch` is the same update from the side of the network: three jobs
(background check, the panel's check, the update) ask mirrors in turn for tags
and package, `github.com` alone for the checksum; a file is one build of one
version, half a file, or a mixture of two; a build may be published again while
it is fetched; a kill may come at any point. Its last step is `OtaGuard`'s
`Replace`.

### 2.7 UsageLog, UsageDb, Schema

`UsageLog` is the promise in twenty lines: a finished request waits; those that
wait are postponed, written or lost together; what was written leaves the table
only by age. `UsageDb` has the queue with its retries, the timer, the flush by a
reader, by a full queue and by `close()`, the transaction with the totals, the
prune, the caches of the panel's views, the signal and its deadline, and the
kill. `Log` is its `INSTANCE` of `UsageLog`, with `waiting` the queue and `kept`
the table.

`Schema` is the constructor and `migrate()` of two processes on one file: which
tables and columns are there at first is free, every statement may be refused,
and the other process may add the column between the look and the `ALTER`.

### 2.8 OauthTokens, Console

`OauthTokens` has the row's refresh token, the tokens the upstream accepts, and a
job per refresher; every refresh kills the token it used. A lost answer kills it
for good, and so does a row write that the database refuses: `setOauthRefresh` then
answers false, which neither `doRefresh` nor the probe looks at (`RowWritten`). `dead`
remembers both. `Console` adds what the channel does with
it: a call chooses cookie or access token (`Equip`), reads share the call
under way (`leader`) and a cache, a write moves the generation on, so that calls
begun before it (`old`) do not fill the cache. `ConsoleRoute` is what the panel's
routes ask of it (`ReadAsked`, `WriteAsked`). The operator may import a cookie
(`CookieImported`) or sign in anew at any await; either one changes the credential
and moves the generation on (`CredentialChanged`). One endpoint stands for all, and the account's
workspace is fixed.

### 2.9 Accounts, DeviceLogin

Every handler of the panel that changes accounts is one action on `rows`, `pool`
and `cache`, with a form in which each of its statements fails. A restart rebuilds
the pool as `main()` does (`Started`): from the keys of the environment, which may
be another at every start (`env`), and from those of the rows, of which the start
may find all or, if the table cannot be read, the database is off or there is no
secret to decrypt with, none (`Loads`). Single rows that cannot be decrypted are
`sealed` for the life of the process: their keys stay in the table, out of the
pool, and the handlers that need them refuse. `missing` are the keys of rows that
the last start left out. `DeviceLogin` is a start, which counts sessions and those under way,
and a poll in four turns: the exchange or the refresh, the organisations, the
write. Two polls of one session overlap; the session may be dropped while a poll
holds it; a token is the number of its turn.

### 2.10 Panel, AdminSessions, ModelAccess

A PATCH changes the database, then the configuration in memory; the list of
models may be written by two handlers. A restart reads the two tables, one of them
or neither (`Restart`): `SettingsStore.all()` and `loadModelAliases()` answer a failed
query with an empty result, so that environment and code decide until the value is
set again (`unread`, `unreadAliases`). For the password it means that the one of the
environment, perhaps an old one, is the valid one. A session is a cookie signed under a
password: `Accepted` is `adminSessionValid()`. Logout inserts it into a list that
evicts when full, and writes a file that may fail. `ModelAccess` has the row, the
cache with its "no row" entries, and a PUT that checks that the key exists,
waits for its body and then writes. Its restart has the keys that the environment
then names and those of the accounts that could be read (`AccessRestart`); the rows
of the others stay, and are remembered as `orphans`.

### 2.11 Legacy

A page is the number of writes on its topic it has seen. A handler reads the
account (`Ask`), waits for its page and caches it under the account it had; there
is one action for each kind of page (`KeysRead`, `GoRead`, `WindowsRead`,
`BillingRead`) and of write (`KeysChanged`, `SwitchTurned`), since they differ in
what a page that cannot be read or a lost answer becomes. A write clears both
caches when it was acknowledged. `quiet` records whether a fetch of the topic was
under way at that moment.

### 2.12 StreamBlocks, AnthropicEvents, Shield

`conv` is the local state of `openAIStreamToAnthropic`: the open text or thinking
block, the tool blocks, what text is held back for the sake of a leaked call, up
to the cap. `Convert` handles a chunk with all its branches, in the order of the
code; `FinishMessage` parses the held text and stops what is open. Every event goes
through `filterThinkingFromStream` at once (`Hides`) and then to the client, which is
why its list of hidden blocks and the client are fields of `conv` too (`Yield`): the
three generators pull one event at a time. The client assembles blocks by the rules
of the protocol and is `broken` as soon as an event makes no sense. Text is a piece
per chunk, marked "tag" if a DSML tag begins in it, though it may go on in the next
chunks, and hold other words. What parsing can leave of the held text is `Remainders`:
each match of the expressions of `dsml.ts` begins at a tag, and takes an invoke to its
end or to the end of the text, a marker to its `>`, half a tag to the end of the line,
so any run of pieces from a tag on may be gone, and any of them may stay. White space
alone is no piece, since `trim()` drops it at both ends. A chunk has one fragment of a
call at most (`OneFragmentEach`), since the model tells fragments apart by chunk and
call; the code appends a second one to the same block.

`Shield` has one thread per connection that serves requests in turn: wait for a
slot, call, verdict, delay, again or give up; the head of a waiting stream; the
relay, whole or cut; and the operator's change of budgets at any time. Verdicts
come from `Statuses`, `Marks` and `Hints` as the script derives them.

## 3. What the runs show

Each passing run finishes without an error. Bounds are the smallest at which
every action and every branch of every part is taken (the action coverage of a
run with several parts was read off each part alone); each property fails under
a mutated definition at the same bounds, so none holds for want of cases.

**MCKeyPool** (2 keys, 3 calls, cooldowns of 1 to 3 units, the sentinel at 4; and
an account with two keys beside one with a session only, one mishap).
`HeldStaysOff`: late reports, reaping and restarts do not bring back what the
operator disabled. `PersistCovers`: memory and file agree on long cooldowns, so a
crash loses none. `CooldownNeverShortened`. `ProbesGoOn`: an
account nobody uses is probed again and again, after rounds that threw and
restarts. Three calls on two keys let two share a key while the third holds the
other; four values of a deadline give shorter, equal and longer reports in every
order. One environment at every start. `NoGhost`: a key that works now is not taken
out by what the file still says of it, when a removed key is stored again or the process
restarts.

**MCGates** (4 calls at a breaker of threshold 3; 2 requests on a token with limit
none or 2, costs 0 to 2, snapshot of 2 units, day of 2, month of 3; a window of 5
buckets, limit 3, up to 2 checks a second by others and 2 by a client; a token of
2 per minute and an API key under 3 for all, 2 tokens a minute, minutes of three
seconds). `ClosedCountsStreak`: whatever was reported late, a closed breaker has
counted the failures since the last success. `WindowExact`, over any number of
laps and prunings. `HintIsEarliest`: the hint is the first second at which the
checks before this one leave room. `CacheCoherent`: the snapshot is the row as
long as it is used. `FreeRidesBounded`: after the quota is used up, no more
requests go by unrecorded than were under way. `QuotaComesBack`: with a cycle, an
exhausted token is usable again by time alone. `NeighboursShielded`: the order of
the gates keeps the token's refused requests out of the window of all.
`AdmitsBelowTpm`: over turns of the minute, requests that end in a later minute
than they began, and minutes nobody used. Four calls at threshold 3 let a whole
run of failures be reported late with one call left to probe; two requests of a
token let one be settled, edited or deleted under the other; a minute of three
lets a request outlast one. The gates are followed twice: with two arrivals in a
second and no tokens used ("rpm"), and with one arrival and every use ("tpm"), since
the two windows of requests and the minute of tokens read nothing of each other.

**MCGateway** (one request of any of the four kinds whose client may leave, one chat
whose client stays; 2 keys, 1 slot, threshold 2). `LoadExact`: the counters are
exactly the requests that hold a key. `RetryElsewhere`. `EveryRequestEnds`. One slot
for two requests is not a restriction to one at a time: a client that leaves frees
its slot while its handler still waits and still holds its key, so two handlers
overlap in every pair of phases, and the gate is also seen closed. The two safety
properties are proved for any number of requests of any kind, so only the liveness
property rests on this bound.

**MCOta** (3 releases, the second always crashes, threshold 3, every disturbance;
2 releases of 2 builds behind two mirrors and github.com, one build unsound).
`SomeVersionLeft`: kills anywhere leave a version. `RollbackNeedsStarts`: a new
version gets its starts. `ServiceReturns` and `BadVersionLeaves`: once
disturbances stop, the service comes up, and a version that keeps crashing does
not stay while there is another to go back to. `InstalledIsPublished`: whatever
mirrors hand out and wherever the process is stopped, `dist` is one whole published
build. Three releases are two updates in a row, so that `dist.prev` may itself be
bad or good. The panel's check and the one in the background do not overlap in
this run; they meet in nothing but the cached list of versions, and the proof of
`InstalledIsPublished` has them in any order.

**MCDatabase** (3 rows with the caches left alone, and 2 with 5 views; batches of 2,
one retry, 2 starts; 2 processes on one file). `LogImplemented`: the detailed writer implements `UsageLog`.
`TotalsCover`: totals and rows stay together over upsert, prune, restart and
failures. `QueueDrains`: no disk and no reader keeps rows in memory for ever.
`RaceLosesNothing`: of two processes that migrate one file, none goes without a
column or a database because the other was faster. Three rows make a full batch
and one that waits behind it; no row depends on what a view has cached.

**MCConsole** (1 cookie, 3 token names, 1 write; the probe and one call at a time,
or two calls at once and no probe). `TokenLives`: the row's
token is one the upstream accepts, or was revoked or lost upstream, or the database
refused its successor (the account is then lost without a word: `console.ts:565`,
`keyprobe.ts:436`), or its successor is being written: this with probe, channel and login refreshing at
once, each pair of them interleaved here and all of them in the proof. `ReadSeesWrites`: neither cache nor a shared call shows what was there before
an acknowledged write. `NobodyForgotten`: who waits for a refresh or a read waits
for one that is under way. Three names are the row's, the one a refresh got, and
the one of a login; unused names return to the pool. `Fresh` chooses one of them
with CHOOSE: every state treats unused names alike, so symmetry in tokens is
sound.

**MCPanel** (2 sessions of which the list keeps one, 2 passwords, 2 lists, an
alias with 2 targets, starts that read both tables, one, or neither; 2 keys, any of
which the environment of a start may name, 2 account ids, rows that a start may leave
out; one device code with 2 polls or 2 codes with one poll at a time, one session, 3 turns;
2 handlers of the old console in one workspace, or one and an account that moves
between 2, 2 writes). `RestartKeeps`: what runs is what the tables say, and for
what the start could not read, what environment and code say until it is set again.
`LogoutLasts`: a session that was ended stays ended unless the list had to make
room or the file failed. `GateSeesRow`, `RowsOwned`: the request path never decides
by a list the table does not hold, and a list stays behind its key only in the ways
named: a PUT that the removal overtook, a deletion that failed, and a restart that did
without the key (an environment that no longer names it: with the key, its old list
comes back). `PoolIsRows`, `ListsInForce`: pool and cache are what the rows say, whatever
statement fails, except for the keys and accounts named; what a start could not read
is out of the pool until the next one. `SignInKept`: the token a
session or a row holds is the upstream's newest, or a poll is about it, or two
polls overlapped, or the answer was lost. `PagesTrue`: pages shown are of the
account's own workspace and not older than an acknowledged write, unless a fetch
was under way. Sessions, device codes and handlers share two values, polls and
workspaces of the old console two others, and the keys of accounts are alike since
any of them may be of the environment: one symmetry set serves all. Environments that
change and tables that cannot be read belong to the foci of lists, keys, sessions and
settings; the sign-ins are followed without them, and proved with them.

**MCWire** (a connection followed through all its waiting, or 2 of which one waits
for the other's slot and neither for a delay; 1 slot, two settings of the budgets,
statuses 400 and 503, every mark, network failures, delays that double once, hints
of 0 and 2; every sequence of up to 5 chunks with 3 pieces of text that can be kept
back). `EffortBounded`: a request calls upstream no more often and waits no longer
than its budgets allow together, though verdicts mix and budgets change. `OneAnswer`:
each request of a connection ends before the next, and the first one has one head,
unless its answer was passed on raw after the waiting (section 6; later requests of a
connection are `MCShieldHead`). `WellFormed`:
the client is never sent an event that makes no sense, and both sides agree on what
is open. `NothingLost`: text and the fragments of calls reach the client in order and
once, each fragment in its call; what has not come is kept back while the stream goes
on, and at the end the only text missing is in runs that begin at a leaked tag, and
the only calls missing are those of a chunk whose text was passed on at once
(`dropped`). Two connections share the slots and the settings and nothing
else, so what one of them waits for is seen with one, and the rest is proved for
any number. Three pieces held back are a tag with something to take behind it and
something to keep after that; five chunks pass the cap and go on.

Each of the other runs finds a behaviour in which the code does not do what a
comment in it says; PROJECT.json quotes both under "findings".

**MCGatewayMessagesCut**: a messages stream that the upstream breaks off is closed
without an error event. **MCTokenQuotaCycle**: changing the cycle of a token revives
the use of a window that had rolled. **MCShieldHead**: after a stream that was
kept waiting, later answers on the same connection have no head.
**MCSchemaColumn**: a column that could not be added, said to be only logged, makes
the statements that name it fail and the database is off for the life of the
process.

### Fairness

  - Time passes: `Tick` of `TokenQuota`, and nothing else there.
  - `ProbeRound`: time passes, the interval fires, a key that was asked answers or
    times out (`keyProbeTimeoutMs`), and the loop goes on. Nothing of operators or
    clients.
  - `UsageDb`: the flush timer fires, which every failed flush with rows left arms
    again. Nothing of readers or of the disk.
  - `Gateway`: weak fairness for each thing a handler waits for. The header, idle
    and total timers end fetch and body; a body that keeps sending chunks is
    taken to be finite. A response that cannot be written is destroyed by the
    drain timeout. Nothing is assumed of clients, recoveries or arrivals.
  - `OtaGuard`: systemd starts what is down (`Restart=always`), a scheduled
    restart happens, and a bad version crashes. Nothing is assumed of updates. In
    `MCOta` these three conditions exclude behaviours that only fetch, so that
    temporal properties are about the disk and invariants about both.
  - The specifications `BreakerFairSpec` and `RateFairSpec` are stated for the
    configurations run by hand. All other parts have safety properties only.

Deadlock is not checked where the system may stop: calls are finite, the bounds
are reached, or nobody asks for anything any more.

## 4. What is proved

For every value of the constants that the named assumptions admit. The leaves
are checked by Z3 and Zenon, temporal steps by LS4. Type correctness is proved for
these components and not spent a run's property on. Every invariant and every
action property of the passing runs is a theorem; each theorem is about the
component's own specification, without the bounds on interleaving that the MC
modules add. PROJECT.json lists the theorems by module.

Besides the shape of constants the proofs assume that the requests of `Gateway`, the
calls of `TokenQuota`, the requests of `UsageDb` (`RequestsFinite`) and the settings
of the shield (`ConfigsFinite`) are finite sets, so that they can be counted, added
up and have a largest member, that delays are numbers (`DelayAssumption`), and of the
chunks of a stream `OneFragmentEach`. Two theorems of `KeyPool` assume `OneEnvironment`.

### KeyPool_proofs

`TypeCorrect`. `PersistCoversHolds` is inductive on its own together with the types:
`disableUntil` writes both copies or neither, and reaping and time treat them
alike. `NeverShortened` follows from the types and from the fact that a stopped
process has an empty pool. `HeldStaysOffHolds` and `NoGhostHolds` assume
`OneEnvironment` (the environment is the same at every start) and need the
strengthening `FileInv`: what the operator holds is held in the file too
(`HeldOnDisk`) and known to the pool or to the next start (`HeldKnown`); the sentinel
deadline occurs only with the reason "manual" (`SentinelIsManual`, without which a
report could tie with it); and the file has no live entry for a key that neither
the pool nor the next start knows (`FileKnown`), without which adding such a key
would create a ghost.

### Gateway_proofs

*Requests*, for any finite set of them, any keys and limit, any breaker. The
inductive invariant says of each handler (`HandlerOK`): it holds a key exactly in the
phases of a call, has tried at most one other before, and has no slot while idle.
`TypeCorrect` (so there is never a third attempt) and `RetryElsewhereHolds` follow at
once. `SlotsExactHolds` adds that an idle request has no slot to count twice.
`LoadExactHolds` needs one more argument: the loads are changed by a handler as much
as its own share in them changes (`Account`), for the three ways it does so: give
back, take, exchange in one turn; and a key that is held has a load above zero, so
that the guard in `releaseOnce` never hides a lost count (`ReleaseExact`).

*Breaker.* The shape of its four functions (`BreakerShape`), which serves requests
and breaker alike, `BreakerTypeCorrect`, and `ClosedCountsStreakHolds`: inductive
because only `AfterSuccess` closes the breaker and it resets the counter.

*Shield.* The invariant `ShieldInv` says of each connection (`ServeOK`) where it is
in its answer (`HeadOK`) and what it has used up. The difficulty of
`EffortBoundedHolds` is that the operator may exchange the settings between any two
steps, so neither "tries left" nor "budget left" decreases: what does hold is that
the end of a window is never further off than the longest budget any settings give it
(`Room`), and that what has been slept is at most what has passed of the windows that
were opened (`Part`), one delay of the network added (`Reach`), since that delay is
the one that does not look at the budget. `OneAnswerHolds` needs that a head is out
exactly when a waiting stream has sent one (`HeadOut`), for the first request of a
connection; that it is not so for the second is what `MCShieldHead` shows.

*Streams.* `WellFormedHolds` rests on a relation between converter, filter and client
(`Sim`): what the client has open are the blocks of the calls and the open text block,
unless that is one the filter hides (`Shown`), each with the kind the converter takes
it to have, all below the next number, and the list of hidden blocks is that one or
empty. Every stretch of the converter keeps it (`CloseKeeps`, `OpenKeeps`, `SayKeeps`,
`CallKeeps`, `ContentKeeps`, up to `ConvertKeeps`); at the end the stops leave nothing
open (`StopsOne`, `CallsStop`), which is what the client needs to accept the end of the
message (`FinishEnds`). A leaked call opens a text block without closing one: that
there is none to close at that point is `Held`, text is kept back only while no text
block is open. The loops over fragments, held pieces and blocks are recursive
functions; that such a function exists and stays in given sets (`StepsExist`,
`StepsStay`) is proved by the least number at which it would not.

`NothingLostHolds` adds to `Sim` what the client has been told. While a stream is read,
the pieces it has and those kept back are together the ones the upstream sent, in their
order, and those kept back come later (`Told`): new text goes to the last block there
is (`Newest`), so adding to it keeps the order (`SayTells`, `ContentTells`), and every
other stretch says nothing (`Silent`). No tag is among them before the cap is passed
(`NoTags`). A fragment is added to the block of its call and to no other, two calls
having two blocks (`CallAdds`), so each block has its fragments in their order
(`Called`) and none is missing but those of dropped chunks (`Complete`, `CallsTell`).
At the end parsing leaves of the kept-back text all but runs that begin at a tag
(`ParsingIsLeft`), and that is told too (`ParsedTells`); no piece told before lies in
such a run, since all that was kept back comes later (`FinishTells`). A
stream that ends in an error has been told no more than was sent, in order (`Safe`).

### Gates_proofs

*Quota.* `QuotaTypeCorrect`. `CacheCoherentHolds`, inductive because every action
that writes the row drops the snapshot in the same step. `AdmitsOnlyEntitledHolds`
from it: the snapshot that is tested is the row. `FreeRidesBoundedHolds`, by "while the
row takes nothing more, the settlements it ignored and the requests under way are
together at most the requests there are": each ignored settlement ends a request, and
none is admitted meanwhile.

*Window.* `RateInv` relates each bucket of the ring to the second it stands for: a
bucket that counts holds what was checked when it was the current one (`Since`), and in
the time of a bucket that does not, nothing was; a window that was dropped has been
idle for a whole lap. That the sum over the ring is the sum over the seconds
(`WindowExactHolds`) is then a renaming of the summation index (`SumRenamed`). The hint
(`HintIsEarliestHolds`): the oldest bucket whose departure leaves room exists because
a window without its buckets is empty (`HintShape`), no earlier second will do because
a younger bucket would have been chosen, and the second it names will (`HintIsRight`).

*Gates.* `GatesTypeCorrect`. `AdmitsBelowTpmHolds` from `MinuteKept`: what `TpmLimiter`
has of a token, if its minute is not over, is exactly what the token's requests have
used in the natural minute, and what is left of that minute is what is left of the
clock's. A minute found over counts as empty on both sides, which is where the lazy
reset and the clock meet. `NeighboursShieldedHolds` does not compare the two sums but
every second of them: what the window of all has counted of a token, the token's own
window has counted too (`Shielded`), because the own window is asked first.

### OtaGuard_proofs

*Disk.* `TypeCorrect`; `LockOwnedHolds`; `SomeVersionLeftHolds`, strengthened by "a running
process has a version in dist"; `RollbackNeedsStartsHolds`, by "while there is a
roll-back point, the counter is at most the starts of the version in dist";
`OnlyUpwardHolds`, by "until a deployment, the version an update has read is the one in
dist". Each holds until the disturbance it does not withstand, for any threshold and
any number of releases.

*Network.* `InstalledIsPublishedHolds`: `UpdateStage` follows the parcel. The file is a
published build from the moment the checksum has been compared, the directory is empty
until it is unpacked, and an archive that is refused half way leaves a directory that
is not installed.

### UsageDb_proofs

*Rows.* The invariant counts copies: a request is at most once in the queue and the
table together, and only when it has ended. A flush is the case that matters:
`FlushKeeps` shows that every way it may go (written, put back, given up) leaves each
row with the others of its batch, and each action of `UsageDb` is then a step of
`UsageLog` or a stutter (`EndStep`, `BatchStep`, `QuietStep`, `GoneStep`), which is
`ImplementsLog`. `WrittenOnceHolds` is the invariant. `DropsNeedRetryHolds` follows from
two of its conjuncts: while retries are counted, the head of the queue has failed that
often (`RetryFailed`), and a writer that is off has nothing waiting (`OffEmpty`).
`TotalsCoverHolds`: whatever a step is, it does to the disk one of three things
(`DiskStep`: a transaction with some rows, the rebuild of the totals, nothing), and each
changes total and count by the same number or the count by less.

*Schema.* `RaceLosesNothingHolds`, for any number of processes. `Upgraded` says how far
a process that was refused nothing has come: the groups before its own are complete,
and what its own lacks is in the list it looked up. It survives the steps of the others
because columns only appear (`StaysUpgraded`), and the second look after a refusal
finds the column that was added meanwhile (`DealtUpgraded`).

### Console_proofs

`TypeCorrect`. `TokenLivesHolds` needs to know where a new token is between the answer
and the write (`Lineage`): its refresher alone knows it, so no other can rotate it away
before it is in the row, or before the row refuses it (`RowKeeps`). `ReadSeesWritesHolds` needs `Generations`: what a call of the
current generation was answered is no older than what has been acknowledged, since an
acknowledgement makes every call under way one of an old generation; the calls that
share an answer (`CallsShape`) carry the lower bound from when they began.
`NobodyForgottenHolds` is kept by the end of a call, which lets go of all that follow it
in the same turn (`EndKeeps`).

### Panel_proofs

Each part has an inductive invariant that says where the data on their way are.
`RestartKeepsHolds`, `GateSeesRowHolds` and `RowsOwnedHolds` are inductive with the shape of
the tables and "a PUT that nothing has overtaken is for a key there is" (`PanelInv`).
What a start can read, and the environment it finds, is free at every restart.
`LogoutLastsHolds`: who has logged out is in the list, and in the file once that was
written (`SessionsInv`); the list drops from its old end what has expired first
(`PrunedShape`). `PoolIsRowsHolds` and `ListsInForceHolds` are proved of `SignInSpec`, the
sign-ins and the operator together; the pool needs to know that the
keys of a row that cannot be decrypted are among those the start left out
(`SealedOut`), and that each of these still has its row (`KeysHeld`), so that no
handler puts one in or takes another row's key out. `SignInKeptHolds` is the longest argument: for each
device code, where its newest refresh token is in every phase of a poll (`Carries`), that
a code that was never given is nowhere (`Unused`), and that without overlapping polls a
token is in an account only when its sign-in is over (`OneByOne`). `PagesTrueHolds`: an
answer on its way to a cache is as good as the entry it will be (`FetchTrue`).

### SumTheorems

The library has induction for formulas only as an operator parameter, which the provers
cannot instantiate. `OneByOne` states it for a *set* of the subsets for which something
holds, by the well-foundedness of strict inclusion, and from it follows what the
community modules' `SumFunctionOnSet` computes: `SumAdded`, `SumRemove`, `SumAtMost`,
`SumChanged`, `SumRenamed`. The window, the gates and the totals use these; that finitely
many settings of the shield have a most generous one is `OneByOne` itself.

### Only model-checked

Everything under fairness (`ProbesGoOn`, `QuotaComesBack`,
`EveryRequestEnds`, `ServiceReturns`, `BadVersionLeaves`, `QueueDrains`), which is out of
the prover's reach. The properties of the runs that expect a violation are false, and
those of section 6 that have a configuration likewise.

## 5. What is not modelled

PROJECT.json lists every part under "components", with what is left out of it. In
short: text (conversion of whole requests and answers, the words by which an error
or a verdict is recognised, HTML and the browser script of the panel, SQL
aggregation, screening heuristics, encryption), which is a free choice among its
outcomes where a model depends on it; the login lockout; the in-memory metrics;
billing; sizes of downloads and the form of archives; the first installation; the
developer's scripts. Errors of files and of the database are modelled where the
code acts on them (`replaceDist`, the guard, settlement, flush, every statement of
the panel, the revoked list), not in the key file's store, which swallows them: a
read that fails and is followed by a write loses what the file had (`main.ts:96`).
A removed key's late failure blocks a model of account 0 (`keypool.ts:830`): the
pool of `KeyPool` has no models. Nor has it entries in the file's old format, by
the last four characters of a key, which `keypool.ts:316` still reads. Transient
failures (`keypool.ts:639`) are counted for the panel and disable nothing, so neither
pool counts them.

## 6. Disagreements seen while modelling, without a run of their own

The models contain these behaviours as they are in the code. Where a
configuration is named, TLC finds the behaviour with it; those are run by hand.

Pool and probes:

  - `keypool.ts:566`: a request in flight while its key is removed and added
    again releases a share of the new entry, whose load is then too low.
  - `keypool.ts:308`: a key missing from the environment for one start keeps its
    file entry; added again in the panel it is healthy, and disabled after the
    next restart. `NoGhost` is proved for one environment.
  - `keypool.ts:577`: the answer of a probe counts as use of its account, so that
    the failure of another key of that account is not retried at the time the
    verdict set (`FailureRetried`, `MCKeyPoolRetry.cfg`).
  - `keyprobe.ts:290`: the comment says "ok" if every key passed; so it is when
    none was asked, and when the first failure was of the model (`OkMeansAnswered`).
  - `keyprobe.ts:411`: the comment says a lost race for the refresh token does not
    mark a healthy account invalid; a second refusal does.
  - `keyprobe.ts:436`, `console.ts:565`: that the row has refused the new refresh
    token (`setOauthRefresh` answers false) is not looked at; the account is lost at
    the next refresh (`RowWritten`, excused in `TokenLives`).

Requests:

  - `upstream.ts:126`: any success while half-open closes the breaker, also that
    of a call admitted before it opened; the comment speaks of the probe.
  - `server.ts:3355`: requests turned away by the breaker or the concurrency gate
    return before the `try`, so no row of them reaches the usage database.
  - `server.ts:4442`: with one available key, a retry excludes it, and the client
    hears that all keys are disabled instead of the upstream's error.
  - `server.ts:4472`: "model not supported" is recognised on the first attempt
    only; on the second it is charged to the key (`ChatError`).
  - `server.ts:4546`: a malformed last line of a chat stream ends it in silence.
  - `server.ts:4029`: a request that the window of all refuses has still used a
    slot of its token's window.
  - `ratelimit.ts:104`: denied checks are counted, the hint does not count them; a
    client alone that obeys the hint can be denied for ever
    (`PatientClientServed`, `RateLimitAlone.cfg` of `RateLimit`).

Streams (`toAnthropic.ts`): a tool call that starts while another is open leaves
two blocks open at once (152, 219, 335; `AnthropicEvents` therefore admits it); a chunk that holds text back drops the
tool calls it carries too (292, 321); an invoke without its end takes all the text
that follows (`dsml.ts:44`, 58), although the head of `dsml.ts` says that no normal
text is swallowed (line 21); held text may come after later tool blocks;
two branches cannot be reached (410, 432).

Update (`rollback-guard.sh`, `ota.ts`, `main.ts`):

  - the heads of `ota-guard.ts` (5 to 8) and of `rollback-guard.sh` (5) say that the
    process clears the start counter when it has run for 30 seconds; it only writes
    the health marker (`main.ts:252`), and the guard alone resets the counter.
  - `rollback-guard.sh:45`: planned restarts count as crashes
    (`RollbackNeedsCrashes`, `OtaGuardCrashes.cfg` of `OtaGuard`).
  - `rollback-guard.sh:97`: if the move that keeps the bad version fails, the next
    one moves `dist.prev` into `dist`; the roll-back point is lost.
  - `main.ts:259`: the health timer confirms the version in dist when it fires,
    also one that an update has just put there and that never ran.
  - `ota.ts:597`: an update after one that failed both ways deletes the only
    version left.
  - `ota.ts:698`: a deployment while an update downloads may be replaced by an
    older release (`OnlyUpward` ends there).
  - the update uses the cached tag list, which a forced check neither reads nor
    fills, so the panel may show a version that the update does not install; a
    slower earlier check overwrites the status of a later one; the comment at
    `server.ts:3278` says an update refreshes the status, which it does not.

Usage database and shutdown: the comment at `usagedb.ts:2046` says that `close()`
writes what waits; when its flush fails, the rows it puts back are gone
(`LostOnlyAfterRetry`). A prune does not void the cache of key usage (1866). The
trend caches the empty answer of a failed query (1541). The head of `shutdown.ts`
says the database is closed first.

Credentials:

  - `console.ts:400`: a late refusal of an old cookie marks the channel invalid, and
    a new cookie is then not tried (`MCConsoleNewCookie.cfg`).
  - a refresh begun with the token of an old login writes its successor over the
    new login's token; one who waits for a refresh may be told the workspace the
    account had before; a 401 of a write leaves the access token in its cache; a
    sign-in does not reset the state of the channel.
  - a poll that fails for any reason stops the polling of the panel; a stored
    rotation is matched only while two polls overlap (`server.ts:5348`); when the
    list of accounts cannot be read, a sign-in creates a second account for the
    same user (`server.ts:5305`).
  - after a PATCH of the workspace, the API key of an account may belong to another
    workspace than the row says; the caches of the old console have no generation,
    so what a slow fetch brings is cached over what a write cleared (`NoStalePage`
    excludes it). The comment in `main.ts` that a deleted key is not given out is
    true only if no fetch was under way (`NoDeletedKey`).

Panel:

  - a start that cannot read the settings (`settings.ts:352`) or the aliases
    (`modelmap.ts:22`) runs on those of the environment and the code, the password
    included, with no more than a line in the log; one that cannot read the accounts
    (`accounts.ts:327`) runs with the keys of the environment alone.
  - `main.ts:125`: a key that the environment no longer names keeps its list, and
    comes back under it when it is named again; the panel's removal clears it.
  - `admin.ts:613`: a creation whose row cannot be read back answers 500 and leaves
    the pool without the key. A key of the environment added to an account keeps
    account 0 in the pool until a restart. `allowedModelsOf` remembers a failed
    read as "no list".
  - `server.ts:1786`: the PUT of a key's list checks that the key exists before it
    waits for the body; a key removed meanwhile leaves a row. Removing tokens or
    client keys leaves theirs (2485 to 2525). An alias of the environment that was
    deleted returns at the next start.
  - logging out again when the list is full makes another session valid again;
    returning to an earlier password revives its sessions; a file that cannot be
    read at the start is taken as an empty list.
  - `tokens.ts:745`: see `MCTokenQuotaCycle`.

Shield (`kiro_shield.py`): an answer that is let through after the head of a
waiting stream has been sent brings a second status line (about line 1110); the three windows of swap,
cool and authentication share one count and one deadline (433); marker words in a
body make paths of the panel retried (832); the delay after a network failure does
not look at the budget left.

## 7. Plan

Written, in this order, the most important behaviour first: the pool, since
everything depends on it; the breaker; the requests, which compose the two; the
update and its guard, the part with the worst failures; quotas and rates; the
usage database with its abstract log and its migration; the refresh token and the
console channel; accounts, sign-in, sessions, settings and lists; streams; the old
console; the shield.

Next:

  1. `PoolContract`, an abstract pool (which keys may be granted, how many calls
     each carries), that `KeyPool` and the pool inside `Gateway` are both shown
     to implement.
  2. Of `ProbeRound`, an invariant strong enough for a theorem: an account that is
     not in the round under way has a time for the next one.
  3. The lockout of the panel's login, the store of the key file with failing
     operations, model blocks per account in `KeyPool`.
