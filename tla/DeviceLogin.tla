----------------------------- MODULE DeviceLogin -----------------------------
(***************************************************************************)
(* Sign in with OpenCode: the device flow (src/oauth.ts) and the two        *)
(* handlers of the panel that drive it (src/server.ts).  A start asks the   *)
(* upstream for a device code and keeps a session for it; every poll asks   *)
(* whether the user has agreed.  The code is good for one exchange: the     *)
(* refresh token it brings stays in the session until the workspace is      *)
(* known, and a poll that finds it there refreshes with it instead, which   *)
(* replaces it.  In the end it goes into the account of the workspace.      *)
(*                                                                          *)
(* Polls of one session may overlap: the panel sends one per interval and    *)
(* waits for none.  A token is the number of its turn; what the console     *)
(* channel and the probe make of the account's token is in OauthTokens.     *)
(***************************************************************************)
EXTENDS Accounts

CONSTANTS
    Codes,          \* device codes, each given once
    Polls,          \* polls under way at once
    MaxSessions,    \* MAX_ACTIVE_SESSIONS
    MaxStarts,      \* bound: starts under way at once
    MaxTurn         \* bound: refresh tokens per code

ASSUME LoginAssumption ==
    /\ NoToken \notin Codes \cup [code : Codes, turn : Nat]
    /\ MaxSessions \in Nat \ {0} /\ MaxStarts \in Nat /\ MaxTurn \in Nat

VARIABLES
    session,    \* per code: the session, which a poll may hold after it was dropped
    starts,     \* starts under way
    poll,       \* per poll under way: where it is
    grant,      \* the upstream: what has become of the code, and for whom
    live,       \* the upstream: the turn of the refresh token it accepts
    lost,       \* history: codes whose newest token never arrived
    overlapped  \* history: codes two polls were about at once

loginVars == <<session, starts, poll, grant, live, lost, overlapped>>

NoSession == [open |-> FALSE, late |-> FALSE, tok |-> 0]
Idle == [pc |-> "idle", code |-> NoToken, prev |-> 0, tok |-> 0, res |-> "none"]

LoginInit ==
    /\ session = [c \in Codes |-> NoSession]
    /\ starts = 0
    /\ poll = [p \in Polls |-> Idle]
    /\ grant = [c \in Codes |-> [st |-> "unused", ws |-> NoWorkspace]]
    /\ live = [c \in Codes |-> 0]
    /\ lost = {} /\ overlapped = {}

Open == {c \in Codes : session[c].open}
Drop(c) == session' = [session EXCEPT ![c].open = FALSE]

----------------------------------------------------------------------------
(* OauthManager.start(): what is late is purged, then the rest is counted.   *)

Purged == [c \in Codes |-> IF session[c].late THEN [session[c] EXCEPT !.open = FALSE]
                           ELSE session[c]]

(* Mutant: nothing is counted. *)
StartUncounted ==
    /\ starts < MaxStarts
    /\ session' = Purged
    /\ starts' = starts + 1
    /\ UNCHANGED <<poll, grant, live, lost, overlapped>>

StartAsks ==
    /\ starts < MaxStarts
    /\ session' = Purged
    /\ starts' = IF Cardinality({c \in Codes : Purged[c].open}) < MaxSessions
                 THEN starts + 1 ELSE starts
    /\ UNCHANGED <<poll, grant, live, lost, overlapped>>

StartAnswered(c) ==
    /\ starts > 0 /\ grant[c].st = "unused"
    /\ starts' = starts - 1
    /\ grant' = [grant EXCEPT ![c].st = "pending"]
    /\ session' = [session EXCEPT ![c].open = TRUE]
    /\ UNCHANGED <<poll, live, lost, overlapped>>

StartFails ==
    /\ starts > 0 /\ starts' = starts - 1
    /\ UNCHANGED <<session, poll, grant, live, lost, overlapped>>

----------------------------------------------------------------------------
(* The user, and the clock *)

Decide(c, ws) ==
    /\ grant[c].st = "pending"
    /\ grant' = [grant EXCEPT ![c] = [st |-> IF ws = NoWorkspace THEN "denied" ELSE "agreed",
                                      ws |-> ws]]
    /\ UNCHANGED <<session, starts, poll, live, lost, overlapped>>

SessionAges(c) ==
    /\ session[c].open /\ ~session[c].late
    /\ session' = [session EXCEPT ![c].late = TRUE]
    /\ UNCHANGED <<starts, poll, grant, live, lost, overlapped>>

----------------------------------------------------------------------------
(* OauthManager.poll(), as far as its first request *)

PollLate(c) ==
    /\ session[c].open /\ session[c].late
    /\ Drop(c)
    /\ UNCHANGED <<starts, poll, grant, live, lost, overlapped>>

PollAsks(p, c) ==
    /\ poll[p].pc = "idle" /\ session[c].open /\ ~session[c].late
    /\ poll' = [poll EXCEPT ![p] =
                 [Idle EXCEPT !.pc = IF session[c].tok = 0 THEN "exchange" ELSE "refresh",
                              !.code = c, !.prev = session[c].tok]]
    /\ overlapped' = IF \E q \in Polls : poll[q].code = c THEN overlapped \cup {c}
                     ELSE overlapped
    /\ UNCHANGED <<session, starts, grant, live, lost>>

----------------------------------------------------------------------------
(* The token endpoint *)

Answer(p, res, tok) ==
    poll' = [poll EXCEPT ![p].pc = "answered", ![p].res = res, ![p].tok = tok]

(* A request that the upstream carries out may go unanswered, or be answered *)
(* without the tokens.                                                      *)
Brings(p, c, tok) ==
    \/ Answer(p, "ok", tok) /\ UNCHANGED lost
    \/ \E res \in {"failed", "over"} : Answer(p, res, 0) /\ lost' = lost \cup {c}

ServeExchange(p) ==
    LET c == poll[p].code IN
    /\ poll[p].pc = "exchange"
    /\ \/ /\ grant[c].st = "agreed"
          /\ grant' = [grant EXCEPT ![c].st = "spent"]
          /\ live' = [live EXCEPT ![c] = 1]
          /\ Brings(p, c, 1)
       \/ /\ \/ grant[c].st = "pending" /\ Answer(p, "wait", 0)
             \/ grant[c].st \in {"denied", "spent"} /\ Answer(p, "over", 0)
             \/ Answer(p, "failed", 0)
          /\ UNCHANGED <<grant, live, lost>>
    /\ UNCHANGED <<session, starts, overlapped>>

(* The upstream may answer a refresh without a new token: the old one stays. *)
ServeRefresh(p) ==
    LET c == poll[p].code IN
    /\ poll[p].pc = "refresh"
    /\ \/ /\ poll[p].prev = live[c]
          /\ \/ /\ live[c] < MaxTurn
                /\ live' = [live EXCEPT ![c] = @ + 1]
                /\ Brings(p, c, live[c] + 1)
             \/ Answer(p, "ok", live[c]) /\ UNCHANGED <<live, lost>>
       \/ Answer(p, "failed", 0) /\ UNCHANGED <<live, lost>>
    /\ UNCHANGED <<session, starts, grant, overlapped>>

----------------------------------------------------------------------------
(* poll(), after the token endpoint *)

Answered(p, res) == poll[p].pc = "answered" /\ poll[p].res \in res
Refreshing(p) == poll[p].prev # 0
Done(p) == poll' = [poll EXCEPT ![p] = Idle]

(* Pending, no answer, an error that is not known: the panel asks again. *)
PollWaits(p) ==
    /\ Answered(p, {"wait", "failed"}) /\ ~Refreshing(p)
    /\ Done(p)
    /\ UNCHANGED <<session, starts, grant, live, lost, overlapped>>

(* Refused for good; a refresh is not tried twice. *)
PollEnds(p) ==
    /\ Answered(p, {"over"}) \/ (Answered(p, {"failed"}) /\ Refreshing(p))
    /\ Drop(poll[p].code)
    /\ Done(p)
    /\ UNCHANGED <<starts, grant, live, lost, overlapped>>

(* Mutant: the token a refresh brought stays with the poll. *)
TokenForgotten(p) ==
    session' = IF Refreshing(p) THEN session
               ELSE [session EXCEPT ![poll[p].code].tok = poll[p].tok]

TokenKept(p) == session' = [session EXCEPT ![poll[p].code].tok = poll[p].tok]

PollHasToken(p) ==
    /\ Answered(p, {"ok"})
    /\ TokenKept(p)
    /\ poll' = [poll EXCEPT ![p].pc = "orgs"]
    /\ UNCHANGED <<starts, grant, live, lost, overlapped>>

----------------------------------------------------------------------------
(* The workspaces of the user, and what goes into the account *)

Token(c, turn) == [code |-> c, turn |-> turn]

(* persistOauthRefreshRotation(): the first account with the token that was  *)
(* replaced.                                                                *)
Rotated(c, prev, turn) ==
    LET had == {id \in There : rows[id].tok = Token(c, prev)} IN
    IF had = {} THEN rows ELSE [rows EXCEPT ![Min(had)].tok = Token(c, turn)]

(* No answer, or no workspace in it: the session stays for the next poll.   *)
OrgsFail(p) ==
    LET me == poll[p] IN
    /\ me.pc = "orgs"
    /\ rows' \in IF Refreshing(p) THEN {rows, Rotated(me.code, me.prev, session[me.code].tok)}
                 ELSE {rows}
    /\ Done(p)
    /\ UNCHANGED <<session, starts, grant, live, lost, overlapped>>
    /\ UNCHANGED <<env, nextId, pool, cache, sealed, missing, torn, misread>>

(* The refresh path goes by the session, the first path by what it was given. *)
Identity(p) ==
    Token(poll[p].code, IF Refreshing(p) THEN session[poll[p].code].tok ELSE poll[p].tok)

(* persistOauthAccount(): the first account of the workspace takes the token, *)
(* or a new one does; it may fail at any step.                              *)
OrgsArrive(p) ==
    LET ws  == grant[poll[p].code].ws
        own == {id \in There : rows[id].ws = ws} IN
    /\ poll[p].pc = "orgs"
    /\ \/ own # {} /\ rows' = [rows EXCEPT ![Min(own)].tok = Identity(p)] /\ UNCHANGED nextId
       \/ \E tok \in {Identity(p), NoToken} : Insert([NewRow({}, ws) EXCEPT !.tok = tok])
       \/ UNCHANGED <<rows, nextId>>
    /\ Drop(poll[p].code)
    /\ Done(p)
    /\ UNCHANGED <<starts, grant, live, lost, overlapped>>
    /\ UNCHANGED <<env, pool, cache, sealed, missing, torn, misread>>

(* A restart forgets every session. *)
LoginRestart ==
    /\ session' = [c \in Codes |-> [session[c] EXCEPT !.open = FALSE]]
    /\ starts' = 0
    /\ poll' = [p \in Polls |-> Idle]
    /\ UNCHANGED <<grant, live, lost, overlapped>>

----------------------------------------------------------------------------

FlowNext ==
    \/ StartAsks \/ StartFails
    \/ \E c \in Codes :
        \/ StartAnswered(c) \/ SessionAges(c) \/ PollLate(c)
        \/ \E ws \in Workspaces \cup {NoWorkspace} : Decide(c, ws)
        \/ \E p \in Polls : PollAsks(p, c)
    \/ \E p \in Polls :
        \/ ServeExchange(p) \/ ServeRefresh(p)
        \/ PollWaits(p) \/ PollEnds(p) \/ PollHasToken(p)

LoginNext ==
    \/ FlowNext /\ UNCHANGED accountVars
    \/ \E p \in Polls : OrgsFail(p) \/ OrgsArrive(p)

(* The sign-ins, while the operator works on the accounts. *)
SignInNext ==
    \/ LoginNext
    \/ AccountsEdited /\ UNCHANGED loginVars
    \/ AccountsRestart /\ LoginRestart

SignInSpec ==
    AccountsInit /\ LoginInit /\ [][SignInNext]_<<accountVars, loginVars>>

(* No sign-in is left with a token the upstream has replaced, neither in    *)
(* the session between two polls nor in the account afterwards, unless the  *)
(* answer with the new one was lost, or polls of the session overlapped     *)
(* (oauth.ts:277, comment on writing the rotation back; nothing in the      *)
(* panel's setInterval keeps polls apart).                                  *)
Current(c, turn) == turn = live[c] \/ c \in lost \cup overlapped

SignInKept ==
    /\ \A c \in Open : session[c].tok = 0 \/ Current(c, session[c].tok)
                       \/ \E p \in Polls : poll[p].code = c
    /\ \A id \in There : rows[id].tok # NoToken =>
                            Current(rows[id].tok.code, rows[id].tok.turn)

(* No more sessions than the limit, but for the starts that were counted    *)
(* together.                                                                *)
SessionsBounded == Cardinality(Open) + starts < MaxSessions + MaxStarts
=============================================================================
