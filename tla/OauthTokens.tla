----------------------------- MODULE OauthTokens -----------------------------
(***************************************************************************)
(* The OAuth refresh token of one account.  The upstream rotates it: every  *)
(* refresh answers a new token and kills the old one together with its      *)
(* access token.  Three parts of the gateway refresh: the console channel   *)
(* (src/console.ts), the probe (src/keyprobe.ts) and a device login that is *)
(* done (src/oauth.ts), and each writes what it got into the account's row  *)
(* (src/accounts.ts), a write that the database may refuse.  Nothing orders *)
(* them.  What the probe does with the access token afterwards touches no   *)
(* token and is left out.                                                   *)
(*                                                                          *)
(* A token names the access token issued with it, too.  Names of tokens     *)
(* nobody holds any more are used again.                                    *)
(***************************************************************************)
EXTENDS Naturals, FiniteSets

CONSTANTS
    Tokens,     \* names for refresh tokens
    NoToken     \* none

ASSUME TokensAssumption == NoToken \notin Tokens

Refreshers == {"console", "probe"}

VARIABLES
    stored,     \* the row's refresh token
    live,       \* the tokens the upstream accepts
    dead,       \* history: tokens that were revoked, whose answer got lost
                \* or whose successor the row refused
    job,        \* per refresher: the refresh under way
    access      \* accessCache of the console channel

upstream == <<live, dead>>
tokenVars == <<stored, upstream, job, access>>

Idle == [pc |-> "idle", tok |-> NoToken, again |-> FALSE, res |-> "none", new |-> NoToken]

TokensInit ==
    /\ stored \in Tokens \cup {NoToken}
    /\ live = {stored} \cap Tokens /\ dead = {}
    /\ job = [r \in Refreshers |-> Idle]
    /\ access = NoToken

Known ==
    {stored, access} \cup UNION {{job[r].tok, job[r].new} : r \in Refreshers}

(* A name nobody uses; held are the names used outside this module.  What   *)
(* the upstream knows of a token nobody holds is forgotten.                 *)
Spare(held) == Tokens \ (Known \cup held)
Fresh(held) == CHOOSE t \in Tokens : t \in Spare(held)

----------------------------------------------------------------------------
(* The token endpoint of the upstream *)

Issued(held) == (live \cap (Known \cup held)) \cup {Fresh(held)}

Rotated(tok, held) ==
    /\ tok \in live /\ Spare(held) # {}
    /\ live' = Issued(held) \ {tok}
    /\ dead' = dead \cap Known

(* Revoked, or rotated and the new token never arrives. *)
Lost(tok) ==
    /\ tok \in live
    /\ live' = live \ {tok}
    /\ dead' = (dead \cup {tok}) \cap Known

Revoke ==
    /\ \E t \in Known : Lost(t)
    /\ UNCHANGED <<stored, job, access>>

----------------------------------------------------------------------------
(* The refresh of console.doRefresh() and of probeOauthAccount() *)

Asking(tok, again) ==
    [pc |-> "sent", tok |-> tok, again |-> again, res |-> "none", new |-> NoToken]

AnswerJob(r, res, new) ==
    job' = [job EXCEPT ![r] = [@ EXCEPT !.pc = "answered", !.res = res, !.new = new]]

RefreshServed(r, held) ==
    /\ job[r].pc = "sent"
    /\ Rotated(job[r].tok, held)
    /\ AnswerJob(r, "ok", Fresh(held))
    /\ UNCHANGED <<stored, access>>

RefreshDenied(r) ==
    /\ job[r].pc = "sent" /\ job[r].tok \notin live
    /\ AnswerJob(r, "denied", NoToken)
    /\ UNCHANGED <<stored, upstream, access>>

RefreshFails(r) ==
    /\ job[r].pc = "sent"
    /\ AnswerJob(r, "failed", NoToken)
    /\ Lost(job[r].tok) \/ UNCHANGED upstream
    /\ UNCHANGED <<stored, access>>

Refused(r) == job[r].pc = "answered" /\ job[r].res # "ok"

(* Somebody else may have rotated first: once more with the row's token,    *)
(* if it can be read.  The probe does so only when it was denied.           *)
MayRetry(r) ==
    /\ Refused(r) /\ ~job[r].again
    /\ r = "probe" => job[r].res = "denied"
    /\ stored # NoToken /\ stored # job[r].tok

RefreshRetries(r) ==
    /\ MayRetry(r)
    /\ job' = [job EXCEPT ![r] = Asking(stored, TRUE)]
    /\ UNCHANGED <<stored, upstream, access>>

(* setOauthRefresh() of a refresh: when the database refuses it answers     *)
(* FALSE, which neither refresher looks at, and the row keeps what it had:  *)
(* the token that was just spent, unless somebody has written since.        *)
RowWritten(r) ==
    \/ stored' = job[r].new /\ UNCHANGED upstream
    \/ /\ dead' = dead \cup ({job[r].tok} \cap {stored} \cap Tokens)
       /\ UNCHANGED <<stored, live>>

ConsoleRefreshed ==
    /\ job["console"].pc = "answered" /\ job["console"].res = "ok"
    /\ RowWritten("console")
    /\ access' = job["console"].new
    /\ job' = [job EXCEPT !["console"] = Idle]

ConsoleRefreshFailed ==
    /\ Refused("console")
    /\ job' = [job EXCEPT !["console"] = Idle]
    /\ UNCHANGED <<stored, upstream, access>>

(* Rounds of the probe never overlap (running). *)
ProbeStarts ==
    /\ job["probe"].pc = "idle" /\ stored # NoToken
    /\ job' = [job EXCEPT !["probe"] = Asking(stored, FALSE)]
    /\ UNCHANGED <<stored, upstream, access>>

(* Mutant: the rotated token is not written back. *)
ProbeKeepsToItself ==
    /\ job["probe"].pc = "answered" /\ job["probe"].res = "ok"
    /\ job' = [job EXCEPT !["probe"] = Idle]
    /\ UNCHANGED <<stored, upstream, access>>

ProbeRefreshed ==
    /\ job["probe"].pc = "answered" /\ job["probe"].res = "ok"
    /\ RowWritten("probe")
    /\ job' = [job EXCEPT !["probe"] = Idle]
    /\ UNCHANGED <<access>>

ProbeRefused ==
    /\ Refused("probe")
    /\ job' = [job EXCEPT !["probe"] = Idle]
    /\ UNCHANGED <<stored, upstream, access>>

----------------------------------------------------------------------------
(* handleOauthPoll(): a login that is done leaves the token of a session of *)
(* its own in the row; the refreshes under way go on.  When the row refuses *)
(* it the login answers with an error, and its token is nobody's: nothing   *)
(* has changed here.                                                        *)

LoginDone(held) ==
    /\ Spare(held) # {}
    /\ live' = Issued(held) /\ dead' = dead \cap Known
    /\ stored' = Fresh(held)
    /\ UNCHANGED <<job, access>>

----------------------------------------------------------------------------

TokensNext(held) ==
    \/ Revoke \/ ProbeStarts \/ ProbeRefreshed \/ ProbeRefused \/ LoginDone(held)
    \/ \E r \in Refreshers :
          \/ RefreshServed(r, held) \/ RefreshDenied(r) \/ RefreshFails(r)
          \/ RefreshRetries(r)

TokensTypeOK ==
    LET Some == Tokens \cup {NoToken}
    IN  /\ stored \in Some /\ access \in Some
        /\ live \subseteq Tokens /\ dead \subseteq Tokens
        /\ job \in [Refreshers ->
                [pc : {"idle", "sent", "answered"}, tok : Some, again : BOOLEAN,
                 res : {"none", "ok", "denied", "failed"}, new : Some]]

(* The row is only left behind by the rotation where no order of the        *)
(* refreshers could have helped: its token still works, or the upstream     *)
(* revoked it or lost the answer, or the database refused its successor, or *)
(* the one refresher that rotated it is about to write the successor        *)
(* (setOauthRefresh() in doRefresh(), probeOauthAccount() and the login).   *)
Succeeding(r) == job[r].pc = "answered" /\ job[r].res = "ok" /\ job[r].tok = stored

TokenLives ==
    stored \in live \cup dead \cup {NoToken} \/ \E r \in Refreshers : Succeeding(r)
=============================================================================
