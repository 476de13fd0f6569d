----------------------------- MODULE ProbeRound -----------------------------
(***************************************************************************)
(* The rounds of the probe (startKeyProbe and runProbeRound in              *)
(* src/keyprobe.ts): every so often, the accounts whose retry_until has     *)
(* come and that nobody used lately are asked for the state of each of      *)
(* their keys, one after another, and the verdict goes into the account's   *)
(* row with the time of the next probe.  An account without keys is asked   *)
(* by its OAuth session instead.                                            *)
(*                                                                          *)
(* Deadlines are kept as the time left until they come, zero once they have *)
(* come.  What a failure does to a key of the pool is in KeyPool, what a    *)
(* probe does to the session's tokens in OauthTokens.                       *)
(***************************************************************************)
EXTENDS Naturals, SequencesExt

CONSTANTS
    Rows,        \* the accounts in the order of their ids: the keys of each
    Interval,    \* keyProbeIntervalMs
    IdleTime,    \* keyProbeIdleMs
    Early,       \* PROBE_EARLY_MS
    AuthWait,    \* keyCooldownMs * 12
    Floor,       \* ACCOUNT_RETRY_FLOOR_MS
    SessionWait, \* keyProbeTimeoutMs * 10
    Resets,      \* how long an error may say that its limit lasts
    MaxMishaps   \* bound: rounds that throw and restarts

ASSUME RoundsAssumption ==
    /\ {Interval, IdleTime} \subseteq Nat \ {0} /\ Early \in Nat
    /\ {AuthWait, Floor, SessionWait, MaxMishaps} \cup Resets \subseteq Nat

Accounts == 1..Len(Rows)
RowKeys  == UNION {ToSet(Rows[a]) : a \in Accounts}

VARIABLES
    status,    \* accounts.status, and what the probes of its keys had answered
    wait,      \* time until retry_until - PROBE_EARLY_MS
    fresh,     \* time for which the newest lastUsedAt of the keys counts as use
    traffic,   \* history: the same, of requests of clients only
    manual,    \* the keys the operator has disabled
    untilTick, \* time until the interval fires
    round,     \* the round under way
    mishaps

roundVars == <<status, wait, fresh, traffic, manual, untilTick, round, mishaps>>

(* pc: idle, looking for the next key to ask, asking one. *)
NoRound == [pc |-> "idle", todo |-> <<>>, at |-> 1, age |-> 0,
            fail |-> "none", retry |-> 0, heard |-> {}]

RoundsInit ==
    /\ status = [a \in Accounts |-> [is |-> "unknown", heard |-> {}]]
    /\ wait = [a \in Accounts |-> 0]
    /\ fresh = wait /\ traffic = wait
    /\ manual \in SUBSET RowKeys
    /\ untilTick = 0 /\ round = NoRound /\ mishaps = 0

Left(x, by) == IF x > by THEN x - by ELSE 0
Longest == IdleTime + Interval

----------------------------------------------------------------------------
(* Around a round.  The loop over accounts and keys is left only to wait    *)
(* for an answer: nothing else happens while it is looking.                 *)

Elsewhere == round.pc # "looking"

RoundTick ==
    /\ Elsewhere /\ untilTick > 0 /\ untilTick' = untilTick - 1
    /\ wait' = [a \in Accounts |-> Left(wait[a], 1)]
    /\ fresh' = [a \in Accounts |-> Left(fresh[a], 1)]
    /\ traffic' = [a \in Accounts |-> Left(traffic[a], 1)]
    /\ round' = IF round.pc = "idle" \/ round.age = Longest
                THEN round ELSE [round EXCEPT !.age = @ + 1]
    /\ UNCHANGED <<status, manual, mishaps>>

(* A client's request takes a key of the account from the pool. *)
Used(a) ==
    /\ Elsewhere /\ Rows[a] # <<>>
    /\ fresh' = [fresh EXCEPT ![a] = IdleTime]
    /\ traffic' = [traffic EXCEPT ![a] = IdleTime]
    /\ UNCHANGED <<status, wait, manual, untilTick, round, mishaps>>

OperatorTurns(k) ==
    /\ Elsewhere
    /\ manual' = IF k \in manual THEN manual \ {k} ELSE manual \cup {k}
    /\ UNCHANGED <<status, wait, fresh, traffic, untilTick, round, mishaps>>

(* Rows stay; the pool forgets when its keys were used; the first round is  *)
(* not put off to the first interval.                                       *)
ProcessRestarts ==
    /\ Elsewhere /\ mishaps < MaxMishaps /\ mishaps' = mishaps + 1
    /\ fresh' = [a \in Accounts |-> 0]
    /\ untilTick' = 0 /\ round' = NoRound
    /\ UNCHANGED <<status, wait, traffic, manual>>

----------------------------------------------------------------------------
(* A round *)

Candidates ==
    SetToSortSeq({a \in Accounts : wait[a] = 0 /\ fresh[a] = 0}, <)

(* tick() returns at once while the round before is under way. *)
TimerTicks ==
    /\ untilTick = 0 /\ Elsewhere /\ untilTick' = Interval
    /\ round' = IF round.pc = "idle" /\ Candidates # <<>>
                THEN [NoRound EXCEPT !.pc = "looking", !.todo = Candidates]
                ELSE round
    /\ UNCHANGED <<status, wait, fresh, traffic, manual, mishaps>>

Now     == Head(round.todo)
Session == Rows[Now] = <<>>
AskedAll == round.at > (IF Session THEN 1 ELSE Len(Rows[Now]))

SkipManual ==
    /\ round.pc = "looking" /\ ~AskedAll /\ ~Session
    /\ Rows[Now][round.at] \in manual
    /\ round' = [round EXCEPT !.at = @ + 1, !.heard = @ \cup {"skipped"}]
    /\ UNCHANGED <<status, wait, fresh, traffic, manual, untilTick, mishaps>>

AskKey ==
    /\ round.pc = "looking" /\ ~AskedAll
    /\ ~Session => Rows[Now][round.at] \notin manual
    /\ round' = [round EXCEPT !.pc = "asking"]
    /\ UNCHANGED <<status, wait, fresh, traffic, manual, untilTick, mishaps>>

(* classifyAccountError(): the state of the account and when to ask again.   *)
(* A limit lasts as long as its message says, or the fallback, a day; so    *)
(* does the exclusion of a region.  In the row every failure is "failing":  *)
(* no property tells the states apart.                                      *)
RetryAfter ==
    [invalid |-> {AuthWait}, insufficient |-> {Floor}, error |-> {Floor},
     cooldown |-> {Floor} \cup Resets, limit |-> Resets, region |-> Resets]

(* probeOauthAccount() has times of its own: a session that is over, and    *)
(* any other failure.                                                       *)
RetryTimes ==
    IF Session THEN {IdleTime, SessionWait}
    ELSE UNION {RetryAfter[s] : s \in DOMAIN RetryAfter}

(* The first failure of the account is the one that is kept. *)
Heard(answer, retry) ==
    round' = [round EXCEPT !.pc = "looking", !.at = @ + 1, !.heard = @ \cup {answer},
                !.fail  = IF answer = "ok" \/ @ # "none" THEN @ ELSE answer,
                !.retry = IF answer = "ok" \/ round.fail # "none" THEN @ ELSE retry]

(* probeKey() marks the key as used now if it answered: the next round       *)
(* would ask it again, otherwise.                                           *)
KeyAnswers ==
    /\ round.pc = "asking"
    /\ \/ Heard("ok", 0) /\ fresh' = IF Session THEN fresh ELSE [fresh EXCEPT ![Now] = IdleTime]
       \/ Heard("unsupported", 0) /\ ~Session /\ UNCHANGED fresh
       \/ (\E t \in RetryTimes : Heard("refused", t)) /\ UNCHANGED fresh
    /\ UNCHANGED <<status, wait, traffic, manual, untilTick, mishaps>>

NextAccount ==
    IF Len(round.todo) = 1 THEN NoRound
    ELSE [NoRound EXCEPT !.pc = "looking", !.todo = Tail(round.todo), !.age = round.age]

(* A model the account does not have is no failure of the account.  The     *)
(* time of the next probe counts from the start of the round.               *)
Conclude ==
    /\ round.pc = "looking" /\ AskedAll
    /\ LET failed == round.fail = "refused"
           pause  == IF failed THEN round.retry ELSE IdleTime IN
       /\ status' = [status EXCEPT ![Now] =
                       [is |-> IF failed THEN "failing" ELSE "ok", heard |-> round.heard]]
       /\ wait' = [wait EXCEPT ![Now] = Left(pause, Early + round.age)]
    /\ round' = NextAccount
    /\ UNCHANGED <<fresh, traffic, manual, untilTick, mishaps>>

(* Mutant: ... the flag is taken back on success only. *)
RoundThrowsRunning ==
    /\ round.pc = "asking" /\ mishaps < MaxMishaps /\ mishaps' = mishaps + 1
    /\ round' = [round EXCEPT !.pc = "gone"]
    /\ UNCHANGED <<status, wait, fresh, traffic, manual, untilTick>>

(* Something in the round throws: it is over, for the other accounts, too. *)
RoundThrows ==
    /\ round.pc = "asking" /\ mishaps < MaxMishaps /\ mishaps' = mishaps + 1
    /\ round' = NoRound
    /\ UNCHANGED <<status, wait, fresh, traffic, manual, untilTick>>

RoundsNext ==
    \/ RoundTick \/ ProcessRestarts \/ TimerTicks
    \/ SkipManual \/ AskKey \/ KeyAnswers \/ Conclude \/ RoundThrows
    \/ \E a \in Accounts : Used(a)
    \/ \E k \in RowKeys : OperatorTurns(k)

RoundsSpec == RoundsInit /\ [][RoundsNext]_roundVars

(* Time goes on, the interval fires, a probe has its own timeout, and the   *)
(* loop goes on by itself.                                                  *)
RoundsFairness ==
    /\ WF_roundVars(RoundTick) /\ WF_roundVars(TimerTicks) /\ WF_roundVars(KeyAnswers)
    /\ WF_roundVars(SkipManual \/ AskKey \/ Conclude)

----------------------------------------------------------------------------
(* However long probes last, whatever they answer, and after rounds that    *)
(* threw and restarts: an account that no client uses is probed again and   *)
(* again (the flag of startKeyProbe, the deadlines of runProbeRound).       *)
ProbedAgain ==
    \A a \in Accounts :
       []<>(traffic[a] > 0 \/ (round.pc \in {"looking", "asking"} /\ Now = a))

(* errors.ts:286-376 and keyprobe.ts:19: an account whose probe failed is   *)
(* probed again when the time that goes with its failure is over, unless    *)
(* there is real traffic.  The code counts the answer of a probe as use,    *)
(* too (keypool.ts:577-582): when one key of the account answers and        *)
(* another one fails, the failure is not retried until IdleTime is over.    *)
FailureRetried ==
    [][TimerTicks /\ round.pc = "idle" =>
         \A a \in Accounts :
            status[a].is = "failing" /\ wait[a] = 0 /\ traffic[a] = 0
               => a \in ToSet(round'.todo)]_roundVars

(* keyprobe.ts:290-291: ok if every key passed.  The code says so as well    *)
(* when no key was asked, and when the first failure was of the model.      *)
OkMeansAnswered ==
    \A a \in Accounts : status[a].is = "ok" => status[a].heard = {"ok"}
=============================================================================
