------------------------------- MODULE Gates -------------------------------
(***************************************************************************)
(* The gates a request passes between its authentication and its handler    *)
(* (createApp in src/server.ts), in their order: quota, tokens per minute,  *)
(* address list, requests per minute of its distributed token, requests per *)
(* minute of all.  They are passed in one turn of the event loop.  Quota    *)
(* and address list, which are TokenQuota's or keep no state, are gates     *)
(* that may refuse anyone; what they refuse changes nothing here.           *)
(*                                                                          *)
(* A sliding window is given by the checks it has counted, by age: that is  *)
(* what the buckets of RateLimit amount to (WindowExact there).  The tokens *)
(* per minute are counted in natural minutes (TpmLimiter).                  *)
(***************************************************************************)
EXTENDS Naturals, Functions

CONSTANTS
    Users,        \* distributed tokens
    ApiKey,       \* requests with an API key, which has no limits of its own
    Requests,     \* requests that may be under way at once
    Outside,
    RpmOf,        \* rpm_limit of each token; 0 is no limit
    GlobalRpm,    \* the limit of all together
    TpmLimit,     \* quota_tpm of a token
    Uses,         \* tokens that a request may turn out to use
    Minute,       \* seconds in a minute
    Rush,         \* bound: requests that arrive in one second
    MaxSpent      \* bound: tokens used in one minute

ASSUME GatesAssumption ==
    /\ ApiKey \notin Users
    /\ RpmOf \in [Users -> Nat] /\ GlobalRpm \in Nat \ {0} /\ TpmLimit \in Nat \ {0}
    /\ Uses \subseteq Nat /\ Minute \in Nat \ {0} /\ Rush \in Nat /\ MaxSpent \in Nat

Everyone == Users \cup {ApiKey}
Ages == 0 .. Minute - 1

VARIABLES
    second,   \* of the minute
    own,      \* per token and age: the checks its window has counted
    shared,   \* per age and sender: the checks the window of all has counted
    tpm,      \* per token: its minute in TpmLimiter, what is left of it and used
    inside,   \* per request: Outside, or who sent it and whether tpm was checked
    spent     \* history: per token, what requests that ended this minute used

gateVars == <<second, own, shared, tpm, inside, spent>>

NoMinute == [left |-> 0, used |-> 0]
Nobody == [u \in Everyone |-> 0]

GatesInit ==
    /\ second = 0
    /\ own = [u \in Users |-> [i \in Ages |-> 0]]
    /\ shared = [i \in Ages |-> Nobody]
    /\ tpm = [u \in Users |-> NoMinute]
    /\ inside = [r \in Requests |-> Outside]
    /\ spent = [u \in Users |-> 0]

----------------------------------------------------------------------------
(* The gates *)

Checks(w) == SumFunction(w)
Sent(u) == SumFunction([i \in Ages |-> shared[i][u]])
Arrived == SumFunction(shared[0])

(* checkTokenTpmLimit(): a minute that is over counts for nothing. *)
UsedTokens(u) == IF tpm[u].left > 0 THEN tpm[u].used ELSE 0
OverTpm(u) == u \in Users /\ UsedTokens(u) >= TpmLimit

(* checkTokenRpmLimit() and checkGlobalRpmLimit(): without a limit there is *)
(* no check; a check is counted also when it refuses.                       *)
HasRpm(u) == u \in Users /\ RpmOf[u] > 0
OwnFull(u) == HasRpm(u) /\ Checks(own[u]) >= RpmOf[u]
SharedFull == SumFunction([u \in Everyone |-> Sent(u)]) >= GlobalRpm

OwnCounted(u) == own' = IF HasRpm(u) THEN [own EXCEPT ![u][0] = @ + 1] ELSE own
SharedCounted(u) == shared' = [shared EXCEPT ![0][u] = @ + 1]

(* Mutant: the gate of all comes first. *)
SharedGateFirst(u) ==
    \/ SharedFull /\ SharedCounted(u) /\ UNCHANGED <<own, inside>>
    \/ ~SharedFull /\ OwnFull(u) /\ SharedCounted(u) /\ OwnCounted(u) /\ UNCHANGED inside

(* Turned away, by the gate of the token or by the gate of all. *)
RpmRefuses(u) ==
    \/ OwnFull(u) /\ OwnCounted(u) /\ UNCHANGED <<shared, inside>>
    \/ ~OwnFull(u) /\ SharedFull /\ OwnCounted(u) /\ SharedCounted(u) /\ UNCHANGED inside

(* When the database cannot be read there is no limit of tokens. *)
Arrive(u, checked) ==
    /\ Arrived < Rush /\ (u \in Users => own[u][0] < Rush)
    /\ checked => ~OverTpm(u)
    /\ \/ RpmRefuses(u)
       \/ /\ ~OwnFull(u) /\ ~SharedFull
          /\ OwnCounted(u) /\ SharedCounted(u)
          /\ \E r \in Requests :
                inside[r] = Outside /\ inside' = [inside EXCEPT ![r] = [who |-> u, checked |-> checked]]
    /\ UNCHANGED <<second, tpm, spent>>

----------------------------------------------------------------------------
(* The end of a request *)

(* Mutant: a minute from now on. *)
AddedFromNow(u, n) ==
    IF n = 0 THEN tpm
    ELSE [tpm EXCEPT ![u] = IF @.left = 0 THEN [left |-> Minute, used |-> n]
                            ELSE [left |-> @.left, used |-> @.used + n]]

(* TpmLimiter.add(): to the natural minute the request ends in. *)
Added(u, n) ==
    IF n = 0 THEN tpm
    ELSE [tpm EXCEPT ![u] = IF @.left = 0 THEN [left |-> Minute - second, used |-> n]
                            ELSE [left |-> @.left, used |-> @.used + n]]

(* In the finally of createApp; a request that never reached the upstream   *)
(* has used nothing.                                                        *)
Leave(r, n) ==
    /\ inside[r] # Outside
    /\ inside' = [inside EXCEPT ![r] = Outside]
    /\ IF inside[r].who = ApiKey THEN n = 0 /\ UNCHANGED <<tpm, spent>>
       ELSE /\ spent[inside[r].who] + n <= MaxSpent
            /\ tpm' = Added(inside[r].who, n)
            /\ spent' = [spent EXCEPT ![inside[r].who] = @ + n]
    /\ UNCHANGED <<second, own, shared>>

(* A second passes; windows that are over are dropped at any later check. *)
Shifted(w, new) == [i \in Ages |-> IF i = 0 THEN new ELSE w[i - 1]]
Shorter(m) == IF m.left <= 1 THEN NoMinute ELSE [m EXCEPT !.left = @ - 1]

SecondPasses ==
    /\ second' = (second + 1) % Minute
    /\ own' = [u \in Users |-> Shifted(own[u], 0)]
    /\ shared' = Shifted(shared, Nobody)
    /\ tpm' = [u \in Users |-> Shorter(tpm[u])]
    /\ spent' = IF second' = 0 THEN [u \in Users |-> 0] ELSE spent
    /\ UNCHANGED inside

GatesNext ==
    \/ \E u \in Everyone, checked \in BOOLEAN : Arrive(u, checked)
    \/ \E r \in Requests, n \in Uses : Leave(r, n)
    \/ SecondPasses

GatesSpec == GatesInit /\ [][GatesNext]_gateVars

----------------------------------------------------------------------------

GatesTypeOK ==
    /\ second \in Ages
    /\ own \in [Users -> [Ages -> Nat]]
    /\ shared \in [Ages -> [Everyone -> Nat]]
    /\ tpm \in [Users -> [left : Nat, used : Nat]]
    /\ inside \in [Requests -> {Outside} \cup [who : Everyone, checked : BOOLEAN]]
    /\ spent \in [Users -> Nat]

(* However fast the requests of a token come, and whatever is refused, in   *)
(* any minute they take no more of the limit of all than the limit of the   *)
(* token itself: who has one cannot shut out the others (the order of the   *)
(* gates in createApp, src/server.ts:4030-4041).                            *)
NeighboursShielded == \A u \in Users : HasRpm(u) => Sent(u) <= RpmOf[u]

(* A request is let in only while what the token's requests have used in    *)
(* this natural minute is below the limit, across the turns of the minute   *)
(* and minutes nobody used (TpmLimiter), unless the database fails.         *)
AdmitsBelowTpm ==
    [][\A r \in Requests : inside[r] = Outside /\ inside'[r] # Outside /\ inside'[r].checked =>
          inside'[r].who = ApiKey \/ spent[inside'[r].who] < TpmLimit]_gateVars

=============================================================================
