------------------------------- MODULE Shield -------------------------------
(***************************************************************************)
(* The edge shield (scripts/dwgx/kiro_shield.py): a proxy before the        *)
(* gateway that answers no error it can wait out.  One thread serves the     *)
(* requests of a connection in turn.  Every answer of the upstream gets a    *)
(* verdict, and every verdict has its own delay, its own number of tries     *)
(* and its own deadline, opened when it is first met; only 2xx and "pass"    *)
(* reach the client as they are, the rest ends as 503.  A streaming client   *)
(* gets a head and comment lines while it waits.                            *)
(*                                                                          *)
(* Times are counted from the start of the request.  How much longer a delay *)
(* is at the n-th try is a list of factors, in place of the powers of 1.4 to *)
(* 1.7.  The budgets may be changed at any time by a request to the shield's *)
(* own page.  Counters and the list of     *)
(* events are left out: nothing the proxy does depends on them.              *)
(***************************************************************************)
EXTENDS Integers, Sequences, FiniteSets, Functions

CONSTANTS
    Conns,          \* connections
    Configs,        \* the settings the operator switches between
    MaxConcurrency, \* MAX_CONCURRENCY
    Marks,          \* what the bodies of the upstream may say
    StatusCodes,    \* status codes of the upstream
    Hints,          \* values of Retry-After; 0 for none
    Took,           \* how long a call of the upstream may take
    Growth,         \* the factors by which a delay grows, the last one for good
    PermDelay, ClientDelay, SwapFirst, SwapCap, CoolFallback,
    NetFirst, NetCap, BackoffCap, HintCap

Purses == {"main", "swap", "auth", "perm", "client"}

(* apply_config() takes positive numbers only, and names of verdicts. *)
Tunable(cf) ==
    /\ cf.tries \in [Purses -> Nat \ {0}]
    /\ cf.budget \in [Purses -> Nat \ {0}]
    /\ cf.passthrough \subseteq {"retry", "cool", "swap", "auth", "perm", "client", "network"}

(* The groups of words looked for in the body of an error. *)
Markers == {"none", "quota", "fault", "permanent", "cooling", "pool disabled", "credentials",
            "transient"}

(* is_inference_path(), and the prefixes of the panel's pages. *)
Paths == {"inference", "panel", "other"}

ASSUME ShieldAssumption ==
    /\ MaxConcurrency \in Nat \ {0}
    /\ Marks \subseteq Markers
    /\ \A cf \in Configs : Tunable(cf)

(* The operator switches between finitely many settings. *)
ASSUME ConfigsFinite == IsFiniteSet(Configs)

ASSUME DelayAssumption ==
    /\ Growth \in Seq(Nat) /\ Growth # <<>>
    /\ Hints \subseteq Nat /\ Took \subseteq Nat
    /\ {PermDelay, ClientDelay, SwapFirst, SwapCap, CoolFallback,
        NetFirst, NetCap, BackoffCap, HintCap} \subseteq Nat

VARIABLES
    conf,   \* the settings in force
    slots,  \* the semaphore
    conn    \* per connection: the thread and the request it serves

shieldVars == <<conf, slots, conn>>

Never == -1
Windows == {"main", "swap", "perm", "client"}

(* served counts to 2: only the first request of a connection matters; heads, *)
(* end and raw are what the client has seen of the answer, slept is the sum   *)
(* of its delays.                                                           *)
Fresh == [pc |-> "idle", ka |-> FALSE, gone |-> FALSE, served |-> 0, stream |-> FALSE,
          path |-> "inference", n |-> 0, now |-> 0,
          count |-> [w \in Windows |-> 0], until |-> [w \in Windows |-> Never],
          heads |-> 0, end |-> "none", slept |-> 0, raw |-> FALSE]

ShieldInit ==
    /\ conf \in Configs
    /\ slots = MaxConcurrency
    /\ conn = [c \in Conns |-> Fresh]

Lesser(a, b) == IF a < b THEN a ELSE b
Greater(a, b) == IF a < b THEN b ELSE a

----------------------------------------------------------------------------
(* classify(), and the delays *)

(* A marker in the body decides before the path does: only 3xx, and 401 or  *)
(* 403 of the panel, come first.                                            *)
Classify(status, mark, path) ==
         IF status \in 300..399                              THEN "pass"
    ELSE IF status \in {401, 403} /\ path = "panel"          THEN "pass"
    ELSE IF mark = "quota"                                   THEN "pass"
    ELSE IF mark = "fault" /\ status \in 400..499            THEN "client"
    ELSE IF mark = "permanent"                               THEN "perm"
    ELSE IF mark \in {"cooling", "pool disabled"}            THEN "cool"
    ELSE IF mark = "credentials"                             THEN "swap"
    ELSE IF mark = "transient"                               THEN "retry"
    ELSE IF path # "inference"                               THEN "pass"
    ELSE IF status \in {429, 500, 502, 503, 504}             THEN "retry"
    ELSE IF status \in {401, 404, 405, 413, 414, 431}        THEN "perm"
    ELSE IF status \in 400..499                              THEN "auth"
    ELSE "retry"

Grown(first, n, cap) == Lesser(first * Growth[Lesser(Greater(1, n), Len(Growth))], cap)

NetworkDelay(n) == Grown(NetFirst, n, NetCap)
SwapDelay(n) == Grown(SwapFirst, n, SwapCap)
CoolDelay(n, hint) ==
    Grown(IF hint = 0 THEN CoolFallback ELSE Lesser(hint, SwapCap), n, SwapCap)
BackoffDelay(n, hint) ==
    IF hint = 0 THEN Grown(1, n, BackoffCap) ELSE Lesser(hint, HintCap)

(* What a verdict waits for, counts in, and is limited by. *)
Window(v) == IF v \in {"swap", "cool", "auth"} THEN "swap"
             ELSE IF v \in {"perm", "client"} THEN v ELSE "main"
Purse(v) == IF v = "auth" THEN "auth" ELSE Window(v)
Delay(v, n, hint) ==
    CASE v = "client"           -> ClientDelay
      [] v = "perm"             -> PermDelay
      [] v = "swap"             -> SwapDelay(n)
      [] v \in {"cool", "auth"} -> CoolDelay(n, hint)
      [] v = "retry"            -> BackoffDelay(n, hint)

----------------------------------------------------------------------------
(* Writing to the client *)

(* The thread is done with the request: of its locals nothing is left, of    *)
(* the handler's fields _ka_open is.                                        *)
Over(r, pc, end) ==
    [Fresh EXCEPT !.pc = pc, !.end = end, !.ka = r.ka, !.gone = r.gone, !.served = r.served,
                  !.heads = r.heads, !.raw = r.raw]

(* _fail(): an event in the stream when the head is thought to be out.      *)
Failed(r) == Over([r EXCEPT !.heads = IF r.ka THEN @ ELSE @ + 1], "idle", "whole")

(* _relay_body(): the answer as it came, head and all. *)
Passed(r) == Over([r EXCEPT !.heads = @ + 1, !.raw = r.ka], "idle", "whole")

(* Mutant: the answer after the waiting gets a head of its own. *)
RelayingAnew(r) == [r EXCEPT !.pc = "relaying", !.heads = @ + 1]

(* _relay() sends a head, _relay_after_keepalive() goes on with the body.   *)
Relaying(r) == [r EXCEPT !.pc = "relaying", !.heads = IF r.ka THEN @ ELSE @ + 1]

(* _sleep_with_keepalive(): now is the time when the delay will be over.     *)
Sleeping(r, delay) ==
    [r EXCEPT !.pc = "sleeping", !.now = @ + delay, !.slept = @ + delay,
              !.ka = @ \/ r.stream,
              !.heads = IF r.stream /\ ~r.ka THEN @ + 1 ELSE @]

Asking(r) == [r EXCEPT !.pc = "asking", !.n = @ + 1]

(* One answer of a thread that is about to leave the proxy gives its slot back. *)
Step(c, r) ==
    /\ conn' = [conn EXCEPT ![c] = r]
    /\ slots' = IF r.pc \in {"idle", "closed"} THEN slots + 1 ELSE slots

----------------------------------------------------------------------------
(* A request arrives: the thread may serve it, or refuse it. *)

Begun(c, s, p) ==
    [Fresh EXCEPT !.ka = conn[c].ka, !.gone = conn[c].gone, !.served = Lesser(conn[c].served + 1, 2),
                  !.stream = s, !.path = p, !.until["main"] = conf.budget["main"]]

Ready(c) == conn[c].pc = "idle" /\ ~conn[c].gone

Accept(c, s, p) ==
    /\ Ready(c) /\ slots > 0
    /\ slots' = slots - 1
    /\ conn' = [conn EXCEPT ![c] = Asking(Begun(c, s, p))]
    /\ UNCHANGED conf

(* _reject_busy(), and a Host of this machine in a request from elsewhere.  *)
RejectBusy(c) ==
    /\ Ready(c)
    /\ conn' = [conn EXCEPT ![c] = Failed(Begun(c, FALSE, "inference"))]
    /\ UNCHANGED <<conf, slots>>

----------------------------------------------------------------------------
(* The upstream answers, or cannot be reached. *)

Elapsed(c, t) == [conn[c] EXCEPT !.now = @ + t]

Unreachable(c, t) ==
    LET r == Elapsed(c, t) IN
    /\ conn[c].pc = "asking"
    /\ Step(c, IF r.now >= r.until["main"] THEN Failed(r)
               ELSE Sleeping(r, NetworkDelay(r.n)))
    /\ UNCHANGED conf

Succeeds(c, t) ==
    /\ conn[c].pc = "asking"
    /\ Step(c, Relaying(Elapsed(c, t)))
    /\ UNCHANGED conf

(* Mutant: the window of a verdict opens anew with every answer. *)
CountedAnew(r, v) ==
    LET w == Window(v) IN
    IF w = "main" THEN r
    ELSE [r EXCEPT !.count[w] = @ + 1, !.n = IF w = "swap" THEN @ - 1 ELSE @,
                   !.until[w] = r.now + conf.budget[Purse(v)]]

(* The verdict is counted, and its window opened; the swap family gives the  *)
(* attempt back.                                                            *)
Counted(r, v) ==
    LET w == Window(v) IN
    IF w = "main" THEN r
    ELSE [r EXCEPT !.count[w] = @ + 1, !.n = IF w = "swap" THEN @ - 1 ELSE @,
                   !.until[w] = IF @ = Never THEN r.now + conf.budget[Purse(v)] ELSE @]

Spent(r, v, delay) ==
    LET w == Window(v) IN
    \/ IF w = "main" THEN r.n >= conf.tries["main"]
                     ELSE r.count[w] > conf.tries[Purse(v)]
    \/ r.until[w] - r.now < delay

Refused(c, t, status, mark, hint) ==
    LET v == Classify(status, mark, conn[c].path)
        r == Counted(Elapsed(c, t), v)
        tries == IF Window(v) = "main" THEN r.n ELSE r.count[Window(v)] IN
    /\ conn[c].pc = "asking"
    /\ Step(c, IF v = "pass" \/ v \in conf.passthrough THEN Passed(Elapsed(c, t))
               ELSE LET delay == Delay(v, tries, hint) IN
                    IF Spent(r, v, delay) THEN Failed(r) ELSE Sleeping(r, delay))
    /\ UNCHANGED conf

----------------------------------------------------------------------------
(* After the delay: the next attempt, if the count allows one. *)

Resume(c) ==
    /\ conn[c].pc = "sleeping"
    /\ Step(c, IF conn[c].n < conf.tries["main"] THEN Asking(conn[c]) ELSE Failed(conn[c]))
    /\ UNCHANGED conf

(* Only a stream notices that its client has left. *)
Notice(c) ==
    /\ conn[c].pc = "sleeping" /\ conn[c].stream /\ conn[c].gone
    /\ Step(c, Over(conn[c], "idle", "none"))
    /\ UNCHANGED conf

(* The end of the body; a reset by the upstream is taken for one by the      *)
(* client and ends the thread's work without a last chunk; what else breaks  *)
(* off closes the connection.                                                *)
RelayEnds(c) ==
    /\ conn[c].pc = "relaying"
    /\ \/ Step(c, Over(conn[c], "idle", "whole"))
       \/ Step(c, Over(conn[c], "idle", "cut"))
       \/ Step(c, Over(conn[c], "closed", "cut"))
    /\ UNCHANGED conf

----------------------------------------------------------------------------
(* The client, and the operator *)

Leave(c) ==
    /\ conn[c].pc # "closed" /\ ~conn[c].gone
    /\ conn' = [conn EXCEPT ![c].gone = TRUE]
    /\ UNCHANGED <<conf, slots>>

Close(c) ==
    /\ conn[c].pc = "idle" /\ conn[c].gone
    /\ conn' = [conn EXCEPT ![c].pc = "closed"]
    /\ UNCHANGED <<conf, slots>>

(* A new connection has a handler of its own. *)
Connect(c) ==
    /\ conn[c].pc = "closed"
    /\ conn' = [conn EXCEPT ![c] = Fresh]
    /\ UNCHANGED <<conf, slots>>

(* apply_config(): deadlines that were set stay. *)
Configure(cf) ==
    /\ cf # conf /\ conf' = cf
    /\ UNCHANGED <<slots, conn>>

----------------------------------------------------------------------------

Answer(c) ==
    \E t \in Took :
        \/ Unreachable(c, t)
        \/ Succeeds(c, t)
        \/ \E status \in StatusCodes, mark \in Marks, hint \in Hints : Refused(c, t, status, mark, hint)

Serve(c) == Answer(c) \/ Resume(c) \/ Notice(c) \/ RelayEnds(c)

ShieldNext ==
    \/ \E c \in Conns :
        \/ \E s \in BOOLEAN, p \in Paths : Accept(c, s, p)
        \/ RejectBusy(c) \/ Serve(c) \/ Leave(c) \/ Close(c) \/ Connect(c)
    \/ \E cf \in Configs : Configure(cf)

ShieldSpec == ShieldInit /\ [][ShieldNext]_shieldVars

----------------------------------------------------------------------------
(* Properties *)

Working(c) == conn[c].pc \in {"asking", "sleeping", "relaying"}

ShieldTypeOK ==
    /\ conf \in Configs /\ slots \in 0..MaxConcurrency
    /\ \A c \in Conns :
        /\ conn[c].pc \in {"idle", "asking", "sleeping", "relaying", "closed"}
        /\ conn[c].n \in Nat /\ conn[c].now \in Nat /\ conn[c].served \in 0..2
        /\ conn[c].until["main"] \in Nat \cup {Never}
    /\ slots + Cardinality({c \in Conns : Working(c)}) = MaxConcurrency

Most(kind, what) == CHOOSE m \in {cf[kind][what] : cf \in Configs} :
                        \A cf \in Configs : cf[kind][what] <= m

(* However the verdicts mix, and whatever the operator changes meanwhile, a  *)
(* request calls the upstream no more often than the attempts and the tries  *)
(* of the swap family together, and waits no longer than all the windows one *)
(* after the other and one delay of the network, whose wait alone is begun   *)
(* without regard to what is left.                                          *)
EffortBounded ==
    \A c \in Conns :
        LET swap(kind) == Greater(Most(kind, "swap"), Most(kind, "auth")) IN
        /\ conn[c].n + conn[c].count["swap"] <= Most("tries", "main") + swap("tries")
        /\ conn[c].slept <= Most("budget", "main") + NetCap + swap("budget")
                            + Most("budget", "perm") + Most("budget", "client")

(* A thread is not back for the next request before the last one has its     *)
(* answer, whole or cut, or its client has left.  The answer has one head if *)
(* the request was the first of its connection and was not passed on raw     *)
(* after the waiting had begun.                                             *)
OneAnswer ==
    \A c \in Conns :
        LET r == conn[c] IN
        r.pc = "idle" /\ r.served > 0 /\ ~r.gone =>
            /\ r.end # "none"
            /\ r.served = 1 /\ ~r.raw => r.heads = 1

(* An answer begins with a head: "the head is out already" (kiro_shield.py,  *)
(* where the answer goes on after the waiting) is so.                        *)
HeadFirst ==
    \A c \in Conns : conn[c].end = "whole" => conn[c].heads > 0
=============================================================================
