------------------------------ MODULE Gateway ------------------------------
(***************************************************************************)
(* The life of a request on the proxy paths of src/server.ts               *)
(* (/v1/chat/completions and /v1/messages) from the entry checks to the     *)
(* last byte, with what all requests share: the circuit breaker, the        *)
(* concurrency gate, and the key pool with its load counts, cooldowns and   *)
(* learned model blocks.                                                    *)
(*                                                                          *)
(* Between two awaits a handler runs alone, so one action is one turn of    *)
(* the event loop: it may report a failure, give a key back and acquire     *)
(* another in one step.  The turns of different requests, the arrival of    *)
(* upstream answers, timers and clients that leave interleave freely.       *)
(*                                                                          *)
(* The pool is reduced to what a handler can see of it: which keys are      *)
(* cooling down (module KeyPool has the deadlines), how many calls each     *)
(* carries, and which may not be used for the model asked for.  One model   *)
(* and one account per key are modelled.                                    *)
(***************************************************************************)
EXTENDS Integers, FiniteSets, Breaker

CONSTANTS
    Requests,       \* handler activations
    Keys,           \* upstream keys
    NoKey,
    Shapes,         \* the kinds of request to consider, of those below
    MaxConcurrent   \* cfg.maxConcurrentRequests

AllShapes == {"chat", "chat-stream", "messages", "messages-stream"}

ASSUME GatewayAssumption ==
    /\ IsFiniteSet(Requests)
    /\ NoKey \notin Keys
    /\ Shapes \subseteq AllShapes
    /\ MaxConcurrent \in Nat \ {0}

VARIABLES
    phase,      \* where the handler of a request waits
    shape,      \* which endpoint, streaming or not; "none" outside a handler
    attempt,    \* calls to postUpstreamChat so far
    key,        \* UpstreamCall.key of the current attempt
    released,   \* its `released` flag: nothing to give back
    tried,      \* history: keys of the earlier attempts
    status,     \* kind of the upstream's answer to the current attempt
    gone,       \* the client disconnected: res 'close', controller aborted
    answer,     \* what the client was sent
    slot,       \* the request counts in concurrentInFlight
    inFlight,   \* concurrentInFlight
    load,       \* PooledKey.inFlight
    cooling,    \* keys with disabledUntil in the future
    blocked,    \* keys whose account is blocked for the model
    breaker     \* the circuit breaker

locals == <<shape, attempt, key, released, tried, status>>
request == <<phase, locals, gone, answer, slot>>
shared == <<inFlight, load, cooling, blocked, breaker>>
vars == <<request, shared>>

Phases == {"idle", "gates", "fetch", "error-body", "body", "over"}
Failures == {"auth", "rate-limit", "quota-exhausted", "transient"}
Statuses == {"none", "ok", "model"} \cup Failures
Answers == {"none", "circuit-open", "overloaded", "refused", "pool-empty", "model-refused",
            "unavailable", "upstream-error", "ok", "stream-end", "stream-error",
            "stream-cut", "malformed", "timed-out"}

Streaming(r) == shape[r] \in {"chat-stream", "messages-stream"}
Chat(r) == shape[r] \in {"chat", "chat-stream"}

(* Mutant: the key to avoid is not avoided. *)
CandidatesAny(cool, block, excluded) == (Keys \ cool) \ block

(* The keys acquire() may return: available, not excluded, not blocked. *)
Healthy(cool) == Keys \ cool
Candidates(cool, block, excluded) == (Healthy(cool) \ {excluded}) \ block
LeastLoaded(ks, counts) == {k \in ks : \A j \in ks : counts[k] <= counts[j]}

(* releaseOnce(): gives the key back the first time it is called. *)
LoadAfterRelease(r) ==
    IF released[r] \/ load[key[r]] = 0 THEN load ELSE [load EXCEPT ![key[r]] = @ - 1]

(* markFailure() as far as availability goes, and the class that            *)
(* classifyUpstreamFailure() gives an answer: "the model is not supported"  *)
(* has none of its own (a 401 of another type is a rate limit, a 400 or 404 *)
(* is transient).                                                           *)
Classes(s) == IF s = "model" THEN {"rate-limit", "transient"} ELSE {s}
CoolingAfter(k, class) == IF class = "transient" THEN cooling ELSE cooling \cup {k}

(* The handler answers (a client that left sees nothing of it) and returns: *)
(* its local variables are gone, whether or not it gave its key back.       *)
Return(r, a) ==
    /\ answer' = [answer EXCEPT ![r] = IF gone[r] THEN @ ELSE a]
    /\ phase' = [phase EXCEPT ![r] = "over"]
    /\ shape' = [shape EXCEPT ![r] = "none"]
    /\ attempt' = [attempt EXCEPT ![r] = 0]
    /\ key' = [key EXCEPT ![r] = NoKey]
    /\ released' = [released EXCEPT ![r] = TRUE]
    /\ tried' = [tried EXCEPT ![r] = {}]
    /\ status' = [status EXCEPT ![r] = "none"]

Init ==
    /\ phase = [r \in Requests |-> "idle"]
    /\ shape = [r \in Requests |-> "none"]
    /\ attempt = [r \in Requests |-> 0]
    /\ key = [r \in Requests |-> NoKey]
    /\ released = [r \in Requests |-> TRUE]
    /\ tried = [r \in Requests |-> {}]
    /\ status = [r \in Requests |-> "none"]
    /\ gone = [r \in Requests |-> FALSE]
    /\ answer = [r \in Requests |-> "none"]
    /\ slot = [r \in Requests |-> FALSE]
    /\ inFlight = 0
    /\ load = [k \in Keys |-> 0]
    /\ cooling = {}
    /\ blocked = {}
    /\ breaker = ClosedBreaker

----------------------------------------------------------------------------
(* Entry *)

(* The synchronous part of the dispatcher: first the breaker, which may     *)
(* spend its probe on this request, then the concurrency gate.              *)
Arrive(r) ==
    /\ phase[r] = "idle"
    /\ breaker' = AfterEntry(breaker)
    /\ IF ShouldReject(breaker) \/ inFlight >= MaxConcurrent
       THEN /\ Return(r, IF ShouldReject(breaker) THEN "circuit-open" ELSE "overloaded")
            /\ UNCHANGED <<slot, inFlight>>
       ELSE /\ \E s \in Shapes : shape' = [shape EXCEPT ![r] = s]
            /\ phase' = [phase EXCEPT ![r] = "gates"]
            /\ slot' = [slot EXCEPT ![r] = TRUE]
            /\ inFlight' = inFlight + 1
            /\ UNCHANGED <<attempt, key, released, tried, status, answer>>
    /\ UNCHANGED <<gone, load, cooling, blocked>>

(* Authentication, limits, quota, body and model checks turn it away. *)
Refuse(r) ==
    /\ phase[r] = "gates"
    /\ Return(r, "refused")
    /\ UNCHANGED <<gone, slot, shared>>

(* What the client is told when acquire() throws: no key is available, or   *)
(* none of those that are may be used for the model.                        *)
NoKeyAnswer(cool, excluded) ==
    IF Healthy(cool) \ {excluded} = {} THEN "pool-empty" ELSE "model-refused"

(* postUpstreamChat() up to its fetch, on a pool in the given state: the    *)
(* call waits for headers, or acquire() throws and the handler answers.     *)
CallUpstream(r, excluded, counts, cool) ==
    \/ \E k \in LeastLoaded(Candidates(cool, blocked, excluded), counts) :
          /\ attempt' = [attempt EXCEPT ![r] = @ + 1]
          /\ key' = [key EXCEPT ![r] = k]
          /\ released' = [released EXCEPT ![r] = FALSE]
          /\ tried' = [tried EXCEPT ![r] = @ \cup ({key[r]} \ {NoKey})]
          /\ load' = [counts EXCEPT ![k] = @ + 1]
          /\ phase' = [phase EXCEPT ![r] = "fetch"]
          /\ status' = [status EXCEPT ![r] = "none"]
          /\ UNCHANGED <<shape, answer>>
    \/ /\ Candidates(cool, blocked, excluded) = {}
       /\ Return(r, NoKeyAnswer(cool, excluded))
       /\ load' = counts

StartCall(r) ==
    /\ phase[r] = "gates"
    /\ CallUpstream(r, NoKey, load, cooling)
    /\ UNCHANGED <<gone, slot, inFlight, cooling, blocked, breaker>>

(* The handlers of the two endpoints, up to their first wait for upstream:  *)
(* whatever they find wrong with the request before is Refuse.              *)
ChatFirstCall(r) == Chat(r) /\ StartCall(r)
MessagesFirstCall(r) == ~Chat(r) /\ StartCall(r)
FirstCall(r) == ChatFirstCall(r) \/ MessagesFirstCall(r)

----------------------------------------------------------------------------
(* The upstream call *)

(* The response headers arrive, whatever their status; the call may have    *)
(* been answered just before its client left.                               *)
FetchResolves(r, s) ==
    /\ phase[r] = "fetch"
    /\ breaker' = AfterSuccess(breaker)
    /\ status' = [status EXCEPT ![r] = s]
    /\ phase' = [phase EXCEPT ![r] = IF s = "ok" THEN "body" ELSE "error-body"]
    /\ UNCHANGED <<shape, attempt, key, released, tried, gone, answer, slot,
                   inFlight, load, cooling, blocked>>

(* Mutant: the key is not given back when the fetch throws. *)
FetchThrowsKeeping(r, cause) ==
    /\ phase[r] = "fetch"
    /\ cause = "abort" => gone[r]
    /\ breaker' = IF gone[r] /\ cause # "timer" THEN breaker ELSE AfterFailure(breaker)
    /\ Return(r, "unavailable")
    /\ UNCHANGED <<gone, slot, inFlight, load, cooling, blocked>>

(* The fetch throws: a network error or the header timer, or the abort of a *)
(* client that left.  Only the former counts for the breaker; the client    *)
(* that left first hides a network error, not the timer.                    *)
FetchThrows(r, cause) ==
    /\ phase[r] = "fetch"
    /\ cause = "abort" => gone[r]
    /\ breaker' = IF gone[r] /\ cause # "timer" THEN breaker ELSE AfterFailure(breaker)
    /\ load' = LoadAfterRelease(r)
    /\ Return(r, "unavailable")
    /\ UNCHANGED <<gone, slot, inFlight, cooling, blocked>>

(* readUpstreamErrorBody(): the body of an error is read to its limit, or    *)
(* cannot be read; either way the handler goes on with what it has.         *)
ErrorBodyRead(r) == phase[r] = "error-body"

(* Mutant: nothing limits the number of attempts. *)
ChatRetryAlways(r) ==
    /\ ErrorBodyRead(r) /\ Chat(r)
    /\ status[r] # "model"
    /\ cooling' = CoolingAfter(key[r], status[r])
    /\ Healthy(cooling') # {}
    /\ CallUpstream(r, key[r], LoadAfterRelease(r), cooling')
    /\ UNCHANGED <<gone, slot, inFlight, blocked, breaker>>

(* The first answer on the chat path is an error other than "the model is   *)
(* not supported", and the pool has an available key: the failure is        *)
(* reported, the key given back, and the call made once more on another.    *)
ChatRetry(r) ==
    /\ ErrorBodyRead(r) /\ Chat(r)
    /\ attempt[r] = 1 /\ status[r] # "model"
    /\ cooling' = CoolingAfter(key[r], status[r])
    /\ Healthy(cooling') # {}
    /\ CallUpstream(r, key[r], LoadAfterRelease(r), cooling')
    /\ UNCHANGED <<gone, slot, inFlight, blocked, breaker>>

(* Mutant: the error of a second attempt has no way out. *)
ChatErrorFirst(r) ==
    /\ ErrorBodyRead(r) /\ Chat(r)
    /\ attempt[r] = 1
    /\ IF status[r] = "model"
       THEN blocked' = blocked \cup {key[r]} /\ UNCHANGED cooling
       ELSE /\ cooling' = CoolingAfter(key[r], status[r])
            /\ Healthy(cooling') = {}
            /\ UNCHANGED blocked
    /\ load' = LoadAfterRelease(r)
    /\ Return(r, "upstream-error")
    /\ UNCHANGED <<gone, slot, inFlight, breaker>>

(* The error is passed on.  Only the first attempt tells an unsupported     *)
(* model from a failure of the key.                                         *)
ChatError(r) ==
    /\ ErrorBodyRead(r) /\ Chat(r)
    /\ \/ /\ attempt[r] = 1 /\ status[r] = "model"
          /\ blocked' = blocked \cup {key[r]}
          /\ UNCHANGED cooling
       \/ /\ attempt[r] = 1 /\ status[r] # "model"
          /\ cooling' = CoolingAfter(key[r], status[r])
          /\ Healthy(cooling') = {}
          /\ UNCHANGED blocked
       \/ /\ attempt[r] = 2
          /\ \E class \in Classes(status[r]) : cooling' = CoolingAfter(key[r], class)
          /\ UNCHANGED blocked
    /\ load' = LoadAfterRelease(r)
    /\ Return(r, "upstream-error")
    /\ UNCHANGED <<gone, slot, inFlight, breaker>>

(* On the messages path there is no second attempt. *)
MessagesError(r) ==
    /\ ErrorBodyRead(r) /\ ~Chat(r)
    /\ IF status[r] = "model"
       THEN blocked' = blocked \cup {key[r]} /\ UNCHANGED cooling
       ELSE cooling' = CoolingAfter(key[r], status[r]) /\ UNCHANGED blocked
    /\ load' = LoadAfterRelease(r)
    /\ Return(r, "upstream-error")
    /\ UNCHANGED <<gone, slot, inFlight, breaker>>

(* How the body of a 200 answer may end.  A tail is a dirty line with no    *)
(* chunk after it.  A throw inside the stream is a reset connection, an     *)
(* error chunk or an oversized line.                                        *)
Endings(r) == {"whole", "watchdog", "broken"}
              \cup (IF Streaming(r) THEN {"dirty", "dirty-tail"} ELSE {})
              \cup (IF gone[r] THEN {"abort"} ELSE {})

(* isUpstreamWatchdog(): the handler's own controller is aborted and the    *)
(* response is not destroyed.  That controller is aborted by the response's *)
(* 'close' and by nothing else; the timers abort another one.               *)
IsUpstreamWatchdog(r) == gone[r] /\ ~gone[r]

(* What the client of a body that ended so has been sent. *)
ChatAnswer(r, ending) ==
    CASE ending = "whole" -> IF Streaming(r) THEN "stream-end" ELSE "ok"
      [] ending = "dirty-tail" -> "stream-cut"
      [] OTHER -> IF Streaming(r) THEN "stream-error"
                  ELSE IF IsUpstreamWatchdog(r) THEN "timed-out" ELSE "malformed"

MessagesAnswer(r, ending) ==
    CASE ending = "whole" -> IF Streaming(r) THEN "stream-end" ELSE "ok"
      [] ending \in {"dirty", "dirty-tail"} -> "stream-error"
      [] OTHER -> IF Streaming(r)
                  THEN IF IsUpstreamWatchdog(r) THEN "stream-error" ELSE "stream-cut"
                  ELSE IF IsUpstreamWatchdog(r) THEN "timed-out" ELSE "malformed"

(* The body ends.  A success clears the model block of the key (so does a   *)
(* stream the client left between two chunks); a failure is a transient     *)
(* report, which leaves the key available.                                  *)
BodyEnds(r, ending) ==
    /\ phase[r] = "body" /\ ending \in Endings(r)
    /\ \/ /\ ending = "whole" \/ (ending = "abort" /\ Streaming(r))
          /\ blocked' = blocked \ {key[r]}
       \/ ending # "whole" /\ UNCHANGED blocked
    /\ load' = LoadAfterRelease(r)
    /\ Return(r, IF Chat(r) THEN ChatAnswer(r, ending) ELSE MessagesAnswer(r, ending))
    /\ UNCHANGED <<gone, slot, inFlight, cooling, breaker>>

----------------------------------------------------------------------------
(* The response, the client, and time *)

(* Mutant: 'finish' and 'close' both free it. *)
FreeSlotTwice(r) == slot' = [slot EXCEPT ![r] = FALSE] /\ inFlight' = inFlight - 1

(* The slot is given back once, whichever of 'finish' and 'close' is first. *)
FreeSlot(r) ==
    /\ slot' = [slot EXCEPT ![r] = FALSE]
    /\ inFlight' = IF slot[r] THEN inFlight - 1 ELSE inFlight

(* The client disconnects: 'close' frees the slot while the handler may     *)
(* still be waiting.                                                        *)
ClientLeaves(r) ==
    /\ phase[r] # "idle" /\ ~gone[r]
    /\ gone' = [gone EXCEPT ![r] = TRUE]
    /\ FreeSlot(r)
    /\ UNCHANGED <<phase, locals, answer, load, cooling, blocked, breaker>>

(* The response is written out ('finish') or its connection is gone, and    *)
(* the handler has returned: the request is forgotten.                      *)
Finish(r) ==
    /\ phase[r] = "over"
    /\ phase' = [phase EXCEPT ![r] = "idle"]
    /\ gone' = [gone EXCEPT ![r] = FALSE]
    /\ answer' = [answer EXCEPT ![r] = "none"]
    /\ FreeSlot(r)
    /\ UNCHANGED <<locals, load, cooling, blocked, breaker>>

(* A cooldown or a model block runs out. *)
Recover(k) ==
    /\ k \in cooling \cup blocked
    /\ \/ cooling' = cooling \ {k} /\ UNCHANGED blocked
       \/ blocked' = blocked \ {k} /\ UNCHANGED cooling
    /\ UNCHANGED <<request, inFlight, load, breaker>>

Tick == breaker' = AfterTick(breaker) /\ UNCHANGED <<request, inFlight, load, cooling, blocked>>

Causes == {"network", "timer", "abort"}
AllEndings == {"whole", "watchdog", "broken", "dirty", "dirty-tail", "abort"}

Headers(r) == \/ \E s \in Statuses \ {"none"} : FetchResolves(r, s)
              \/ \E cause \in Causes : FetchThrows(r, cause)
Ending(r) == \E ending \in AllEndings : BodyEnds(r, ending)

Next ==
    \/ \E r \in Requests :
          Arrive(r) \/ Refuse(r) \/ FirstCall(r) \/ Headers(r) \/ ChatRetry(r)
            \/ ChatError(r) \/ MessagesError(r) \/ Ending(r) \/ ClientLeaves(r) \/ Finish(r)
    \/ \E k \in Keys : Recover(k)
    \/ Tick

Spec == Init /\ [][Next]_vars

(* Handlers run when what they wait for is there.  The header, idle and     *)
(* total timers end every fetch and every body that stalls; a stream that   *)
(* keeps producing chunks is assumed to be finite.  A response that cannot  *)
(* be written is destroyed (writeChunk's drain timeout).                    *)
HandlerRuns(r) ==
    /\ WF_vars(Refuse(r) \/ FirstCall(r))
    /\ WF_vars(Headers(r))
    /\ WF_vars(ChatRetry(r) \/ ChatError(r) \/ MessagesError(r))
    /\ WF_vars(Ending(r))
    /\ WF_vars(Finish(r))

FairSpec == Spec /\ \A r \in Requests : HandlerRuns(r)

----------------------------------------------------------------------------

TypeOK ==
    /\ phase \in [Requests -> Phases]
    /\ shape \in [Requests -> Shapes \cup {"none"}]
    /\ attempt \in [Requests -> 0 .. 2]
    /\ key \in [Requests -> Keys \cup {NoKey}]
    /\ released \in [Requests -> BOOLEAN]
    /\ tried \in [Requests -> SUBSET Keys]
    /\ status \in [Requests -> Statuses]
    /\ gone \in [Requests -> BOOLEAN]
    /\ answer \in [Requests -> Answers]
    /\ slot \in [Requests -> BOOLEAN]
    /\ inFlight \in Int
    /\ load \in [Keys -> Nat]
    /\ cooling \subseteq Keys
    /\ blocked \subseteq Keys
    /\ breaker \in Breakers

(* A key's load is exactly the number of requests that hold it: no path out *)
(* of a handler forgets a release or gives back another request's share,    *)
(* and least-loaded selection sees the truth.                               *)
LoadExact ==
    \A k \in Keys : load[k] = Cardinality({r \in Requests : ~released[r] /\ key[r] = k})

(* concurrentInFlight is exactly the number of open responses, and bounded, *)
(* although 'finish' and 'close' may both fire and the client may leave     *)
(* while the handler is still waiting.                                      *)
SlotsExact ==
    /\ inFlight = Cardinality({r \in Requests : slot[r]})
    /\ inFlight <= MaxConcurrent

(* A second attempt never goes to the key that just failed the first. *)
RetryElsewhere ==
    \A r \in Requests : phase[r] \in {"fetch", "error-body", "body"} => key[r] \notin tried[r]

(* Every admitted request ends: its handler returns, its slot comes back.   *)
EveryRequestEnds == \A r \in Requests : (phase[r] # "idle") ~> (phase[r] = "idle" /\ ~slot[r])

(* A stream is never ended without a word to a client that is still there:  *)
(* it has had its terminator or an error event (server.ts:4528, "no [DONE]  *)
(* and no error"; server.ts:5037, "do not let the stream end silently").    *)
NoSilentEnd == \A r \in Requests : answer[r] # "stream-cut"

============================================================================
