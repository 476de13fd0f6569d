--------------------------- MODULE Gateway_proofs ---------------------------
(***************************************************************************)
(* The proxy paths for any finite set of requests, any keys, any limit of   *)
(* concurrency and any breaker: types, the exactness of the two counters    *)
(* that requests share, and where a retry goes.  Beside them the circuit    *)
(* breaker by itself; the edge shield in front of the gateway: what a       *)
(* client sees of its answer, and how long and how often is tried for it;   *)
(* and the streamed answer: that its events make a message, and that no     *)
(* text and no call is lost on its way into it.                             *)
(***************************************************************************)
EXTENDS Gateway, CircuitBreaker, Shield, StreamBlocks, SumTheorems, FiniteSetTheorems,
        SequenceTheorems, TLAPS

(* Each of the four functions on a breaker keeps it a breaker. *)
LEMMA BreakerShape ==
    ASSUME NEW b \in Breakers
    PROVE  /\ AfterEntry(b) \in Breakers
           /\ AfterFailure(b) \in Breakers
           /\ AfterSuccess(b) \in Breakers
           /\ AfterTick(b) \in Breakers
  <1>0. /\ FailThreshold \in Nat /\ OpenTime \in Nat /\ ProbeTime \in Nat
        /\ FailThreshold # 0
    BY BreakerAssumption
  <1>1. /\ b.fails \in Nat /\ b.fails <= FailThreshold
        /\ b.left \in Nat /\ b.left <= OpenTime + ProbeTime
    BY <1>0 DEF Breakers
  <1>2. AfterEntry(b) \in Breakers
    <2>1. ProbeTime \in 0 .. (OpenTime + ProbeTime)
      BY <1>0
    <2>2. [b EXCEPT !.state = "half-open", !.left = ProbeTime] \in Breakers
      BY <2>1 DEF Breakers
    <2> QED BY <2>2 DEF AfterEntry
  <1>3. AfterFailure(b) \in Breakers
    BY <1>0, <1>1 DEF AfterFailure, Breakers
  <1>4. AfterSuccess(b) \in Breakers
    BY <1>0, <1>1 DEF AfterSuccess, ClosedBreaker, Breakers
  <1>5. AfterTick(b) \in Breakers
    BY <1>0, <1>1 DEF AfterTick, Breakers
  <1> QED BY <1>2, <1>3, <1>4, <1>5

(* The phases in which a handler holds a key. *)
Calling == {"fetch", "error-body", "body"}

(* The state of one handler: before and after its calls its local variables *)
(* are clean; during a call it holds a key, and has tried at most one other.*)
Clean(r) == key[r] = NoKey /\ released[r] /\ attempt[r] = 0 /\ tried[r] = {}
Holding(r) ==
    /\ key[r] \in Keys /\ ~released[r] /\ key[r] \notin tried[r]
    /\ attempt[r] = 2 \/ (attempt[r] = 1 /\ tried[r] = {})
HandlerOK(r) ==
    /\ phase[r] \notin Calling => Clean(r)
    /\ phase[r] \in Calling => Holding(r)
    /\ phase[r] = "error-body" => status[r] \notin {"none", "ok"}
    /\ phase[r] = "idle" => ~slot[r]

HandlersOK == \A r \in Requests : HandlerOK(r)

(* The types of what belongs to a request, and that a step of one request   *)
(* leaves the handlers of the others alone.                                 *)
LocalTypes ==
    /\ phase \in [Requests -> Phases]
    /\ shape \in [Requests -> Shapes \cup {"none"}]
    /\ attempt \in [Requests -> 0 .. 2]
    /\ key \in [Requests -> Keys \cup {NoKey}]
    /\ released \in [Requests -> BOOLEAN]
    /\ tried \in [Requests -> SUBSET Keys]
    /\ status \in [Requests -> Statuses]
    /\ answer \in [Requests -> Answers]
OthersKeep(r) ==
    \A q \in Requests \ {r} :
        /\ phase'[q] = phase[q] /\ attempt'[q] = attempt[q] /\ key'[q] = key[q]
        /\ released'[q] = released[q] /\ tried'[q] = tried[q] /\ status'[q] = status[q]

(* A handler that answers and returns leaves its variables clean. *)
LEMMA ReturnEffect ==
    ASSUME LocalTypes, gone \in [Requests -> BOOLEAN],
           NEW r \in Requests, NEW a \in Answers, Return(r, a)
    PROVE  LocalTypes' /\ OthersKeep(r) /\ phase'[r] = "over" /\ Clean(r)'
  <1>1. LocalTypes'
    BY DEF LocalTypes, Return, Phases, Statuses
  <1>2. OthersKeep(r) /\ phase'[r] = "over" /\ Clean(r)'
    BY DEF LocalTypes, Return, OthersKeep, Clean
  <1> QED BY <1>1, <1>2

(* postUpstreamChat() either throws, and the handler returns, or leaves the *)
(* handler holding a key other than the one it was told to avoid.           *)
LEMMA CallEffect ==
    ASSUME LocalTypes, gone \in [Requests -> BOOLEAN],
           NEW r \in Requests, NEW counts \in [Keys -> Nat], NEW cool,
           attempt[r] \in {0, 1}, tried[r] = {},
           attempt[r] = 0 => key[r] = NoKey,
           attempt[r] = 1 => key[r] \in Keys,
           CallUpstream(r, key[r], counts, cool)
    PROVE  /\ LocalTypes' /\ OthersKeep(r)
           /\ \/ phase'[r] = "over" /\ Clean(r)' /\ load' = counts
              \/ /\ phase'[r] = "fetch" /\ Holding(r)'
                 /\ load' = [counts EXCEPT ![key'[r]] = @ + 1]
  <1>1. CASE \E k \in LeastLoaded(Candidates(cool, blocked, key[r]), counts) :
                 /\ attempt' = [attempt EXCEPT ![r] = @ + 1]
                 /\ key' = [key EXCEPT ![r] = k]
                 /\ released' = [released EXCEPT ![r] = FALSE]
                 /\ tried' = [tried EXCEPT ![r] = @ \cup ({key[r]} \ {NoKey})]
                 /\ load' = [counts EXCEPT ![k] = @ + 1]
                 /\ phase' = [phase EXCEPT ![r] = "fetch"]
                 /\ status' = [status EXCEPT ![r] = "none"]
                 /\ UNCHANGED <<shape, answer>>
    <2>1. PICK k \in LeastLoaded(Candidates(cool, blocked, key[r]), counts) :
                 /\ attempt' = [attempt EXCEPT ![r] = @ + 1]
                 /\ key' = [key EXCEPT ![r] = k]
                 /\ released' = [released EXCEPT ![r] = FALSE]
                 /\ tried' = [tried EXCEPT ![r] = @ \cup ({key[r]} \ {NoKey})]
                 /\ load' = [counts EXCEPT ![k] = @ + 1]
                 /\ phase' = [phase EXCEPT ![r] = "fetch"]
                 /\ status' = [status EXCEPT ![r] = "none"]
                 /\ UNCHANGED <<shape, answer>>
      BY <1>1
    <2>2. k \in Keys /\ k # key[r]
      BY DEF LeastLoaded, Candidates, Healthy
    <2>3. attempt[r] + 1 \in 0 .. 2 /\ {key[r]} \ {NoKey} \in SUBSET Keys
      BY DEF LocalTypes
    <2>4. LocalTypes'
      BY <2>1, <2>2, <2>3 DEF LocalTypes, Phases, Statuses
    <2>5. OthersKeep(r) /\ phase'[r] = "fetch" /\ key'[r] = k
      BY <2>1 DEF LocalTypes, OthersKeep
    <2>6. Holding(r)'
      BY <2>1, <2>2, GatewayAssumption DEF LocalTypes, Holding
    <2> QED BY <2>1, <2>4, <2>5, <2>6
  <1>2. CASE /\ Return(r, NoKeyAnswer(cool, key[r]))
             /\ load' = counts
    BY <1>2, ReturnEffect DEF NoKeyAnswer, Answers
  <1> QED BY <1>1, <1>2 DEF CallUpstream

(* Giving a key back leaves loads that are natural numbers. *)
LEMMA ReleaseEffect ==
    ASSUME load \in [Keys -> Nat], NEW r \in Requests, Holding(r)
    PROVE  /\ LoadAfterRelease(r) \in [Keys -> Nat]
           /\ load[key[r]] # 0 => LoadAfterRelease(r) = [load EXCEPT ![key[r]] = @ - 1]
  BY DEF LoadAfterRelease, Holding

----------------------------------------------------------------------------

(* What one handler does leaves the others as they should be. *)
LEMMA OthersOK ==
    ASSUME HandlersOK, NEW r \in Requests, OthersKeep(r), HandlerOK(r)',
           \A q \in Requests \ {r} : slot'[q] = slot[q]
    PROVE  HandlersOK'
  BY DEF HandlersOK, HandlerOK, OthersKeep, Clean, Holding

(* The entry of a request keeps the types and the state of the handlers. *)
LEMMA EntryStep ==
    ASSUME TypeOK, HandlersOK, NEW r \in Requests, Arrive(r) \/ Refuse(r) \/ FirstCall(r)
    PROVE  TypeOK' /\ HandlersOK'
  <1>0. LocalTypes /\ gone \in [Requests -> BOOLEAN] /\ HandlerOK(r)
    BY DEF TypeOK, LocalTypes, HandlersOK
  <1>1. CASE Arrive(r)
    <2>1. breaker' \in Breakers
      BY <1>1, BreakerShape DEF Arrive, TypeOK
    <2>2. CASE ShouldReject(breaker) \/ inFlight >= MaxConcurrent
      <3>1. /\ Return(r, IF ShouldReject(breaker) THEN "circuit-open" ELSE "overloaded")
            /\ UNCHANGED <<slot, inFlight, gone, load, cooling, blocked>>
        BY <1>1, <2>2 DEF Arrive
      <3>2. LocalTypes' /\ OthersKeep(r) /\ phase'[r] = "over" /\ Clean(r)'
        BY <1>0, <3>1, ReturnEffect DEF Answers
      <3>3. HandlersOK'
        BY <3>1, <3>2, OthersOK DEF HandlerOK, Calling
      <3> QED BY <2>1, <3>1, <3>2, <3>3 DEF TypeOK, LocalTypes
    <2>3. CASE ~(ShouldReject(breaker) \/ inFlight >= MaxConcurrent)
      <3>1. PICK s \in Shapes : shape' = [shape EXCEPT ![r] = s]
        BY <1>1, <2>3 DEF Arrive
      <3>2. /\ phase' = [phase EXCEPT ![r] = "gates"]
            /\ slot' = [slot EXCEPT ![r] = TRUE]
            /\ inFlight' = inFlight + 1
            /\ UNCHANGED <<attempt, key, released, tried, status, answer,
                           gone, load, cooling, blocked>>
        BY <1>1, <2>3 DEF Arrive
      <3>3. TypeOK'
        BY <2>1, <3>1, <3>2 DEF TypeOK, Phases
      <3>4. OthersKeep(r) /\ HandlerOK(r)' /\ (\A q \in Requests \ {r} : slot'[q] = slot[q])
        BY <1>0, <1>1, <3>2 DEF Arrive, OthersKeep, HandlerOK, Calling, Clean, TypeOK
      <3> QED BY <3>3, <3>4, OthersOK
    <2> QED BY <2>2, <2>3
  <1>2. CASE Refuse(r)
    <2>1. LocalTypes' /\ OthersKeep(r) /\ phase'[r] = "over" /\ Clean(r)'
      BY <1>0, <1>2, ReturnEffect DEF Refuse, Answers
    <2>2. UNCHANGED <<gone, slot, shared>>
      BY <1>2 DEF Refuse
    <2>3. HandlersOK'
      BY <2>1, <2>2, OthersOK DEF HandlerOK, Calling
    <2> QED BY <2>1, <2>2, <2>3 DEF TypeOK, LocalTypes, shared
  <1>3. CASE FirstCall(r)
    <2>1. /\ Clean(r) /\ load \in [Keys -> Nat] /\ CallUpstream(r, NoKey, load, cooling)
          /\ UNCHANGED <<gone, slot, inFlight, cooling, blocked, breaker>>
      BY <1>0, <1>3 DEF FirstCall, ChatFirstCall, MessagesFirstCall, StartCall,
                         HandlerOK, Calling, TypeOK
    <2>0. key[r] = NoKey /\ attempt[r] = 0 /\ tried[r] = {}
      BY <2>1 DEF Clean
    <2>5. CallUpstream(r, key[r], load, cooling)
      BY <2>0, <2>1
    <2>6. /\ attempt[r] \in {0, 1} /\ tried[r] = {} /\ load \in [Keys -> Nat]
          /\ attempt[r] = 0 => key[r] = NoKey
          /\ attempt[r] = 1 => key[r] \in Keys
      BY <2>0, <2>1
    <2>2. /\ LocalTypes' /\ OthersKeep(r)
          /\ \/ phase'[r] = "over" /\ Clean(r)' /\ load' = load
             \/ phase'[r] = "fetch" /\ Holding(r)' /\ load' = [load EXCEPT ![key'[r]] = @ + 1]
      BY <1>0, <2>5, <2>6, CallEffect, Z3
    <2>3. load' \in [Keys -> Nat]
      BY <2>1, <2>2
    <2>4. HandlersOK'
      BY <2>1, <2>2, OthersOK DEF HandlerOK, Calling
    <2> QED BY <2>1, <2>2, <2>3, <2>4 DEF TypeOK, LocalTypes
  <1> QED BY <1>1, <1>2, <1>3

(* So does the end of the wait for headers. *)
LEMMA HeadersStep ==
    ASSUME TypeOK, HandlersOK, NEW r \in Requests, Headers(r)
    PROVE  TypeOK' /\ HandlersOK'
  <1>0. LocalTypes /\ gone \in [Requests -> BOOLEAN] /\ HandlerOK(r) /\ load \in [Keys -> Nat]
    BY DEF TypeOK, LocalTypes, HandlersOK
  <1>1. ASSUME NEW s \in Statuses \ {"none"}, FetchResolves(r, s) PROVE TypeOK' /\ HandlersOK'
    <2>1. breaker' \in Breakers
      BY <1>1, BreakerShape DEF FetchResolves, TypeOK
    <2>2. TypeOK'
      BY <1>1, <2>1 DEF FetchResolves, TypeOK, Phases
    <2>3. OthersKeep(r) /\ HandlerOK(r)' /\ (\A q \in Requests \ {r} : slot'[q] = slot[q])
      BY <1>0, <1>1 DEF FetchResolves, OthersKeep, HandlerOK, Calling, Holding, TypeOK
    <2> QED BY <2>2, <2>3, OthersOK
  <1>2. ASSUME NEW cause \in Causes, FetchThrows(r, cause) PROVE TypeOK' /\ HandlersOK'
    <2>1. breaker' \in Breakers
      BY <1>2, BreakerShape DEF FetchThrows, TypeOK
    <2>2. LocalTypes' /\ OthersKeep(r) /\ phase'[r] = "over" /\ Clean(r)'
      BY <1>0, <1>2, ReturnEffect DEF FetchThrows, Answers
    <2>3. load' \in [Keys -> Nat]
      BY <1>0, <1>2, ReleaseEffect DEF FetchThrows, HandlerOK, Calling
    <2>4. UNCHANGED <<gone, slot, inFlight, cooling, blocked>>
      BY <1>2 DEF FetchThrows
    <2>5. HandlersOK'
      BY <2>2, <2>4, OthersOK DEF HandlerOK, Calling
    <2> QED BY <2>1, <2>2, <2>3, <2>4, <2>5 DEF TypeOK, LocalTypes
  <1> QED BY <1>1, <1>2 DEF Headers

(* And what follows an error of the upstream. *)
LEMMA ErrorStep ==
    ASSUME TypeOK, HandlersOK, NEW r \in Requests,
           ChatRetry(r) \/ ChatError(r) \/ MessagesError(r)
    PROVE  TypeOK' /\ HandlersOK'
  <1>0. /\ LocalTypes /\ gone \in [Requests -> BOOLEAN] /\ load \in [Keys -> Nat]
        /\ Holding(r) /\ status[r] \notin {"none", "ok"}
    BY DEF TypeOK, LocalTypes, HandlersOK, HandlerOK, Calling, ChatRetry, ChatError, MessagesError, ErrorBodyRead
  <1>1. key[r] \in Keys /\ LoadAfterRelease(r) \in [Keys -> Nat] /\ cooling \subseteq Keys
    BY <1>0, ReleaseEffect DEF Holding, TypeOK
  <1>2. CASE ChatRetry(r)
    <2>1. attempt[r] = 1 /\ tried[r] = {}
      BY <1>0, <1>2 DEF ChatRetry, Holding, ErrorBodyRead
    <2>7. /\ attempt[r] \in {0, 1}
          /\ attempt[r] = 0 => key[r] = NoKey
          /\ attempt[r] = 1 => key[r] \in Keys
      BY <1>1, <2>1
    <2>2. /\ CallUpstream(r, key[r], LoadAfterRelease(r), cooling')
          /\ UNCHANGED <<gone, slot, inFlight, blocked, breaker>>
          /\ cooling' = CoolingAfter(key[r], status[r])
      BY <1>2 DEF ChatRetry, ErrorBodyRead
    <2>3. /\ LocalTypes' /\ OthersKeep(r)
          /\ \/ phase'[r] = "over" /\ Clean(r)' /\ load' = LoadAfterRelease(r)
             \/ /\ phase'[r] = "fetch" /\ Holding(r)'
                /\ load' = [LoadAfterRelease(r) EXCEPT ![key'[r]] = @ + 1]
      BY <1>0, <1>1, <2>1, <2>2, <2>7, CallEffect
    <2>4. load' \in [Keys -> Nat]
      BY <1>1, <2>3
    <2>5. cooling' \subseteq Keys
      BY <1>1, <2>2 DEF CoolingAfter
    <2>6. HandlersOK'
      BY <2>2, <2>3, OthersOK DEF HandlerOK, Calling
    <2> QED BY <2>2, <2>3, <2>4, <2>5, <2>6 DEF TypeOK, LocalTypes
  <1>3. CASE ChatError(r) \/ MessagesError(r)
    <2>1. /\ Return(r, "upstream-error") /\ load' = LoadAfterRelease(r)
          /\ UNCHANGED <<gone, slot, inFlight, breaker>>
      BY <1>3 DEF ChatError, MessagesError, ErrorBodyRead
    <2>2. LocalTypes' /\ OthersKeep(r) /\ phase'[r] = "over" /\ Clean(r)'
      BY <1>0, <2>1, ReturnEffect DEF Answers
    <2>3. cooling' \subseteq Keys /\ blocked' \subseteq Keys
      BY <1>1, <1>3 DEF ChatError, MessagesError, CoolingAfter, TypeOK, ErrorBodyRead
    <2>4. HandlersOK'
      BY <2>1, <2>2, OthersOK DEF HandlerOK, Calling
    <2> QED BY <1>1, <2>1, <2>2, <2>3, <2>4 DEF TypeOK, LocalTypes
  <1> QED BY <1>2, <1>3

(* And the end of a body, whatever it was. *)
LEMMA BodyStep ==
    ASSUME TypeOK, HandlersOK, NEW r \in Requests, Ending(r)
    PROVE  TypeOK' /\ HandlersOK'
  <1>0. PICK ending \in AllEndings : BodyEnds(r, ending)
    BY DEF Ending
  <1>1. LocalTypes /\ gone \in [Requests -> BOOLEAN] /\ load \in [Keys -> Nat] /\ Holding(r)
    BY <1>0 DEF TypeOK, LocalTypes, HandlersOK, HandlerOK, Calling, BodyEnds
  <1>2. PICK a \in Answers : Return(r, a)
    BY <1>0 DEF BodyEnds, ChatAnswer, MessagesAnswer, Answers
  <1>3. LocalTypes' /\ OthersKeep(r) /\ phase'[r] = "over" /\ Clean(r)'
    BY <1>1, <1>2, ReturnEffect
  <1>4. load' \in [Keys -> Nat]
    BY <1>0, <1>1, ReleaseEffect DEF BodyEnds
  <1>5. UNCHANGED <<gone, slot, inFlight, cooling, breaker>> /\ blocked' \subseteq Keys
    BY <1>0 DEF BodyEnds, TypeOK
  <1>6. HandlersOK'
    BY <1>3, <1>5, OthersOK DEF HandlerOK, Calling
  <1> QED BY <1>3, <1>4, <1>5, <1>6 DEF TypeOK, LocalTypes

(* And what the client and time do. *)
LEMMA SurroundingStep ==
    ASSUME TypeOK, HandlersOK,
           \/ \E r \in Requests : ClientLeaves(r) \/ Finish(r)
           \/ \E k \in Keys : Recover(k)
           \/ Tick
           \/ UNCHANGED vars
    PROVE  TypeOK' /\ HandlersOK'
  <1>1. ASSUME NEW r \in Requests, ClientLeaves(r) PROVE TypeOK' /\ HandlersOK'
    <2>1. TypeOK'
      BY <1>1 DEF ClientLeaves, FreeSlot, TypeOK, locals
    <2>2. HandlersOK'
      BY <1>1 DEF ClientLeaves, FreeSlot, TypeOK, locals, HandlersOK, HandlerOK, Clean, Holding
    <2> QED BY <2>1, <2>2
  <1>2. ASSUME NEW r \in Requests, Finish(r) PROVE TypeOK' /\ HandlersOK'
    <2>1. TypeOK'
      BY <1>2 DEF Finish, FreeSlot, TypeOK, locals, Phases, Answers
    <2>2. OthersKeep(r) /\ HandlerOK(r)' /\ (\A q \in Requests \ {r} : slot'[q] = slot[q])
      BY <1>2 DEF Finish, FreeSlot, TypeOK, locals, OthersKeep, HandlersOK, HandlerOK, Clean, Calling
    <2> QED BY <2>1, <2>2, OthersOK
  <1>3. ASSUME NEW k \in Keys, Recover(k) PROVE TypeOK' /\ HandlersOK'
    BY <1>3 DEF Recover, request, locals, TypeOK, HandlersOK, HandlerOK, Clean, Holding
  <1>4. CASE Tick
    <2>1. breaker' \in Breakers
      BY <1>4, BreakerShape DEF Tick, TypeOK
    <2> QED BY <1>4, <2>1 DEF Tick, request, locals, TypeOK, HandlersOK, HandlerOK, Clean, Holding
  <1>5. CASE UNCHANGED vars
    BY <1>5 DEF vars, request, shared, locals, TypeOK, HandlersOK, HandlerOK, Clean, Holding
  <1> QED BY <1>1, <1>2, <1>3, <1>4, <1>5

(* Every step keeps types and handlers as they should be. *)
LEMMA HandlerStep == TypeOK /\ HandlersOK /\ [Next]_vars => TypeOK' /\ HandlersOK'
  BY EntryStep, HeadersStep, ErrorStep, BodyStep, SurroundingStep DEF Next

(* The handlers are always as they should be. *)
LEMMA HandlersHold == Spec => [](TypeOK /\ HandlersOK)
  <1>1. Init => TypeOK
    BY BreakerAssumption DEF Init, TypeOK, Phases, Statuses, Answers, ClosedBreaker, Breakers
  <1>2. Init => HandlersOK
    BY DEF Init, HandlersOK, HandlerOK, Calling, Clean
  <1> QED BY <1>1, <1>2, HandlerStep, PTL DEF Spec

(* TypeOK: all variables keep their types; in particular no request makes a *)
(* third attempt, and no load goes below zero.                              *)
THEOREM TypeCorrect == Spec => []TypeOK
  BY HandlersHold, PTL

(* RetryElsewhere: the second attempt is made on a key other than the one   *)
(* that has just failed, whatever other requests did to the pool meanwhile. *)
THEOREM RetryElsewhereHolds == Spec => []RetryElsewhere
  <1>1. HandlersOK => RetryElsewhere
    BY DEF HandlersOK, HandlerOK, Holding, Calling, RetryElsewhere
  <1> QED BY <1>1, HandlersHold, PTL

----------------------------------------------------------------------------

(* A step that admits one request, frees the slot of one, or does neither,  *)
(* keeps the count of the open responses exact and bounded.                 *)
LEMMA SlotsStep ==
    ASSUME TypeOK, HandlersOK, SlotsExact, [Next]_vars
    PROVE  SlotsExact'
  <1> DEFINE Open == {q \in Requests : slot[q]}
  <1>1. IsFiniteSet(Open)
    BY GatewayAssumption, FS_Subset
  <1>2. Cardinality(Open) \in Nat /\ inFlight = Cardinality(Open) /\ inFlight <= MaxConcurrent
    BY <1>1, FS_CardinalityType DEF SlotsExact
  <1>3. ASSUME UNCHANGED <<slot, inFlight>> PROVE SlotsExact'
    BY <1>3 DEF SlotsExact
  <1>4. ASSUME NEW r \in Requests, FreeSlot(r) PROVE SlotsExact'
    <2>1. Open' = Open \ {r}
      BY <1>4 DEF FreeSlot, TypeOK
    <2>2. Cardinality(Open') = IF r \in Open THEN Cardinality(Open) - 1 ELSE Cardinality(Open)
      BY <1>1, <2>1, FS_RemoveElement
    <2>3. inFlight' = Cardinality(Open') /\ inFlight' <= MaxConcurrent
      BY <1>2, <1>4, <2>2, GatewayAssumption DEF FreeSlot
    <2> QED BY <2>3 DEF SlotsExact
  <1>5. ASSUME NEW r \in Requests, Arrive(r) PROVE SlotsExact'
    <2>1. CASE ShouldReject(breaker) \/ inFlight >= MaxConcurrent
      BY <1>3, <1>5, <2>1 DEF Arrive
    <2>2. CASE ~(ShouldReject(breaker) \/ inFlight >= MaxConcurrent)
      <3>1. /\ phase[r] = "idle" /\ slot' = [slot EXCEPT ![r] = TRUE]
            /\ inFlight' = inFlight + 1 /\ ~(inFlight >= MaxConcurrent)
        BY <1>5, <2>2 DEF Arrive
      <3>2. r \notin Open
        BY <3>1 DEF HandlersOK, HandlerOK
      <3>3. Open' = Open \cup {r}
        BY <3>1 DEF TypeOK
      <3>4. Cardinality(Open') = Cardinality(Open) + 1
        BY <1>1, <3>2, <3>3, FS_AddElement
      <3>5. inFlight' = Cardinality(Open') /\ inFlight' <= MaxConcurrent
        BY <1>2, <3>1, <3>4, GatewayAssumption
      <3> QED BY <3>5 DEF SlotsExact
    <2> QED BY <2>1, <2>2
  <1>6. ASSUME NEW r \in Requests,
               Refuse(r) \/ FirstCall(r) \/ Headers(r) \/ ChatRetry(r)
                 \/ ChatError(r) \/ MessagesError(r) \/ Ending(r)
        PROVE  SlotsExact'
    BY <1>3, <1>6 DEF Refuse, shared, FirstCall, ChatFirstCall, MessagesFirstCall, StartCall, Headers, FetchResolves, FetchThrows,
                      ChatRetry, ChatError, MessagesError, Ending, BodyEnds, ErrorBodyRead
  <1>7. ASSUME NEW r \in Requests, ClientLeaves(r) \/ Finish(r) PROVE SlotsExact'
    BY <1>4, <1>7 DEF ClientLeaves, Finish
  <1>8. CASE (\E k \in Keys : Recover(k)) \/ Tick \/ UNCHANGED vars
    BY <1>3, <1>8 DEF Recover, Tick, vars, request, shared
  <1> QED BY <1>5, <1>6, <1>7, <1>8 DEF Next

(* SlotsExact: concurrentInFlight is the number of open responses and never *)
(* above the limit, however 'finish', 'close' and handlers interleave.      *)
THEOREM SlotsExactHolds == Spec => []SlotsExact
  <1>1. Init => SlotsExact
    <2>1. Init => {r \in Requests : slot[r]} = {}
      BY DEF Init
    <2> QED BY <2>1, FS_EmptySet, GatewayAssumption DEF Init, SlotsExact
  <1>2. TypeOK /\ HandlersOK /\ SlotsExact /\ [Next]_vars => SlotsExact'
    BY SlotsStep
  <1> QED BY <1>1, <1>2, HandlersHold, PTL DEF Spec

----------------------------------------------------------------------------

(* Who holds key k, and what request r adds to their number. *)
Holders(k) == {q \in Requests : ~released[q] /\ key[q] = k}
Share(r, k) == IF ~released[r] /\ key[r] = k THEN 1 ELSE 0

(* Two finite sets that are the same but for one element. *)
LEMMA OneApart ==
    ASSUME NEW S, NEW T, NEW x, IsFiniteSet(S), IsFiniteSet(T), T \ {x} = S \ {x}
    PROVE  Cardinality(T) = Cardinality(S) - (IF x \in S THEN 1 ELSE 0)
                              + (IF x \in T THEN 1 ELSE 0)
  <1>1. Cardinality(S) \in Nat /\ Cardinality(T) \in Nat
    BY FS_CardinalityType
  <1>2. Cardinality(S \ {x}) = Cardinality(S) - (IF x \in S THEN 1 ELSE 0)
    BY <1>1, FS_RemoveElement
  <1>3. Cardinality(T \ {x}) = Cardinality(T) - (IF x \in T THEN 1 ELSE 0)
    BY <1>1, FS_RemoveElement
  <1>4. Cardinality(T \ {x}) = Cardinality(S \ {x})
    BY Zenon
  <1> QED BY <1>1, <1>2, <1>3, <1>4

(* A step of one handler that moves each load by the change of its own      *)
(* share keeps the loads exact.                                             *)
LEMMA Account ==
    ASSUME LoadExact, NEW r \in Requests, OthersKeep(r),
           \A k \in Keys : load'[k] = load[k] - Share(r, k) + Share(r, k)'
    PROVE  LoadExact'
  <1> SUFFICES ASSUME NEW k \in Keys PROVE load'[k] = Cardinality(Holders(k)')
    BY DEF LoadExact, Holders
  <1>1. IsFiniteSet(Holders(k)) /\ IsFiniteSet(Holders(k)')
    BY GatewayAssumption, FS_Subset DEF Holders
  <1>2. Holders(k)' \ {r} = Holders(k) \ {r}
    BY DEF Holders, OthersKeep
  <1>3. Cardinality(Holders(k)') = Cardinality(Holders(k)) - (IF r \in Holders(k) THEN 1 ELSE 0)
                                     + (IF r \in Holders(k)' THEN 1 ELSE 0)
    BY <1>1, <1>2, OneApart
  <1>4. /\ Share(r, k) = (IF r \in Holders(k) THEN 1 ELSE 0)
        /\ Share(r, k)' = (IF r \in Holders(k)' THEN 1 ELSE 0)
    BY DEF Holders, Share
  <1>5. load[k] = Cardinality(Holders(k))
    BY DEF LoadExact, Holders
  <1>6. load'[k] = load[k] - Share(r, k) + Share(r, k)'
    OBVIOUS
  <1> QED BY <1>3, <1>4, <1>5, <1>6

(* The load of a key that a handler holds is not zero, so that giving it    *)
(* back counts it down: the guard in releaseOnce() never hides an error.    *)
LEMMA ReleaseExact ==
    ASSUME TypeOK, LoadExact, NEW r \in Requests, Holding(r)
    PROVE  /\ LoadAfterRelease(r) = [load EXCEPT ![key[r]] = @ - 1]
           /\ \A k \in Keys : LoadAfterRelease(r)[k] = load[k] - Share(r, k)
  <1>1. r \in Holders(key[r]) /\ key[r] \in Keys
    BY DEF Holders, Holding
  <1>2. IsFiniteSet(Holders(key[r]))
    BY GatewayAssumption, FS_Subset DEF Holders
  <1>3. load[key[r]] = Cardinality(Holders(key[r])) /\ load \in [Keys -> Nat]
    BY <1>1 DEF LoadExact, Holders, TypeOK
  <1>4. load[key[r]] # 0
    BY <1>1, <1>2, <1>3, FS_EmptySet
  <1>5. LoadAfterRelease(r) = [load EXCEPT ![key[r]] = @ - 1]
    BY <1>3, <1>4, ReleaseEffect
  <1> QED BY <1>1, <1>3, <1>5 DEF Share, Holding

(* A handler that gives its key back and returns. *)
LEMMA GivesBack ==
    ASSUME TypeOK, LoadExact, NEW r \in Requests, Holding(r), OthersKeep(r), Clean(r)',
           load' = LoadAfterRelease(r)
    PROVE  LoadExact'
  <1>1. \A k \in Keys : Share(r, k)' = 0 /\ Share(r, k) \in {0, 1}
    BY DEF Share, Clean
  <1>2. \A k \in Keys : load'[k] = load[k] - Share(r, k) + Share(r, k)'
    BY <1>1, ReleaseExact DEF TypeOK
  <1> QED BY <1>2, Account

(* A handler that gets its first key. *)
LEMMA Takes ==
    ASSUME TypeOK, LoadExact, NEW r \in Requests, Clean(r), OthersKeep(r), Holding(r)',
           load' = [load EXCEPT ![key'[r]] = @ + 1]
    PROVE  LoadExact'
  <1>1. \A k \in Keys : load'[k] = load[k] - Share(r, k) + Share(r, k)'
    BY DEF Share, Clean, Holding, TypeOK
  <1> QED BY <1>1, Account

(* A handler that gives its key back and gets another in the same turn. *)
LEMMA Exchanges ==
    ASSUME TypeOK, LoadExact, NEW r \in Requests, Holding(r), OthersKeep(r), Holding(r)',
           load' = [LoadAfterRelease(r) EXCEPT ![key'[r]] = @ + 1]
    PROVE  LoadExact'
  <1>1. LoadAfterRelease(r) \in [Keys -> Nat]
    BY ReleaseEffect DEF TypeOK
  <1>2. \A k \in Keys : LoadAfterRelease(r)[k] = load[k] - Share(r, k)
    BY ReleaseExact
  <1>3. \A k \in Keys : load'[k] = LoadAfterRelease(r)[k] + Share(r, k)'
    BY <1>1 DEF Share, Holding
  <1>4. \A k \in Keys : load'[k] = load[k] - Share(r, k) + Share(r, k)'
    BY <1>2, <1>3
  <1> QED BY <1>4, Account

(* A step that changes neither loads nor who holds what. *)
LEMMA HoldsStill ==
    ASSUME LoadExact, load' = load,
           \A q \in Requests : released'[q] = released[q] /\ key'[q] = key[q]
    PROVE  LoadExact'
  BY DEF LoadExact

(* Every step keeps the loads exact. *)
LEMMA LoadStep ==
    ASSUME TypeOK, HandlersOK, LoadExact, [Next]_vars
    PROVE  LoadExact'
  <1>0. LocalTypes /\ gone \in [Requests -> BOOLEAN] /\ load \in [Keys -> Nat]
    BY DEF TypeOK, LocalTypes
  <1>1. ASSUME NEW r \in Requests, NEW a \in Answers, Clean(r), Return(r, a), load' = load
        PROVE  LoadExact'
    <2>1. \A q \in Requests : /\ ~released'[q] <=> ~released[q]
                              /\ key'[q] = key[q]
      BY <1>0, <1>1 DEF Return, Clean, LocalTypes
    <2> QED BY <1>0, <1>1, <2>1 DEF LoadExact
  <1>2. ASSUME NEW r \in Requests, NEW a \in Answers, Holding(r), Return(r, a),
               load' = LoadAfterRelease(r)
        PROVE  LoadExact'
    BY <1>0, <1>2, ReturnEffect, GivesBack
  <1>3. ASSUME NEW r \in Requests, Arrive(r) PROVE LoadExact'
    <2>1. phase[r] = "idle" /\ load' = load
      BY <1>3 DEF Arrive
    <2>2. Clean(r)
      BY <2>1 DEF HandlersOK, HandlerOK, Calling
    <2>3. CASE ShouldReject(breaker) \/ inFlight >= MaxConcurrent
      <3>1. Return(r, IF ShouldReject(breaker) THEN "circuit-open" ELSE "overloaded")
        BY <1>3, <2>3 DEF Arrive
      <3> QED BY <1>1, <2>1, <2>2, <3>1 DEF Answers
    <2>4. CASE ~(ShouldReject(breaker) \/ inFlight >= MaxConcurrent)
      BY <1>3, <2>1, <2>4, HoldsStill DEF Arrive
    <2> QED BY <2>3, <2>4
  <1>4. ASSUME NEW r \in Requests, Refuse(r) PROVE LoadExact'
    BY <1>1, <1>4 DEF Refuse, HandlersOK, HandlerOK, Calling, shared, Answers
  <1>5. ASSUME NEW r \in Requests, FirstCall(r) PROVE LoadExact'
    <2>1. Clean(r) /\ CallUpstream(r, NoKey, load, cooling)
      BY <1>5 DEF FirstCall, ChatFirstCall, MessagesFirstCall, StartCall,
                    HandlersOK, HandlerOK, Calling
    <2>2. CallUpstream(r, key[r], load, cooling)
      BY <2>1 DEF Clean
    <2>3. /\ attempt[r] \in {0, 1} /\ tried[r] = {}
          /\ attempt[r] = 0 => key[r] = NoKey
          /\ attempt[r] = 1 => key[r] \in Keys
      BY <2>1 DEF Clean
    <2>4. /\ OthersKeep(r)
          /\ \/ Clean(r)' /\ load' = load
             \/ Holding(r)' /\ load' = [load EXCEPT ![key'[r]] = @ + 1]
      BY <1>0, <2>2, <2>3, CallEffect, Z3
    <2>5. CASE Clean(r)' /\ load' = load
      <3>1. \A k \in Keys : load'[k] = load[k] - Share(r, k) + Share(r, k)'
        BY <1>0, <2>1, <2>5 DEF Clean, Share
      <3> QED BY <2>4, <3>1, Account
    <2> QED BY <2>1, <2>4, <2>5, Takes
  <1>6. ASSUME NEW r \in Requests, Headers(r) PROVE LoadExact'
    <2>1. ASSUME NEW s \in Statuses \ {"none"}, FetchResolves(r, s) PROVE LoadExact'
      BY <2>1, HoldsStill DEF FetchResolves
    <2>2. ASSUME NEW cause \in Causes, FetchThrows(r, cause) PROVE LoadExact'
      BY <1>2, <2>2 DEF FetchThrows, HandlersOK, HandlerOK, Calling, Answers
    <2> QED BY <1>6, <2>1, <2>2 DEF Headers
  <1>7. ASSUME NEW r \in Requests, ChatRetry(r) PROVE LoadExact'
    <2>1. /\ Holding(r) /\ LoadAfterRelease(r) \in [Keys -> Nat]
          /\ CallUpstream(r, key[r], LoadAfterRelease(r), cooling')
      BY <1>0, <1>7, ReleaseEffect DEF ChatRetry, HandlersOK, HandlerOK, Calling, ErrorBodyRead
    <2>2. /\ attempt[r] \in {0, 1} /\ tried[r] = {}
          /\ attempt[r] = 0 => key[r] = NoKey
          /\ attempt[r] = 1 => key[r] \in Keys
      BY <1>7, <2>1 DEF ChatRetry, Holding, ErrorBodyRead
    <2>3. /\ OthersKeep(r)
          /\ \/ Clean(r)' /\ load' = LoadAfterRelease(r)
             \/ Holding(r)' /\ load' = [LoadAfterRelease(r) EXCEPT ![key'[r]] = @ + 1]
      BY <1>0, <2>1, <2>2, CallEffect
    <2> QED BY <2>1, <2>3, GivesBack, Exchanges
  <1>8. ASSUME NEW r \in Requests, ChatError(r) \/ MessagesError(r) PROVE LoadExact'
    BY <1>2, <1>8 DEF ChatError, MessagesError, HandlersOK, HandlerOK, Calling, Answers, ErrorBodyRead
  <1>9. ASSUME NEW r \in Requests, NEW ending \in AllEndings, BodyEnds(r, ending)
        PROVE  LoadExact'
    <2>1. PICK a \in Answers : Return(r, a)
      BY <1>9 DEF BodyEnds, ChatAnswer, MessagesAnswer, Answers
    <2>2. Holding(r) /\ load' = LoadAfterRelease(r)
      BY <1>9 DEF BodyEnds, HandlersOK, HandlerOK, Calling
    <2> QED BY <1>2, <2>1, <2>2
  <1>10. CASE \/ \E r \in Requests : ClientLeaves(r) \/ Finish(r)
              \/ \E k \in Keys : Recover(k)
              \/ Tick
              \/ UNCHANGED vars
    BY <1>10, HoldsStill
       DEF ClientLeaves, Finish, Recover, Tick, vars, request, shared, locals
  <1> QED BY <1>3, <1>4, <1>5, <1>6, <1>7, <1>8, <1>9, <1>10 DEF Next, Ending

(* LoadExact: the load of a key is the number of requests that hold it, for *)
(* every path out of a handler and every interleaving.                      *)
THEOREM LoadExactHolds == Spec => []LoadExact
  <1>1. Init => LoadExact
    <2>1. Init => \A k \in Keys : {r \in Requests : ~released[r] /\ key[r] = k} = {}
      BY DEF Init
    <2> QED BY <2>1, FS_EmptySet DEF Init, LoadExact
  <1>2. TypeOK /\ HandlersOK /\ LoadExact /\ [Next]_vars => LoadExact'
    BY LoadStep
  <1> QED BY <1>1, <1>2, HandlersHold, PTL DEF Spec

----------------------------------------------------------------------------
(* The circuit breaker: types, and that it opens on a full run of failures  *)
(* and on nothing else.                                                     *)

(* A failure reported to a closed breaker adds one to its counter, and      *)
(* leaves it closed only below the threshold.                               *)
LEMMA FailureWhileClosed ==
    ASSUME NEW b \in Breakers, AfterFailure(b).state = "closed"
    PROVE  /\ b.state = "closed"
           /\ b.fails + 1 < FailThreshold
           /\ AfterFailure(b).fails = b.fails + 1
  <1>0. FailThreshold \in Nat BY BreakerAssumption
  <1>1. b.fails \in Nat /\ b.state \in {"closed", "open", "half-open"}
    BY <1>0 DEF Breakers
  <1>2. b.state = "closed"
    BY <1>1 DEF AfterFailure
  <1>3. b.fails + 1 < FailThreshold
    BY <1>0, <1>1, <1>2 DEF AfterFailure
  <1>4. AfterFailure(b) = [b EXCEPT !.fails = b.fails + 1]
    BY <1>2, <1>3 DEF AfterFailure
  <1> QED BY <1>2, <1>3, <1>4 DEF Breakers

(* Entering and the passing of time leave a closed circuit's counter alone  *)
(* and close nothing.                                                       *)
LEMMA QuietWhileClosed ==
    ASSUME NEW b \in Breakers
    PROVE  /\ AfterEntry(b).state = "closed" => AfterEntry(b) = b
           /\ AfterTick(b).state = b.state /\ AfterTick(b).fails = b.fails
  BY DEF AfterEntry, AfterTick, Breakers

(* BreakerTypeOK: the breaker and the history variable keep their types. *)
THEOREM BreakerTypeCorrect == BreakerSpec => []BreakerTypeOK
  <1>1. BreakerInit => BreakerTypeOK
    BY BreakerAssumption DEF BreakerInit, BreakerTypeOK, ClosedBreaker, Breakers
  <1>2. BreakerTypeOK /\ [BreakerNext]_breakerVars => BreakerTypeOK'
    <2> SUFFICES ASSUME BreakerTypeOK, [BreakerNext]_breakerVars PROVE BreakerTypeOK'
      OBVIOUS
    <2>0. circuit \in Breakers /\ FailThreshold \in Nat
      BY BreakerAssumption DEF BreakerTypeOK
    <2>1. ASSUME NEW c \in Attempts, Enter(c) PROVE BreakerTypeOK'
      BY <2>0, <2>1, BreakerShape DEF BreakerTypeOK, Enter
    <2>2. ASSUME NEW c \in Attempts, Fail(c) PROVE BreakerTypeOK'
      BY <2>0, <2>2, BreakerShape DEF BreakerTypeOK, Fail
    <2>3. ASSUME NEW c \in Attempts, Succeed(c) PROVE BreakerTypeOK'
      BY <2>0, <2>3, BreakerShape DEF BreakerTypeOK, Succeed
    <2>4. ASSUME NEW c \in Attempts, Vanish(c) PROVE BreakerTypeOK'
      BY <2>0, <2>4 DEF BreakerTypeOK, Vanish
    <2>5. CASE BreakerTick
      BY <2>0, <2>5, BreakerShape DEF BreakerTypeOK, BreakerTick
    <2>6. CASE UNCHANGED breakerVars
      BY <2>6 DEF BreakerTypeOK, breakerVars
    <2> QED BY <2>1, <2>2, <2>3, <2>4, <2>5, <2>6 DEF BreakerNext
  <1> QED BY <1>1, <1>2, PTL DEF BreakerSpec

(* ClosedCountsStreak: a closed breaker counts exactly the failures since   *)
(* the last success, so late reports of calls that began before an outage,  *)
(* whenever they arrive, cannot open it early or keep it from opening.      *)
THEOREM ClosedCountsStreakHolds == BreakerSpec => []ClosedCountsStreak
  <1>1. BreakerInit => ClosedCountsStreak
    BY BreakerAssumption DEF BreakerInit, ClosedCountsStreak, ClosedBreaker
  <1>2. BreakerTypeOK /\ ClosedCountsStreak /\ [BreakerNext]_breakerVars => ClosedCountsStreak'
    <2> SUFFICES ASSUME BreakerTypeOK, ClosedCountsStreak, [BreakerNext]_breakerVars, circuit'.state = "closed"
                 PROVE  circuit'.fails = streak' /\ streak' < FailThreshold
      BY DEF ClosedCountsStreak
    <2>0. /\ circuit \in Breakers /\ streak \in Nat
          /\ FailThreshold \in Nat /\ FailThreshold # 0
      BY BreakerAssumption DEF BreakerTypeOK
    <2>1. ASSUME NEW c \in Attempts, Enter(c)
          PROVE  circuit'.fails = streak' /\ streak' < FailThreshold
      BY <2>0, <2>1, QuietWhileClosed DEF Enter, ClosedCountsStreak
    <2>2. ASSUME NEW c \in Attempts, Fail(c)
          PROVE  circuit'.fails = streak' /\ streak' < FailThreshold
      <3>1. circuit.fails + 1 < FailThreshold /\ circuit'.fails = circuit.fails + 1
            /\ circuit.state = "closed"
        BY <2>0, <2>2, FailureWhileClosed DEF Fail
      <3>2. circuit.fails = streak /\ streak < FailThreshold
        BY <3>1 DEF ClosedCountsStreak
      <3> QED BY <2>0, <2>2, <3>1, <3>2 DEF Fail
    <2>3. ASSUME NEW c \in Attempts, Succeed(c)
          PROVE  circuit'.fails = streak' /\ streak' < FailThreshold
      BY <2>0, <2>3 DEF Succeed, AfterSuccess, ClosedBreaker
    <2>4. ASSUME NEW c \in Attempts, Vanish(c)
          PROVE  circuit'.fails = streak' /\ streak' < FailThreshold
      BY <2>4 DEF Vanish, ClosedCountsStreak
    <2>5. CASE BreakerTick
      BY <2>0, <2>5, QuietWhileClosed DEF BreakerTick, ClosedCountsStreak
    <2>6. CASE UNCHANGED breakerVars
      BY <2>6 DEF breakerVars, ClosedCountsStreak
    <2> QED BY <2>1, <2>2, <2>3, <2>4, <2>5, <2>6 DEF BreakerNext
  <1> QED BY <1>1, <1>2, BreakerTypeCorrect, PTL DEF BreakerSpec

----------------------------------------------------------------------------
(* The edge shield: the settings and the delays *)

(* Whatever is in force, the most that any settings allow allows it too. *)
LEMMA MostShape ==
    ASSUME NEW kind \in {"tries", "budget"}, NEW what \in Purses, conf \in Configs
    PROVE  /\ Most(kind, what) \in Nat
           /\ \A cf \in Configs : cf[kind][what] \in Nat \ {0} /\ cf[kind][what] <= Most(kind, what)
<1> DEFINE Good == {T \in SUBSET Configs :
                      T = {} \/ \E a \in T : \A b \in T : b[kind][what] <= a[kind][what]}
<1>1. \A cf \in Configs : cf[kind][what] \in Nat \ {0}
  <2>1. \A cf \in Configs : cf.tries \in [Purses -> Nat \ {0}] /\ cf.budget \in [Purses -> Nat \ {0}]
    BY ShieldAssumption DEF ShieldAssumption, Tunable
  <2> QED BY <2>1
<1>2. {} \in Good
  OBVIOUS
<1>3. ASSUME NEW T \in SUBSET Configs, NEW x \in Configs \ T, T \in Good
      PROVE  T \cup {x} \in Good
  <2>1. CASE T = {}
    <3>1. x[kind][what] <= x[kind][what]
      BY <1>1
    <3> QED BY <2>1, <3>1
  <2>2. CASE T # {}
    <3>1. PICK a \in T : \A b \in T : b[kind][what] <= a[kind][what]
      BY <1>3, <2>2
    <3>2. CASE x[kind][what] <= a[kind][what]
      <4>1. \A b \in T \cup {x} : b[kind][what] <= a[kind][what]
        BY <3>1, <3>2
      <4> QED BY <4>1
    <3>3. CASE ~(x[kind][what] <= a[kind][what])
      <4>1. \A b \in T \cup {x} : b[kind][what] <= x[kind][what]
        BY <1>1, <3>1, <3>3
      <4> QED BY <4>1
    <3> QED BY <3>2, <3>3
  <2> QED BY <2>1, <2>2
<1> HIDE DEF Good
<1>4. \A T \in SUBSET Configs : \A x \in Configs \ T : T \in Good => T \cup {x} \in Good
  BY <1>3
<1>5. Configs \in Good
  BY <1>2, <1>4, ConfigsFinite, OneByOne
<1>6. PICK a \in Configs : \A b \in Configs : b[kind][what] <= a[kind][what]
  BY <1>5 DEF Good
<1>7. \E m \in {cf[kind][what] : cf \in Configs} : \A cf \in Configs : cf[kind][what] <= m
  BY <1>6
<1>8. /\ Most(kind, what) \in {cf[kind][what] : cf \in Configs}
      /\ \A cf \in Configs : cf[kind][what] <= Most(kind, what)
  BY <1>7 DEF Most
<1> QED BY <1>1, <1>8

(* A delay is a number, and that of the network no more than its cap. *)
LEMMA GrownShape ==
    ASSUME NEW first \in Nat, NEW n \in Nat, NEW cap \in Nat
    PROVE  Grown(first, n, cap) \in Nat /\ Grown(first, n, cap) <= cap
<1> DEFINE at == Lesser(Greater(1, n), Len(Growth))
<1>1. Growth \in Seq(Nat) /\ Len(Growth) \in Nat /\ Len(Growth) > 0
  BY DelayAssumption DEF DelayAssumption
<1>2. at \in 1 .. Len(Growth)
  BY <1>1 DEF Lesser, Greater
<1>3. PICK factor \in Nat : factor = Growth[at]
  BY <1>1, <1>2
<1>4. first * factor \in Nat
  OBVIOUS
<1>5. Grown(first, n, cap) = Lesser(first * factor, cap)
  BY <1>3 DEF Grown
<1> QED BY <1>4, <1>5 DEF Lesser

Waited == {"client", "perm", "swap", "cool", "auth", "retry"}

LEMMA DelayShape ==
    /\ \A n \in Nat : NetworkDelay(n) \in Nat /\ NetworkDelay(n) <= NetCap
    /\ \A v \in Waited, n \in Nat, hint \in Nat : Delay(v, n, hint) \in Nat
<1>1. /\ PermDelay \in Nat /\ ClientDelay \in Nat /\ SwapFirst \in Nat /\ SwapCap \in Nat
      /\ CoolFallback \in Nat /\ NetFirst \in Nat /\ NetCap \in Nat /\ BackoffCap \in Nat
      /\ HintCap \in Nat
  BY DelayAssumption DEF DelayAssumption
<1>2. \A n \in Nat : NetworkDelay(n) \in Nat /\ NetworkDelay(n) <= NetCap
  BY <1>1, GrownShape DEF NetworkDelay
<1>3. ASSUME NEW n \in Nat, NEW hint \in Nat
      PROVE  SwapDelay(n) \in Nat /\ CoolDelay(n, hint) \in Nat /\ BackoffDelay(n, hint) \in Nat
  <2>1. Lesser(hint, SwapCap) \in Nat /\ Lesser(hint, HintCap) \in Nat
    BY <1>1 DEF Lesser
  <2> QED BY <1>1, <2>1, GrownShape DEF SwapDelay, CoolDelay, BackoffDelay
<1>4. ASSUME NEW v \in Waited, NEW n \in Nat, NEW hint \in Nat PROVE Delay(v, n, hint) \in Nat
  <2>1. CASE v \in {"client", "perm"}
    BY <1>1, <2>1 DEF Delay
  <2>2. CASE v = "swap"
    BY <1>3, <2>2 DEF Delay
  <2>3. CASE v \in {"cool", "auth"}
    BY <1>3, <2>3 DEF Delay
  <2>4. CASE v = "retry"
    BY <1>3, <2>4 DEF Delay
  <2> QED BY <2>1, <2>2, <2>3, <2>4 DEF Waited
<1> QED BY <1>2, <1>4

LEMMA VerdictShape ==
    ASSUME NEW code, NEW mark, NEW path
    PROVE  Classify(code, mark, path) \in {"pass"} \cup Waited
BY DEF Classify, Waited

----------------------------------------------------------------------------
(* The edge shield: the time and the tries of one request *)

Serving ==
    [pc : {"idle", "asking", "sleeping", "relaying", "closed"}, ka : BOOLEAN, gone : BOOLEAN,
     served : 0 .. 2, stream : BOOLEAN, path : Paths, n : Nat, now : Nat,
     count : [Windows -> Nat], until : [Windows -> Nat \cup {Never}],
     heads : Nat, end : {"none", "whole", "cut"}, slept : Nat, raw : BOOLEAN]

(* The longest a window stays open, and what may be waited in it: the delay *)
(* of the network alone may outlast its window.                             *)
Room(w) ==
    IF w = "swap" THEN Greater(Most("budget", "swap"), Most("budget", "auth"))
    ELSE Most("budget", w)
Reach(w) == IF w = "main" THEN Room(w) + NetCap ELSE Room(w)
SwapTries == Greater(Most("tries", "swap"), Most("tries", "auth"))

(* The part of a window that is over: what has been waited in it, at most. *)
Portion(u, now, room, reach) == IF u = Never THEN 0 ELSE Lesser(reach, now - u + room)
Part(r, w) == Portion(r.until[w], r.now, Room(w), Reach(w))

TimeOK(r) ==
    /\ \A w \in Windows : r.until[w] <= r.now + Room(w)
    /\ r.slept <= Part(r, "main") + Part(r, "swap") + Part(r, "perm") + Part(r, "client")

TriesOK(r) == r.n <= Most("tries", "main") /\ r.count["swap"] <= SwapTries

LEMMA RoomShape ==
    ASSUME conf \in Configs
    PROVE  /\ \A w \in Windows : Room(w) \in Nat /\ Reach(w) \in Nat /\ Room(w) <= Reach(w)
           /\ SwapTries \in Nat /\ Most("tries", "main") \in Nat
           /\ \A v \in Waited : conf.budget[Purse(v)] \in Nat
                                  /\ conf.budget[Purse(v)] <= Room(Window(v))
           /\ \A v \in Waited : Window(v) = "swap" => conf.tries[Purse(v)] \in Nat
                                  /\ conf.tries[Purse(v)] <= SwapTries
           /\ conf.budget["main"] \in Nat /\ conf.budget["main"] <= Room("main")
           /\ conf.tries["main"] \in Nat \ {0} /\ conf.tries["main"] <= Most("tries", "main")
<1>1. NetCap \in Nat
  BY DelayAssumption DEF DelayAssumption
<1>2. \A what \in Purses :
        /\ Most("budget", what) \in Nat /\ Most("tries", what) \in Nat
        /\ conf.budget[what] \in Nat \ {0} /\ conf.budget[what] <= Most("budget", what)
        /\ conf.tries[what] \in Nat \ {0} /\ conf.tries[what] <= Most("tries", what)
  <2>1. ASSUME NEW what \in Purses
        PROVE  /\ Most("budget", what) \in Nat
               /\ conf["budget"][what] \in Nat \ {0} /\ conf["budget"][what] <= Most("budget", what)
    BY MostShape
  <2>2. ASSUME NEW what \in Purses
        PROVE  /\ Most("tries", what) \in Nat
               /\ conf["tries"][what] \in Nat \ {0} /\ conf["tries"][what] <= Most("tries", what)
    BY MostShape
  <2> QED BY <2>1, <2>2
<1>3. /\ \A w \in Windows : Room(w) \in Nat
      /\ Room("swap") \in Nat
      /\ Most("budget", "swap") <= Room("swap") /\ Most("budget", "auth") <= Room("swap")
  BY <1>2 DEF Room, Greater, Windows, Purses
<1>4. \A w \in Windows : Reach(w) \in Nat /\ Room(w) <= Reach(w)
  BY <1>1, <1>3 DEF Reach
<1>5. /\ SwapTries \in Nat
      /\ Most("tries", "swap") <= SwapTries /\ Most("tries", "auth") <= SwapTries
  BY <1>2 DEF SwapTries, Greater, Purses
<1>6. ASSUME NEW v \in Waited
      PROVE  /\ conf.budget[Purse(v)] \in Nat /\ conf.budget[Purse(v)] <= Room(Window(v))
             /\ Window(v) = "swap" => conf.tries[Purse(v)] \in Nat /\ conf.tries[Purse(v)] <= SwapTries
  <2>1. CASE v = "auth"
    BY <1>2, <1>3, <1>5, <2>1 DEF Purse, Window, Purses
  <2>2. CASE v \in {"swap", "cool"}
    BY <1>2, <1>3, <1>5, <2>2 DEF Purse, Window, Purses
  <2>3. CASE v \in {"perm", "client", "retry"}
    BY <1>2, <2>3 DEF Purse, Window, Purses, Room
  <2> QED BY <2>1, <2>2, <2>3 DEF Waited
<1> QED BY <1>2, <1>3, <1>4, <1>5, <1>6 DEF Room, Windows, Purses

(* A window that is open fills with the time, and a delay that ends within  *)
(* its reach fills it by the whole of the delay.                            *)
LEMMA PortionShape ==
    ASSUME NEW u \in Nat \cup {Never}, NEW now \in Nat, NEW t \in Nat,
           NEW room \in Nat, NEW reach \in Nat, room <= reach, u <= now + room
    PROVE  /\ Portion(u, now, room, reach) \in Nat
           /\ Portion(u, now, room, reach) <= reach
           /\ Portion(u, now + t, room, reach) \in Nat
           /\ Portion(u, now, room, reach) <= Portion(u, now + t, room, reach)
           /\ u # Never /\ now + t - u + room <= reach
                => Portion(u, now + t, room, reach) = Portion(u, now, room, reach) + t
BY DEF Portion, Never, Lesser

(* Time passes. *)
LEMMA LaterOK ==
    ASSUME conf \in Configs, NEW r \in Serving, TimeOK(r), NEW t \in Nat
    PROVE  LET q == [r EXCEPT !.now = @ + t] IN
           /\ q \in Serving /\ TimeOK(q)
           /\ \A w \in Windows :
                 /\ Part(r, w) \in Nat /\ Part(q, w) \in Nat /\ Part(r, w) <= Part(q, w)
                 /\ Part(r, w) <= Reach(w)
                 /\ r.until[w] # Never /\ r.now + t - r.until[w] + Room(w) <= Reach(w)
                      => Part(q, w) = Part(r, w) + t
<1> DEFINE q == [r EXCEPT !.now = @ + t]
<1>1. /\ r.now \in Nat /\ r.slept \in Nat /\ r.until \in [Windows -> Nat \cup {Never}]
  BY DEF Serving
<1>2. q \in Serving
  BY DEF Serving
<1>3. q.now = r.now + t /\ q.until = r.until /\ q.slept = r.slept
  BY DEF Serving
<1>4. ASSUME NEW w \in Windows
      PROVE  /\ Part(r, w) \in Nat /\ Part(q, w) \in Nat /\ Part(r, w) <= Part(q, w)
             /\ Part(r, w) <= Reach(w)
             /\ q.until[w] <= q.now + Room(w)
             /\ r.until[w] # Never /\ r.now + t - r.until[w] + Room(w) <= Reach(w)
                  => Part(q, w) = Part(r, w) + t
  <2> DEFINE u == r.until[w]
  <2>1. /\ u \in Nat \cup {Never} /\ Room(w) \in Nat /\ Reach(w) \in Nat /\ Room(w) <= Reach(w)
        /\ u <= r.now + Room(w)
    BY <1>1, RoomShape DEF TimeOK
  <2>2. /\ Part(r, w) = Portion(u, r.now, Room(w), Reach(w))
        /\ Part(q, w) = Portion(u, r.now + t, Room(w), Reach(w))
    BY <1>3 DEF Part
  <2>3. q.until[w] <= q.now + Room(w)
    <3>1. u <= r.now + t + Room(w)
      BY <1>1, <2>1 DEF Never
    <3> QED BY <1>3, <3>1
  <2> HIDE DEF u, q
  <2>4. /\ Portion(u, r.now, Room(w), Reach(w)) \in Nat
        /\ Portion(u, r.now, Room(w), Reach(w)) <= Reach(w)
        /\ Portion(u, r.now + t, Room(w), Reach(w)) \in Nat
        /\ Portion(u, r.now, Room(w), Reach(w)) <= Portion(u, r.now + t, Room(w), Reach(w))
        /\ u # Never /\ r.now + t - u + Room(w) <= Reach(w)
             => Portion(u, r.now + t, Room(w), Reach(w)) = Portion(u, r.now, Room(w), Reach(w)) + t
    BY <1>1, <2>1, PortionShape
  <2> QED BY <2>2, <2>3, <2>4 DEF u
<1> HIDE DEF q
<1>5. r.slept <= Part(r, "main") + Part(r, "swap") + Part(r, "perm") + Part(r, "client")
  BY DEF TimeOK
<1>6. q.slept <= Part(q, "main") + Part(q, "swap") + Part(q, "perm") + Part(q, "client")
  BY <1>1, <1>3, <1>4, <1>5 DEF Windows
<1>7. TimeOK(q)
  BY <1>4, <1>6 DEF TimeOK
<1> QED BY <1>2, <1>4, <1>7 DEF q

(* A verdict opens its window if it is the first of its kind. *)
LEMMA CountedOK ==
    ASSUME conf \in Configs, NEW r \in Serving, TimeOK(r), r.n > 0, r.until["main"] # Never,
           NEW v \in Waited
    PROVE  LET q == Counted(r, v) IN
           /\ q \in Serving /\ TimeOK(q)
           /\ q.until[Window(v)] # Never /\ q.until["main"] # Never
           /\ q.n <= r.n /\ (Window(v) # "swap" => q.count["swap"] = r.count["swap"])
           /\ q.now = r.now /\ q.pc = r.pc /\ q.ka = r.ka /\ q.raw = r.raw /\ q.gone = r.gone
           /\ q.served = r.served /\ q.heads = r.heads /\ q.stream = r.stream
<1> DEFINE w == Window(v)
           open == r.now + conf.budget[Purse(v)]
           q == Counted(r, v)
<1>0. w \in Windows
  BY DEF Window, Windows
<1>1. /\ r.now \in Nat /\ r.slept \in Nat /\ r.n \in Nat
      /\ r.count \in [Windows -> Nat] /\ r.until \in [Windows -> Nat \cup {Never}]
  BY DEF Serving
<1>2. CASE w = "main"
  <2>1. q = r
    BY <1>2 DEF Counted
  <2> QED BY <1>1, <1>2, <2>1
<1>3. CASE w # "main"
  <2>1. /\ conf.budget[Purse(v)] \in Nat /\ conf.budget[Purse(v)] <= Room(w)
        /\ \A x \in Windows : Room(x) \in Nat /\ Reach(x) \in Nat /\ Room(x) <= Reach(x)
    BY RoomShape
  <2>2. open \in Nat /\ open <= r.now + Room(w) /\ open # Never
    BY <1>0, <1>1, <2>1 DEF Never
  <2>3. q = [r EXCEPT !.count[w] = @ + 1, !.n = IF w = "swap" THEN @ - 1 ELSE @,
                      !.until[w] = IF @ = Never THEN open ELSE @]
    BY <1>3 DEF Counted
  <2>4. /\ q.count = [r.count EXCEPT ![w] = @ + 1]
        /\ q.n = IF w = "swap" THEN r.n - 1 ELSE r.n
        /\ q.until = [r.until EXCEPT ![w] = IF r.until[w] = Never THEN open ELSE r.until[w]]
        /\ q.now = r.now /\ q.pc = r.pc /\ q.ka = r.ka /\ q.raw = r.raw /\ q.gone = r.gone
        /\ q.served = r.served /\ q.heads = r.heads /\ q.stream = r.stream /\ q.slept = r.slept
    BY <2>3 DEF Serving
  <2> HIDE DEF w, open, q
  <2>5. /\ q.count \in [Windows -> Nat] /\ q.n \in Nat /\ q.n <= r.n
        /\ q.until \in [Windows -> Nat \cup {Never}]
    BY <1>0, <1>1, <2>2, <2>4
  <2>6. q \in Serving
    <3>1. [r EXCEPT !.count = q.count, !.n = q.n, !.until = q.until] \in Serving
      BY <2>5 DEF Serving
    <3>2. q = [r EXCEPT !.count = q.count, !.n = q.n, !.until = q.until]
      BY <2>3, <2>4 DEF Serving
    <3> QED BY <3>1, <3>2
  <2>7. \A x \in Windows : x # w => q.until[x] = r.until[x] /\ Part(q, x) = Part(r, x)
    BY <1>1, <2>4 DEF Part
  <2>8. \A x \in Windows : Part(r, x) \in Nat
    <3>1. 0 \in Nat
      OBVIOUS
    <3> QED BY <3>1, LaterOK
  <2>9. /\ q.until[w] = IF r.until[w] = Never THEN open ELSE r.until[w]
        /\ q.until[w] # Never
    BY <1>0, <1>1, <2>2, <2>4
  <2>10. q.until[w] <= q.now + Room(w) /\ Part(q, w) \in Nat /\ Part(r, w) <= Part(q, w)
    <3>1. CASE r.until[w] = Never
      <4>1. q.until[w] = open /\ Part(r, w) = 0
        BY <2>9, <3>1 DEF Part, Portion
      <4>2. Part(q, w) = Portion(open, r.now, Room(w), Reach(w))
        BY <2>4, <4>1 DEF Part
      <4>3. Part(q, w) \in Nat
        <5>1. Room(w) \in Nat /\ Reach(w) \in Nat /\ Room(w) <= Reach(w) /\ 0 \in Nat
          BY <1>0, <2>1
        <5>2. Portion(open, r.now, Room(w), Reach(w)) \in Nat
          BY <1>1, <2>2, <5>1, PortionShape
        <5> QED BY <4>2, <5>2
      <4> QED BY <2>2, <2>4, <4>1, <4>3
    <3>2. CASE r.until[w] # Never
      <4>1. q.until[w] = r.until[w] /\ Part(q, w) = Part(r, w)
        BY <2>4, <2>9, <3>2 DEF Part
      <4> QED BY <1>0, <2>4, <2>8, <4>1 DEF TimeOK
    <3> QED BY <3>1, <3>2
  <2>11. \A x \in Windows : Part(q, x) \in Nat /\ Part(r, x) <= Part(q, x)
                             /\ q.until[x] <= q.now + Room(x)
    BY <2>4, <2>7, <2>8, <2>10 DEF TimeOK
  <2>12. r.slept <= Part(r, "main") + Part(r, "swap") + Part(r, "perm") + Part(r, "client")
    BY DEF TimeOK
  <2>13. q.slept <= Part(q, "main") + Part(q, "swap") + Part(q, "perm") + Part(q, "client")
    BY <1>1, <2>4, <2>8, <2>11, <2>12 DEF Windows
  <2>14. TimeOK(q)
    BY <2>11, <2>13 DEF TimeOK
  <2>15. q.until["main"] # Never /\ (w # "swap" => q.count["swap"] = r.count["swap"])
    BY <1>1, <1>3, <2>4 DEF Windows
  <2> QED BY <2>4, <2>5, <2>6, <2>9, <2>14, <2>15 DEF w, q
<1> QED BY <1>2, <1>3

(* A delay that ends within the reach of its window is paid for by it. *)
LEMMA SleepOK ==
    ASSUME conf \in Configs, NEW r \in Serving, TimeOK(r), NEW d \in Nat, NEW w \in Windows,
           r.until[w] # Never, r.now + d - r.until[w] + Room(w) <= Reach(w)
    PROVE  LET q == Sleeping(r, d) IN
           /\ q \in Serving /\ TimeOK(q)
           /\ q.pc = "sleeping" /\ q.n = r.n /\ q.count = r.count /\ q.until = r.until
           /\ q.ka = (r.ka \/ r.stream) /\ q.raw = r.raw /\ q.gone = r.gone /\ q.served = r.served
           /\ q.heads = IF r.stream /\ ~r.ka THEN r.heads + 1 ELSE r.heads
<1> DEFINE p == [r EXCEPT !.now = @ + d]
           q == Sleeping(r, d)
<1>1. /\ r.now \in Nat /\ r.slept \in Nat /\ r.heads \in Nat /\ r.ka \in BOOLEAN /\ r.stream \in BOOLEAN
  BY DEF Serving
<1>2. /\ TimeOK(p)
      /\ \A x \in Windows :
            /\ Part(r, x) \in Nat /\ Part(p, x) \in Nat /\ Part(r, x) <= Part(p, x)
            /\ r.until[x] # Never /\ r.now + d - r.until[x] + Room(x) <= Reach(x)
                 => Part(p, x) = Part(r, x) + d
  BY LaterOK
<1>3. /\ q.now = r.now + d /\ q.slept = r.slept + d /\ q.until = r.until
      /\ q.pc = "sleeping" /\ q.n = r.n /\ q.count = r.count
      /\ q.ka = (r.ka \/ r.stream) /\ q.raw = r.raw /\ q.gone = r.gone /\ q.served = r.served
      /\ q.heads = IF r.stream /\ ~r.ka THEN r.heads + 1 ELSE r.heads
  BY DEF Sleeping, Serving
<1>4. q \in Serving
  <2>1. /\ r.now + d \in Nat /\ r.slept + d \in Nat /\ (r.ka \/ r.stream) \in BOOLEAN
        /\ (IF r.stream /\ ~r.ka THEN r.heads + 1 ELSE r.heads) \in Nat
    BY <1>1
  <2> QED BY <2>1 DEF Sleeping, Serving
<1>5. p.now = r.now + d /\ p.until = r.until
  BY DEF Serving
<1> HIDE DEF p, q
<1>6. \A x \in Windows : Part(q, x) = Part(p, x) /\ q.until[x] <= q.now + Room(x)
  BY <1>2, <1>3, <1>5 DEF Part, TimeOK
<1>7. r.slept <= Part(r, "main") + Part(r, "swap") + Part(r, "perm") + Part(r, "client")
  BY DEF TimeOK
<1>8. q.slept <= Part(q, "main") + Part(q, "swap") + Part(q, "perm") + Part(q, "client")
  <2>1. Part(q, w) = Part(r, w) + d
    BY <1>2, <1>6
  <2>2. \A x \in Windows : Part(r, x) \in Nat /\ Part(q, x) \in Nat /\ Part(r, x) <= Part(q, x)
    BY <1>2, <1>6
  <2> QED BY <1>1, <1>3, <1>7, <2>1, <2>2 DEF Windows
<1> QED BY <1>3, <1>4, <1>6, <1>8 DEF TimeOK, q

----------------------------------------------------------------------------
(* The edge shield: the answer a client has seen of its request *)

(* While a request is served, a head is out just when the waiting has sent  *)
(* one: for the first request of a connection, whose _ka_open began unset.  *)
HeadOut(r) == r.served > 0 /\ (r.served = 1 => r.heads = IF r.ka THEN 1 ELSE 0)

OneHead(r) == r.served = 1 /\ ~r.raw => r.heads = 1

HeadOK(r) ==
    /\ r.pc = "idle" /\ r.served = 0 => ~r.ka
    /\ r.pc \in {"asking", "sleeping"} => HeadOut(r)
    /\ r.pc = "relaying" => r.served > 0 /\ OneHead(r)
    /\ r.pc = "idle" /\ r.served > 0 /\ ~r.gone => r.end # "none" /\ OneHead(r)

ServeOK(r) ==
    /\ r \in Serving /\ TimeOK(r) /\ TriesOK(r) /\ HeadOK(r)
    /\ r.pc \in {"asking", "sleeping"} => r.until["main"] # Never
    /\ r.pc = "asking" => r.n > 0

ShieldInv == conf \in Configs /\ DOMAIN conn = Conns /\ \A c \in Conns : ServeOK(conn[c])

(* Nothing has been waited for in a request that has not begun. *)
LEMMA UnspentOK ==
    ASSUME conf \in Configs, NEW r \in Serving, r.slept = 0, r.n = 0, r.now = 0,
           r.count = [w \in Windows |-> 0], r.until = [w \in Windows |-> Never]
    PROVE  TimeOK(r) /\ TriesOK(r)
<1>1. \A w \in Windows : Part(r, w) = 0 /\ r.until[w] = Never
  BY DEF Part, Portion
<1>2. /\ \A w \in Windows : Room(w) \in Nat
      /\ SwapTries \in Nat /\ Most("tries", "main") \in Nat
  BY RoomShape
<1>3. \A w \in Windows : r.until[w] <= r.now + Room(w)
  BY <1>1, <1>2 DEF Never
<1>4. r.slept <= Part(r, "main") + Part(r, "swap") + Part(r, "perm") + Part(r, "client")
  BY <1>1 DEF Windows
<1>5. r.count["swap"] = 0
  BY DEF Windows
<1> QED BY <1>2, <1>3, <1>4, <1>5 DEF TimeOK, TriesOK

LEMMA FreshOK ==
    ASSUME conf \in Configs
    PROVE  ServeOK(Fresh) /\ Fresh.pc = "idle" /\ Fresh \in Serving
<1>1. Fresh \in Serving
  BY DEF Fresh, Serving, Windows, Paths, Never
<1>2. /\ Fresh.slept = 0 /\ Fresh.n = 0 /\ Fresh.now = 0 /\ Fresh.pc = "idle"
      /\ Fresh.count = [w \in Windows |-> 0] /\ Fresh.until = [w \in Windows |-> Never]
      /\ Fresh.served = 0 /\ Fresh.ka = FALSE
  BY DEF Fresh
<1>3. TimeOK(Fresh) /\ TriesOK(Fresh)
  BY <1>1, <1>2, UnspentOK
<1>4. HeadOK(Fresh)
  BY <1>2 DEF HeadOK
<1> QED BY <1>1, <1>2, <1>3, <1>4 DEF ServeOK

LEMMA OverOK ==
    ASSUME conf \in Configs, NEW r \in Serving, r.served > 0,
           NEW pc \in {"idle", "closed"}, NEW end \in {"none", "whole", "cut"},
           pc = "closed" \/ r.gone \/ (end # "none" /\ OneHead(r))
    PROVE  ServeOK(Over(r, pc, end)) /\ Over(r, pc, end).pc = pc
<1> DEFINE q == Over(r, pc, end)
<1>1. q \in Serving
  BY FreshOK DEF Over, Serving
<1>2. /\ q.slept = Fresh.slept /\ q.n = Fresh.n /\ q.now = Fresh.now
      /\ q.count = Fresh.count /\ q.until = Fresh.until
      /\ q.pc = pc /\ q.end = end /\ q.ka = r.ka /\ q.gone = r.gone /\ q.served = r.served
      /\ q.heads = r.heads /\ q.raw = r.raw
  BY FreshOK DEF Over, Serving
<1>3. /\ Fresh.slept = 0 /\ Fresh.n = 0 /\ Fresh.now = 0
      /\ Fresh.count = [w \in Windows |-> 0] /\ Fresh.until = [w \in Windows |-> Never]
  BY DEF Fresh
<1> HIDE DEF q
<1>4. TimeOK(q) /\ TriesOK(q)
  BY <1>1, <1>2, <1>3, UnspentOK
<1>5. HeadOK(q)
  <2>1. r.served \in 0 .. 2 /\ q.pc \in {"idle", "closed"}
    BY <1>2 DEF Serving
  <2> QED BY <1>2, <2>1 DEF HeadOK, OneHead
<1> QED BY <1>1, <1>2, <1>4, <1>5 DEF ServeOK, q

LEMMA FailedOK ==
    ASSUME conf \in Configs, NEW r \in Serving, HeadOut(r)
    PROVE  ServeOK(Failed(r)) /\ Failed(r).pc = "idle"
<1> DEFINE q == [r EXCEPT !.heads = IF r.ka THEN @ ELSE @ + 1]
<1>1. r.heads \in Nat /\ r.ka \in BOOLEAN
  BY DEF Serving
<1>2. q \in Serving /\ q.served = r.served /\ q.heads = IF r.ka THEN r.heads ELSE r.heads + 1
  BY <1>1 DEF Serving
<1>3. Failed(r) = Over(q, "idle", "whole")
  BY DEF Failed
<1> HIDE DEF q
<1>4. q.served > 0 /\ OneHead(q)
  BY <1>1, <1>2 DEF HeadOut, OneHead
<1>5. ServeOK(Over(q, "idle", "whole")) /\ Over(q, "idle", "whole").pc = "idle"
  BY <1>2, <1>4, OverOK
<1> QED BY <1>3, <1>5

LEMMA PassedOK ==
    ASSUME conf \in Configs, NEW r \in Serving, HeadOut(r)
    PROVE  ServeOK(Passed(r)) /\ Passed(r).pc = "idle"
<1> DEFINE q == [r EXCEPT !.heads = @ + 1, !.raw = r.ka]
<1>1. r.heads \in Nat /\ r.ka \in BOOLEAN
  BY DEF Serving
<1>2. q \in Serving /\ q.served = r.served /\ q.heads = r.heads + 1 /\ q.raw = r.ka
  <2>1. r.heads + 1 \in Nat
    BY <1>1
  <2>2. q \in Serving
    BY <1>1, <2>1 DEF Serving
  <2>3. q.served = r.served /\ q.heads = r.heads + 1 /\ q.raw = r.ka
    BY DEF Serving
  <2> QED BY <2>2, <2>3
<1>3. Passed(r) = Over(q, "idle", "whole")
  BY DEF Passed
<1> HIDE DEF q
<1>4. q.served > 0 /\ OneHead(q)
  BY <1>1, <1>2 DEF HeadOut, OneHead
<1>5. ServeOK(Over(q, "idle", "whole")) /\ Over(q, "idle", "whole").pc = "idle"
  BY <1>2, <1>4, OverOK
<1> QED BY <1>3, <1>5

LEMMA RelayingOK ==
    ASSUME conf \in Configs, NEW r \in Serving, TimeOK(r), TriesOK(r), HeadOut(r)
    PROVE  ServeOK(Relaying(r))
<1> DEFINE q == Relaying(r)
<1>1. r.heads \in Nat /\ r.ka \in BOOLEAN
  BY DEF Serving
<1>2. /\ q \in Serving /\ q.served = r.served /\ q.pc = "relaying"
      /\ q.heads = (IF r.ka THEN r.heads ELSE r.heads + 1)
      /\ q.now = r.now /\ q.until = r.until /\ q.slept = r.slept /\ q.n = r.n /\ q.count = r.count
  <2>1. r.heads + 1 \in Nat
    BY <1>1
  <2>2. q = [r EXCEPT !.pc = "relaying", !.heads = IF r.ka THEN @ ELSE @ + 1]
    BY DEF Relaying
  <2>3. q \in Serving
    BY <1>1, <2>1, <2>2 DEF Serving
  <2> QED BY <2>2, <2>3 DEF Serving
<1> HIDE DEF q
<1>3. TimeOK(q) /\ TriesOK(q)
  BY <1>2 DEF TimeOK, TriesOK, Part
<1>4. HeadOK(q)
  BY <1>1, <1>2 DEF HeadOK, HeadOut, OneHead
<1> QED BY <1>2, <1>3, <1>4 DEF ServeOK, q

LEMMA AskingOK ==
    ASSUME conf \in Configs, NEW r \in Serving, TimeOK(r), TriesOK(r), HeadOut(r),
           r.until["main"] # Never, r.n < Most("tries", "main")
    PROVE  ServeOK(Asking(r))
<1> DEFINE q == Asking(r)
<1>1. r.n \in Nat /\ Most("tries", "main") \in Nat
  BY RoomShape DEF Serving
<1>2. /\ q \in Serving /\ q.served = r.served /\ q.pc = "asking" /\ q.heads = r.heads /\ q.ka = r.ka
      /\ q.now = r.now /\ q.until = r.until /\ q.slept = r.slept /\ q.n = r.n + 1 /\ q.count = r.count
  <2>1. r.n + 1 \in Nat
    BY <1>1
  <2>2. q = [r EXCEPT !.pc = "asking", !.n = @ + 1]
    BY DEF Asking
  <2>3. q \in Serving
    BY <2>1, <2>2 DEF Serving
  <2> QED BY <2>2, <2>3 DEF Serving
<1> HIDE DEF q
<1>3. TimeOK(q) /\ TriesOK(q) /\ q.n > 0
  BY <1>1, <1>2 DEF TimeOK, TriesOK, Part
<1>4. HeadOK(q)
  BY <1>2 DEF HeadOK, HeadOut
<1> QED BY <1>2, <1>3, <1>4 DEF ServeOK, q

LEMMA SleepingOK ==
    ASSUME conf \in Configs, NEW r \in Serving, TimeOK(r), TriesOK(r), HeadOut(r),
           r.until["main"] # Never, NEW d \in Nat, NEW w \in Windows,
           r.until[w] # Never, r.now + d - r.until[w] + Room(w) <= Reach(w)
    PROVE  ServeOK(Sleeping(r, d))
<1> DEFINE q == Sleeping(r, d)
<1>1. /\ q \in Serving /\ TimeOK(q)
      /\ q.pc = "sleeping" /\ q.n = r.n /\ q.count = r.count /\ q.until = r.until
      /\ q.ka = (r.ka \/ r.stream) /\ q.raw = r.raw /\ q.gone = r.gone /\ q.served = r.served
      /\ q.heads = IF r.stream /\ ~r.ka THEN r.heads + 1 ELSE r.heads
  BY SleepOK
<1>2. r.heads \in Nat /\ r.ka \in BOOLEAN /\ r.stream \in BOOLEAN
  BY DEF Serving
<1> HIDE DEF q
<1>3. TriesOK(q)
  BY <1>1 DEF TriesOK
<1>4. HeadOK(q)
  BY <1>1, <1>2 DEF HeadOK, HeadOut
<1> QED BY <1>1, <1>3, <1>4 DEF ServeOK, q

(* A request begins with the main window open and its first attempt made. *)
LEMMA BegunOK ==
    ASSUME ShieldInv, NEW c \in Conns, NEW s \in BOOLEAN, NEW p \in Paths, Ready(c)
    PROVE  /\ ServeOK(Asking(Begun(c, s, p)))
           /\ Begun(c, s, p) \in Serving /\ HeadOut(Begun(c, s, p))
<1> DEFINE r == conn[c]
           q == Begun(c, s, p)
           b == conf.budget["main"]
<1>1. r \in Serving /\ HeadOK(r) /\ r.pc = "idle" /\ conf \in Configs
  BY DEF ShieldInv, ServeOK, Ready
<1>2. /\ b \in Nat /\ b <= Room("main") /\ Most("tries", "main") \in Nat /\ 0 < Most("tries", "main")
      /\ \A w \in Windows : Room(w) \in Nat /\ Reach(w) \in Nat /\ Room(w) <= Reach(w)
      /\ SwapTries \in Nat
  BY <1>1, RoomShape
<1>3. /\ r.ka \in BOOLEAN /\ r.gone \in BOOLEAN /\ r.served \in 0 .. 2
      /\ Lesser(r.served + 1, 2) \in 0 .. 2 /\ Lesser(r.served + 1, 2) > 0
      /\ Lesser(r.served + 1, 2) = 1 => r.served = 0
  BY <1>1 DEF Serving, Lesser
<1>4. q = [Fresh EXCEPT !.ka = r.ka, !.gone = r.gone, !.served = Lesser(r.served + 1, 2),
                        !.stream = s, !.path = p, !.until["main"] = b]
  BY DEF Begun
<1>5. /\ Fresh \in Serving /\ Fresh.slept = 0 /\ Fresh.n = 0 /\ Fresh.now = 0
      /\ Fresh.count = [w \in Windows |-> 0] /\ Fresh.until = [w \in Windows |-> Never]
      /\ Fresh.heads = 0
  BY <1>1, FreshOK DEF Fresh
<1> HIDE DEF r, b
<1>6. /\ q.slept = 0 /\ q.n = 0 /\ q.now = 0 /\ q.count = Fresh.count /\ q.heads = 0
      /\ q.until = [Fresh.until EXCEPT !["main"] = b]
      /\ q.ka = r.ka /\ q.gone = r.gone /\ q.served = Lesser(r.served + 1, 2)
  BY <1>4, <1>5 DEF Serving
<1>7. q.until \in [Windows -> Nat \cup {Never}]
  BY <1>2, <1>5, <1>6
<1>8. q \in Serving
  <2>1. q = [Fresh EXCEPT !.ka = r.ka, !.gone = r.gone, !.served = Lesser(r.served + 1, 2),
                          !.stream = s, !.path = p, !.until = q.until]
    BY <1>4, <1>5, <1>6 DEF Serving
  <2>2. [Fresh EXCEPT !.ka = r.ka, !.gone = r.gone, !.served = Lesser(r.served + 1, 2),
                      !.stream = s, !.path = p, !.until = q.until] \in Serving
    BY <1>3, <1>5, <1>7 DEF Serving
  <2> QED BY <2>1, <2>2
<1> HIDE DEF q
<1>9. q.until["main"] = b /\ \A w \in Windows : w # "main" => q.until[w] = Never
  BY <1>5, <1>6 DEF Windows
<1>10. \A w \in Windows : Part(q, w) \in Nat /\ q.until[w] <= q.now + Room(w)
  <2>1. ASSUME NEW w \in Windows PROVE q.until[w] <= 0 + Room(w)
    BY <1>2, <1>9 DEF Never
  <2>2. ASSUME NEW w \in Windows PROVE Part(q, w) \in Nat
    <3>1. /\ q.until[w] \in Nat \cup {Never} /\ 0 \in Nat /\ q.until[w] <= 0 + Room(w)
          /\ Room(w) \in Nat /\ Reach(w) \in Nat /\ Room(w) <= Reach(w)
      BY <1>2, <1>7, <2>1
    <3>2. Portion(q.until[w], 0, Room(w), Reach(w)) \in Nat
      BY <3>1, PortionShape
    <3> QED BY <1>6, <3>2 DEF Part
  <2> QED BY <1>6, <2>1, <2>2
<1>11. TimeOK(q) /\ TriesOK(q)
  <2>1. q.slept <= Part(q, "main") + Part(q, "swap") + Part(q, "perm") + Part(q, "client")
    BY <1>6, <1>10 DEF Windows
  <2>2. q.count["swap"] = 0
    BY <1>5, <1>6 DEF Windows
  <2> QED BY <1>2, <1>6, <1>10, <2>1, <2>2 DEF TimeOK, TriesOK
<1>12. HeadOut(q)
  BY <1>1, <1>3, <1>6 DEF HeadOut, HeadOK, r
<1>13. q.until["main"] # Never
  BY <1>2, <1>9 DEF Never
<1>14. q.n < Most("tries", "main")
  BY <1>2, <1>6
<1>15. ServeOK(Asking(q))
  BY <1>1, <1>8, <1>11, <1>12, <1>13, <1>14, AskingOK
<1> QED BY <1>8, <1>12, <1>15 DEF q

----------------------------------------------------------------------------
(* The edge shield: every step *)

LEMMA ServedOn ==
    ASSUME ShieldInv, NEW c \in Conns, NEW r, ServeOK(r), conn' = [conn EXCEPT ![c] = r],
           conf' = conf
    PROVE  ShieldInv'
<1>1. \A x \in Conns : ServeOK(conn'[x])
  BY DEF ShieldInv
<1>2. DOMAIN conn' = Conns
  BY DEF ShieldInv
<1> QED BY <1>1, <1>2 DEF ShieldInv

LEMMA ArrivalStep ==
    ASSUME ShieldInv, NEW c \in Conns
    PROVE  /\ \A s \in BOOLEAN, p \in Paths : Accept(c, s, p) => ShieldInv'
           /\ RejectBusy(c) => ShieldInv'
<1>1. ASSUME NEW s \in BOOLEAN, NEW p \in Paths, Accept(c, s, p) PROVE ShieldInv'
  <2>1. ServeOK(Asking(Begun(c, s, p)))
    BY <1>1, BegunOK DEF Accept
  <2> QED BY <1>1, <2>1, ServedOn DEF Accept
<1>2. ASSUME RejectBusy(c) PROVE ShieldInv'
  <2>1. PICK q : q = Begun(c, FALSE, "inference")
    OBVIOUS
  <2>2. q \in Serving /\ HeadOut(q) /\ conf \in Configs
    BY <1>2, <2>1, BegunOK DEF RejectBusy, Paths, ShieldInv
  <2>3. ServeOK(Failed(q))
    BY <2>2, FailedOK
  <2> QED BY <1>2, <2>1, <2>3, ServedOn DEF RejectBusy
<1> QED BY <1>1, <1>2

(* A thread that has waited for its answer is as it was, but later. *)
LEMMA ElapsedOK ==
    ASSUME ShieldInv, NEW c \in Conns, NEW t \in Took, conn[c].pc = "asking"
    PROVE  LET r == Elapsed(c, t) IN
           /\ r \in Serving /\ TimeOK(r) /\ TriesOK(r) /\ HeadOut(r)
           /\ r.until["main"] # Never /\ r.n > 0
<1>1. PICK b : b = conn[c]
  OBVIOUS
<1>2. /\ b \in Serving /\ TimeOK(b) /\ TriesOK(b) /\ HeadOut(b) /\ b.until["main"] # Never
      /\ b.n > 0 /\ conf \in Configs
  BY <1>1 DEF ShieldInv, ServeOK, HeadOK
<1>3. t \in Nat
  BY DelayAssumption DEF DelayAssumption
<1>4. PICK r : r = [b EXCEPT !.now = @ + t]
  OBVIOUS
<1>5. r \in Serving /\ TimeOK(r)
  BY <1>2, <1>3, <1>4, LaterOK
<1>6. /\ r.n = b.n /\ r.count = b.count /\ r.until = b.until /\ r.served = b.served
      /\ r.heads = b.heads /\ r.ka = b.ka
  BY <1>2, <1>4 DEF Serving
<1>7. TriesOK(r) /\ HeadOut(r)
  BY <1>2, <1>6 DEF TriesOK, HeadOut
<1>8. Elapsed(c, t) = r
  BY <1>1, <1>4 DEF Elapsed
<1> QED BY <1>2, <1>5, <1>6, <1>7, <1>8

LEMMA UnreachableStep ==
    ASSUME ShieldInv, NEW c \in Conns, NEW t \in Took, Unreachable(c, t)
    PROVE  ShieldInv'
<1>1. PICK r : r = Elapsed(c, t)
  OBVIOUS
<1>2. /\ r \in Serving /\ TimeOK(r) /\ TriesOK(r) /\ HeadOut(r)
      /\ r.until["main"] # Never /\ r.n > 0 /\ conf \in Configs
  BY <1>1, ElapsedOK DEF Unreachable, ShieldInv
<1>3. PICK q : /\ q = IF r.now >= r.until["main"] THEN Failed(r) ELSE Sleeping(r, NetworkDelay(r.n))
               /\ conn' = [conn EXCEPT ![c] = q] /\ conf' = conf
  BY <1>1 DEF Unreachable, Step
<1>4. CASE r.now >= r.until["main"]
  <2>1. ServeOK(q)
    BY <1>2, <1>3, <1>4, FailedOK
  <2> QED BY <1>3, <2>1, ServedOn
<1>5. CASE ~(r.now >= r.until["main"])
  <2>1. PICK d : d = NetworkDelay(r.n)
    OBVIOUS
  <2>2. r.n \in Nat /\ r.now \in Nat /\ r.until["main"] \in Nat \cup {Never} /\ "main" \in Windows
    BY <1>2 DEF Serving, Windows
  <2>3. d \in Nat /\ d <= NetCap /\ NetCap \in Nat
    BY <2>1, <2>2, DelayShape, DelayAssumption DEF DelayAssumption
  <2>4. Reach("main") = Room("main") + NetCap /\ Room("main") \in Nat
    BY <1>2, <2>2, RoomShape DEF Reach
  <2>5. r.now + d - r.until["main"] + Room("main") <= Reach("main")
    BY <1>2, <1>5, <2>2, <2>3, <2>4
  <2>6. ServeOK(Sleeping(r, d))
    BY <1>2, <2>2, <2>3, <2>5, SleepingOK
  <2> QED BY <1>3, <1>5, <2>1, <2>6, ServedOn
<1> QED BY <1>4, <1>5

LEMMA SucceedsStep ==
    ASSUME ShieldInv, NEW c \in Conns, NEW t \in Took, Succeeds(c, t)
    PROVE  ShieldInv'
<1>1. PICK r : r = Elapsed(c, t)
  OBVIOUS
<1>2. r \in Serving /\ TimeOK(r) /\ TriesOK(r) /\ HeadOut(r) /\ conf \in Configs
  BY <1>1, ElapsedOK DEF Succeeds, ShieldInv
<1>3. ServeOK(Relaying(r))
  BY <1>2, RelayingOK
<1> QED BY <1>1, <1>3, ServedOn DEF Succeeds, Step

LEMMA RefusedStep ==
    ASSUME ShieldInv, NEW c \in Conns, NEW t \in Took, NEW code, NEW mark, NEW hint \in Hints,
           Refused(c, t, code, mark, hint)
    PROVE  ShieldInv'
<1>1. PICK r : r = Elapsed(c, t)
  OBVIOUS
<1>2. /\ r \in Serving /\ TimeOK(r) /\ TriesOK(r) /\ HeadOut(r)
      /\ r.until["main"] # Never /\ r.n > 0 /\ conf \in Configs
  BY <1>1, ElapsedOK DEF Refused, ShieldInv
<1>3. PICK v : v = Classify(code, mark, conn[c].path)
  OBVIOUS
<1>4. v \in {"pass"} \cup Waited
  BY <1>3, VerdictShape
<1>5. PICK q : q = Counted(r, v)
  OBVIOUS
<1>6. PICK tries : tries = IF Window(v) = "main" THEN q.n ELSE q.count[Window(v)]
  OBVIOUS
<1>7. PICK d : d = Delay(v, tries, hint)
  OBVIOUS
<1>8. /\ conf' = conf
      /\ \/ conn' = [conn EXCEPT ![c] = Passed(r)]
         \/ v # "pass" /\ Spent(q, v, d) /\ conn' = [conn EXCEPT ![c] = Failed(q)]
         \/ v # "pass" /\ ~Spent(q, v, d) /\ conn' = [conn EXCEPT ![c] = Sleeping(q, d)]
  BY <1>1, <1>3, <1>5, <1>6, <1>7 DEF Refused, Step
<1>9. CASE conn' = [conn EXCEPT ![c] = Passed(r)]
  <2>1. ServeOK(Passed(r))
    BY <1>2, PassedOK
  <2> QED BY <1>8, <1>9, <2>1, ServedOn
<1>10. CASE v \in Waited /\ conn' # [conn EXCEPT ![c] = Passed(r)]
  <2>1. /\ q \in Serving /\ TimeOK(q)
        /\ q.until[Window(v)] # Never /\ q.until["main"] # Never
        /\ q.n <= r.n /\ (Window(v) # "swap" => q.count["swap"] = r.count["swap"])
        /\ q.ka = r.ka /\ q.served = r.served /\ q.heads = r.heads
    BY <1>2, <1>5, <1>10, CountedOK
  <2>2. HeadOut(q)
    BY <1>2, <2>1 DEF HeadOut
  <2>3. CASE Spent(q, v, d) /\ conn' = [conn EXCEPT ![c] = Failed(q)]
    <3>1. ServeOK(Failed(q))
      BY <1>2, <2>1, <2>2, FailedOK
    <3> QED BY <1>8, <2>3, <3>1, ServedOn
  <2>4. CASE ~Spent(q, v, d) /\ conn' = [conn EXCEPT ![c] = Sleeping(q, d)]
    <3>1. PICK w : w = Window(v)
      OBVIOUS
    <3>2. w \in Windows
      BY <3>1 DEF Window, Windows
    <3>3. /\ q.n \in Nat /\ q.now \in Nat /\ q.count \in [Windows -> Nat]
          /\ q.until \in [Windows -> Nat \cup {Never}] /\ r.n \in Nat
      BY <1>2, <2>1 DEF Serving
    <3>4. tries \in Nat /\ hint \in Nat
      BY <1>6, <3>1, <3>2, <3>3, DelayAssumption DEF DelayAssumption
    <3>5. d \in Nat
      BY <1>7, <1>10, <3>4, DelayShape
    <3>6. /\ d <= q.until[w] - q.now
          /\ w = "swap" => q.count["swap"] <= conf.tries[Purse(v)]
      <4>1. /\ ~(q.until[w] - q.now < d)
            /\ w = "swap" => ~(q.count["swap"] > conf.tries[Purse(v)])
        BY <2>4, <3>1 DEF Spent
      <4>2. q.until[w] \in Nat /\ q.count["swap"] \in Nat
        BY <2>1, <3>1, <3>2, <3>3 DEF Windows
      <4>3. w = "swap" => conf.tries[Purse(v)] \in Nat
        BY <1>2, <1>10, <3>1, RoomShape
      <4> QED BY <3>3, <3>5, <4>1, <4>2, <4>3
    <3>7. Room(w) \in Nat /\ Reach(w) \in Nat /\ Room(w) <= Reach(w)
      BY <1>2, <3>2, RoomShape
    <3>8. q.until[w] \in Nat
      BY <2>1, <3>1, <3>2, <3>3
    <3>9. q.now + d - q.until[w] + Room(w) <= Reach(w)
      BY <3>3, <3>5, <3>6, <3>7, <3>8
    <3>10. TriesOK(q)
      <4>1. q.n <= Most("tries", "main")
        BY <1>2, <2>1, <3>3, RoomShape DEF TriesOK
      <4>2. q.count["swap"] <= SwapTries
        <5>1. CASE w = "swap"
          <6>1. conf.tries[Purse(v)] \in Nat /\ conf.tries[Purse(v)] <= SwapTries /\ SwapTries \in Nat
            BY <1>2, <1>10, <3>1, <5>1, RoomShape
          <6>2. q.count["swap"] \in Nat
            BY <3>3 DEF Windows
          <6> QED BY <3>6, <5>1, <6>1, <6>2
        <5>2. CASE w # "swap"
          BY <1>2, <2>1, <3>1, <5>2 DEF TriesOK
        <5> QED BY <5>1, <5>2
      <4> QED BY <4>1, <4>2 DEF TriesOK
    <3>11. ServeOK(Sleeping(q, d))
      BY <1>2, <2>1, <2>2, <3>1, <3>2, <3>5, <3>9, <3>10, SleepingOK
    <3> QED BY <1>8, <2>4, <3>11, ServedOn
  <2> QED BY <1>8, <1>10, <2>3, <2>4
<1> QED BY <1>4, <1>8, <1>9, <1>10

(* After the delay, or in the body, a request goes on or is over. *)
LEMMA GoesOnStep ==
    ASSUME ShieldInv, NEW c \in Conns, Resume(c) \/ Notice(c) \/ RelayEnds(c)
    PROVE  ShieldInv'
<1>1. PICK r : r = conn[c]
  OBVIOUS
<1>2. ServeOK(r) /\ r \in Serving /\ conf \in Configs
  BY <1>1 DEF ShieldInv, ServeOK
<1>3. CASE Resume(c)
  <2>1. /\ TimeOK(r) /\ TriesOK(r) /\ HeadOut(r) /\ r.until["main"] # Never
    BY <1>1, <1>2, <1>3 DEF Resume, ServeOK, HeadOK
  <2>2. CASE r.n < conf.tries["main"]
    <3>1. r.n < Most("tries", "main")
      <4>1. r.n \in Nat /\ conf.tries["main"] \in Nat
            /\ Most("tries", "main") \in Nat /\ conf.tries["main"] <= Most("tries", "main")
        BY <1>2, RoomShape DEF Serving
      <4> QED BY <2>2, <4>1
    <3>2. ServeOK(Asking(r))
      BY <1>2, <2>1, <3>1, AskingOK
    <3> QED BY <1>1, <1>3, <2>2, <3>2, ServedOn DEF Resume, Step
  <2>3. CASE ~(r.n < conf.tries["main"])
    <3>1. ServeOK(Failed(r))
      BY <1>2, <2>1, FailedOK
    <3> QED BY <1>1, <1>3, <2>3, <3>1, ServedOn DEF Resume, Step
  <2> QED BY <2>2, <2>3
<1>4. CASE Notice(c)
  <2>1. r.served > 0 /\ r.gone
    BY <1>1, <1>2, <1>4 DEF Notice, ServeOK, HeadOK, HeadOut
  <2>2. ServeOK(Over(r, "idle", "none"))
    BY <1>2, <2>1, OverOK
  <2> QED BY <1>1, <1>4, <2>2, ServedOn DEF Notice, Step
<1>5. CASE RelayEnds(c)
  <2>1. r.served > 0 /\ OneHead(r)
    BY <1>1, <1>2, <1>5 DEF RelayEnds, ServeOK, HeadOK
  <2>2. /\ ServeOK(Over(r, "idle", "whole")) /\ ServeOK(Over(r, "idle", "cut"))
        /\ ServeOK(Over(r, "closed", "cut"))
    BY <1>2, <2>1, OverOK
  <2> QED BY <1>1, <1>5, <2>2, ServedOn DEF RelayEnds, Step
<1> QED BY <1>3, <1>4, <1>5

(* The client: what it does leaves the request as far as it is. *)
LEMMA ClientStep ==
    ASSUME ShieldInv, NEW c \in Conns, Leave(c) \/ Close(c) \/ Connect(c)
    PROVE  ShieldInv'
<1>1. PICK r : r = conn[c]
  OBVIOUS
<1>2. ServeOK(r) /\ r \in Serving /\ conf \in Configs
  BY <1>1 DEF ShieldInv, ServeOK
<1>3. CASE Leave(c)
  <2>1. PICK q : q = [r EXCEPT !.gone = TRUE]
    OBVIOUS
  <2>2. q \in Serving
    BY <1>2, <2>1 DEF Serving
  <2>3. /\ q.gone = TRUE /\ q.pc = r.pc /\ q.ka = r.ka /\ q.served = r.served /\ q.n = r.n
        /\ q.now = r.now /\ q.count = r.count /\ q.until = r.until /\ q.heads = r.heads
        /\ q.end = r.end /\ q.slept = r.slept /\ q.raw = r.raw
    BY <1>2, <2>1 DEF Serving
  <2>4. ServeOK(q)
    BY <1>2, <2>2, <2>3 DEF ServeOK, TimeOK, Part, TriesOK, HeadOK, HeadOut, OneHead
  <2>5. conn' = [conn EXCEPT ![c] = q] /\ conf' = conf
    BY <1>1, <1>3, <2>1 DEF Leave
  <2> QED BY <2>4, <2>5, ServedOn
<1>4. CASE Close(c)
  <2>1. PICK q : q = [r EXCEPT !.pc = "closed"]
    OBVIOUS
  <2>2. q \in Serving
    BY <1>2, <2>1 DEF Serving
  <2>3. /\ q.pc = "closed" /\ q.ka = r.ka /\ q.served = r.served /\ q.n = r.n
        /\ q.now = r.now /\ q.count = r.count /\ q.until = r.until /\ q.slept = r.slept
    BY <1>2, <2>1 DEF Serving
  <2>4. ServeOK(q)
    BY <1>2, <2>2, <2>3 DEF ServeOK, TimeOK, Part, TriesOK, HeadOK
  <2>5. conn' = [conn EXCEPT ![c] = q] /\ conf' = conf
    BY <1>1, <1>4, <2>1 DEF Close
  <2> QED BY <2>4, <2>5, ServedOn
<1>5. CASE Connect(c)
  BY <1>2, <1>5, FreshOK, ServedOn DEF Connect
<1> QED BY <1>3, <1>4, <1>5

LEMMA ShieldInvHolds == ShieldSpec => []ShieldInv
<1>1. ShieldInit => ShieldInv
  BY FreshOK DEF ShieldInit, ShieldInv
<1>2. ShieldInv /\ [ShieldNext]_shieldVars => ShieldInv'
  <2> SUFFICES ASSUME ShieldInv, [ShieldNext]_shieldVars PROVE ShieldInv'
    OBVIOUS
  <2>1. ASSUME NEW c \in Conns, NEW s \in BOOLEAN, NEW p \in Paths, Accept(c, s, p) PROVE ShieldInv'
    BY <2>1, ArrivalStep
  <2>2. ASSUME NEW c \in Conns, RejectBusy(c) PROVE ShieldInv'
    BY <2>2, ArrivalStep
  <2>3. ASSUME NEW c \in Conns, Serve(c) PROVE ShieldInv'
    <3>1. CASE Answer(c)
      BY <3>1, UnreachableStep, SucceedsStep, RefusedStep DEF Answer
    <3>2. CASE Resume(c) \/ Notice(c) \/ RelayEnds(c)
      BY <3>2, GoesOnStep
    <3> QED BY <2>3, <3>1, <3>2 DEF Serve
  <2>4. ASSUME NEW c \in Conns, Leave(c) \/ Close(c) \/ Connect(c) PROVE ShieldInv'
    BY <2>4, ClientStep
  <2>5. ASSUME NEW cf \in Configs, Configure(cf) PROVE ShieldInv'
    BY <2>5 DEF Configure, ShieldInv
  <2>6. CASE UNCHANGED shieldVars
    BY <2>6 DEF shieldVars, ShieldInv
  <2> QED BY <2>1, <2>2, <2>3, <2>4, <2>5, <2>6 DEF ShieldNext
<1> QED BY <1>1, <1>2, PTL DEF ShieldSpec

(* EffortBounded: for any settings, delays, factors and answers, a request  *)
(* calls the upstream no more often than its attempts and the tries of the  *)
(* swap family together, and waits no longer than its windows one after the *)
(* other and one delay of the network (_handle(), the budgets).             *)
THEOREM EffortBoundedHolds == ShieldSpec => []EffortBounded
<1>1. ShieldInv => EffortBounded
  <2> SUFFICES ASSUME ShieldInv PROVE EffortBounded
    OBVIOUS
  <2>1. ASSUME NEW c \in Conns
        PROVE  /\ conn[c].n + conn[c].count["swap"] <= Most("tries", "main") + SwapTries
               /\ conn[c].slept <= Most("budget", "main") + NetCap
                                   + Greater(Most("budget", "swap"), Most("budget", "auth"))
                                   + Most("budget", "perm") + Most("budget", "client")
    <3>1. PICK r : r = conn[c]
      OBVIOUS
    <3>2. r \in Serving /\ TimeOK(r) /\ TriesOK(r) /\ conf \in Configs
      BY <3>1 DEF ShieldInv, ServeOK
    <3>3. /\ r.n \in Nat /\ r.count["swap"] \in Nat /\ r.slept \in Nat
          /\ SwapTries \in Nat /\ Most("tries", "main") \in Nat
      BY <3>2, RoomShape DEF Serving, Windows
    <3>4. r.n + r.count["swap"] <= Most("tries", "main") + SwapTries
      BY <3>2, <3>3 DEF TriesOK
    <3>5. \A w \in Windows : Part(r, w) \in Nat /\ Part(r, w) <= Reach(w) /\ Reach(w) \in Nat
      <4>1. 0 \in Nat
        OBVIOUS
      <4> QED BY <3>2, <4>1, LaterOK, RoomShape
    <3>6. r.slept <= Part(r, "main") + Part(r, "swap") + Part(r, "perm") + Part(r, "client")
      BY <3>2 DEF TimeOK
    <3>7. r.slept <= Reach("main") + Reach("swap") + Reach("perm") + Reach("client")
      BY <3>3, <3>5, <3>6 DEF Windows
    <3>8. /\ Reach("main") = Most("budget", "main") + NetCap
          /\ Reach("swap") = Greater(Most("budget", "swap"), Most("budget", "auth"))
          /\ Reach("perm") = Most("budget", "perm") /\ Reach("client") = Most("budget", "client")
      BY DEF Reach, Room
    <3> QED BY <3>1, <3>4, <3>7, <3>8
  <2> QED BY <2>1 DEF EffortBounded, SwapTries
<1> QED BY <1>1, ShieldInvHolds, PTL

(* OneAnswer: for any connections and settings, a thread is not back for    *)
(* the next request without an answer to the last one, and the first of a   *)
(* connection that is not passed on raw has one head (_fail(), _relay(),    *)
(* _relay_after_keepalive()).                                               *)
THEOREM OneAnswerHolds == ShieldSpec => []OneAnswer
<1>1. ShieldInv => OneAnswer
  BY DEF ShieldInv, ServeOK, HeadOK, OneHead, OneAnswer
<1> QED BY <1>1, ShieldInvHolds, PTL

----------------------------------------------------------------------------
(* The streamed answer of /v1/messages: what the converter may hold, what   *)
(* the client may have, and how far the two agree (Sim).                    *)

Pieces == [n : Nat, mark : {"plain", "angle", "tag"}]
ClientBlock == [kind : {"text", "thinking", "tool_use"}, open : BOOLEAN, pieces : Seq(Pieces)]
ClientBlocks == UNION {[D -> ClientBlock] : D \in SUBSET Nat}
Clients ==
    [blocks : ClientBlocks, stage : {"before", "open", "closing", "over"}, broken : BOOLEAN]
ToolMaps == UNION {[D -> Nat] : D \in SUBSET Nat}
Pipes ==
    [started : BOOLEAN, next : Nat, text : [index : Nat, kind : {"none", "text", "thinking"}],
     tools : ToolMaps, buffer : Seq(Pieces), mode : {"waiting", "streaming", "abandoned"},
     hidden : SUBSET Nat, client : Clients]

Secret(s) == ~keep /\ s.text.kind = "thinking"

(* What the converter has open and the filter does not hide. *)
Shown(s) ==
    {s.tools[c] : c \in DOMAIN s.tools}
      \cup (IF s.text.kind = "none" \/ Secret(s) THEN {} ELSE {s.text.index})

TextOK(s) ==
    IF s.text.kind = "none" THEN s.text = NoBlock
    ELSE s.started /\ s.text.index < s.next /\ \A c \in DOMAIN s.tools : s.tools[c] # s.text.index

Follows(s) ==
    /\ ~s.client.broken
    /\ s.client.stage = IF s.started THEN "open" ELSE "before"
    /\ \A i \in DOMAIN s.client.blocks : i < s.next
    /\ \A i \in DOMAIN s.client.blocks : s.client.blocks[i].open <=> i \in Shown(s)
    /\ Shown(s) \subseteq DOMAIN s.client.blocks
    /\ \A c \in DOMAIN s.tools : s.client.blocks[s.tools[c]].kind = "tool_use"
    /\ s.text.kind # "none" /\ ~Secret(s) => s.client.blocks[s.text.index].kind = s.text.kind

(* An open block of text is the last one. *)
Newest(s) == s.text.kind = "text" => \A i \in TextBlocks(s.client) : i <= s.text.index

Sim(s) ==
    /\ s \in Pipes /\ TextOK(s) /\ Newest(s) /\ IsInjective(s.tools)
    /\ s.hidden = IF Secret(s) THEN {s.text.index} ELSE {}
    /\ Follows(s)

(* What the client of t has is what that of s has, and maybe new blocks with *)
(* nothing in them; or that and more pieces in one block.                   *)
Body(s, j) == IF j \in DOMAIN s.client.blocks THEN s.client.blocks[j].pieces ELSE <<>>

KindsStay(s, t) ==
    \A j \in DOMAIN s.client.blocks :
       j \in DOMAIN t.client.blocks /\ t.client.blocks[j].kind = s.client.blocks[j].kind

Still(s, t) ==
    KindsStay(s, t) /\ \A j \in DOMAIN t.client.blocks : t.client.blocks[j].pieces = Body(s, j)

Grows(s, t, i, pieces) ==
    /\ KindsStay(s, t)
    /\ \A j \in DOMAIN t.client.blocks :
          t.client.blocks[j].pieces = IF j = i THEN Body(s, j) \o pieces ELSE Body(s, j)

(* Text is kept back only where no text block is open. *)
Held(s) ==
    /\ s.mode = "waiting" => s.text.kind # "text"
    /\ s.mode # "waiting" => s.buffer = <<>>

LEMMA StillStill ==
    ASSUME NEW s, NEW t, NEW u, Still(s, t), Still(t, u)
    PROVE  Still(s, u)
BY DEF Still, KindsStay, Body

LEMMA StillGrows ==
    ASSUME NEW s, NEW t, NEW u, NEW i, NEW pieces, Still(s, t), Grows(t, u, i, pieces)
    PROVE  Grows(s, u, i, pieces)
<1>1. \A j : Body(t, j) = Body(s, j)
  BY DEF Still, KindsStay, Body
<1>2. KindsStay(s, u)
  BY DEF Still, Grows, KindsStay
<1> QED BY <1>1, <1>2 DEF Grows

(* Tables as functions: from any set of numbers.                            *)
LEMMA BlocksAre ==
    ASSUME NEW f
    PROVE  f \in ClientBlocks <=> DOMAIN f \subseteq Nat /\ f \in [DOMAIN f -> ClientBlock]
BY DEF ClientBlocks

LEMMA ToolsAre ==
    ASSUME NEW f
    PROVE  f \in ToolMaps <=> DOMAIN f \subseteq Nat /\ f \in [DOMAIN f -> Nat]
BY DEF ToolMaps

(* A client that is sent the start of a block, or more of one, or its stop. *)
LEMMA GetsStart ==
    ASSUME NEW c \in Clients, NEW i \in Nat, NEW kind \in {"text", "thinking", "tool_use"},
           ~c.broken, c.stage = "open", i \notin DOMAIN c.blocks
    PROVE  LET d == Receive(c, Start(i, kind)) IN
           /\ d \in Clients /\ ~d.broken /\ d.stage = "open"
           /\ DOMAIN d.blocks = DOMAIN c.blocks \cup {i}
           /\ d.blocks[i].kind = kind /\ d.blocks[i].open /\ d.blocks[i].pieces = <<>>
           /\ \A j \in DOMAIN c.blocks : d.blocks[j] = c.blocks[j]
<1> DEFINE e == Start(i, kind)
           new == [kind |-> kind, open |-> TRUE, pieces |-> <<>>]
           f == Put(c.blocks, i, new)
<1>1. new \in ClientBlock
  BY DEF ClientBlock
<1>2. DOMAIN c.blocks \subseteq Nat /\ c.blocks \in [DOMAIN c.blocks -> ClientBlock]
  BY BlocksAre DEF Clients
<1>3. f = [j \in DOMAIN c.blocks \cup {i} |-> IF j = i THEN new ELSE c.blocks[j]]
  BY DEF Put
<1> HIDE DEF new
<1>4. f \in [DOMAIN c.blocks \cup {i} -> ClientBlock] /\ DOMAIN f = DOMAIN c.blocks \cup {i}
  BY <1>1, <1>2, <1>3
<1> HIDE DEF f
<1>5. f \in ClientBlocks
  <2>1. DOMAIN f \subseteq Nat /\ f \in [DOMAIN f -> ClientBlock]
    BY <1>2, <1>4
  <2> QED BY <2>1, BlocksAre
<1>6. f[i] = new /\ \A j \in DOMAIN c.blocks : f[j] = c.blocks[j]
  BY <1>3
<1>7. Sensible(c, e) /\ Receive(c, e) = [c EXCEPT !.blocks = f]
  BY DEF Sensible, Receive, Start, new, f
<1>8. [c EXCEPT !.blocks = f] \in Clients /\ [c EXCEPT !.blocks = f].blocks = f
  BY <1>5 DEF Clients
<1>9. [c EXCEPT !.blocks = f].stage = c.stage /\ [c EXCEPT !.blocks = f].broken = c.broken
  BY DEF Clients
<1> QED BY <1>4, <1>6, <1>7, <1>8, <1>9 DEF new

LEMMA GetsMore ==
    ASSUME NEW c \in Clients, NEW i \in DOMAIN c.blocks, NEW kind, NEW pieces \in Seq(Pieces),
           ~c.broken, c.stage = "open", c.blocks[i].open, c.blocks[i].kind = kind
    PROVE  LET d == Receive(c, Delta(i, kind, pieces)) IN
           /\ d \in Clients /\ ~d.broken /\ d.stage = "open"
           /\ DOMAIN d.blocks = DOMAIN c.blocks
           /\ \A j \in DOMAIN c.blocks :
                 d.blocks[j].kind = c.blocks[j].kind /\ d.blocks[j].open = c.blocks[j].open
           /\ \A j \in DOMAIN c.blocks :
                 d.blocks[j].pieces = IF j = i THEN c.blocks[j].pieces \o pieces ELSE c.blocks[j].pieces
<1> DEFINE e == Delta(i, kind, pieces)
           b == [c.blocks[i] EXCEPT !.pieces = @ \o pieces]
           f == [c.blocks EXCEPT ![i] = b]
<1>1. DOMAIN c.blocks \subseteq Nat /\ c.blocks \in [DOMAIN c.blocks -> ClientBlock]
  BY BlocksAre DEF Clients
<1>2. c.blocks[i] \in ClientBlock
  BY <1>1
<1>3. /\ b \in ClientBlock /\ b.kind = c.blocks[i].kind /\ b.open = c.blocks[i].open
      /\ b.pieces = c.blocks[i].pieces \o pieces
  <2>1. c.blocks[i].pieces \in Seq(Pieces)
    BY <1>2 DEF ClientBlock
  <2>2. c.blocks[i].pieces \o pieces \in Seq(Pieces)
    BY <2>1
  <2> QED BY <1>2, <2>2 DEF ClientBlock
<1>4. Sensible(c, e) /\ Receive(c, e) = [c EXCEPT !.blocks = f]
  <2>1. e.type = "delta" /\ e.index = i /\ e.kind = kind /\ e.pieces = pieces
    BY DEF Delta
  <2>2. i \in OpenBlocks(c)
    BY DEF OpenBlocks
  <2>3. Sensible(c, e)
    BY <2>1, <2>2 DEF Sensible
  <2>4. Receive(c, e) = [c EXCEPT !.blocks[e.index].pieces = @ \o e.pieces]
    BY <2>1, <2>3 DEF Receive
  <2> QED BY <2>1, <2>3, <2>4
<1> HIDE DEF b
<1>5. f \in [DOMAIN c.blocks -> ClientBlock] /\ DOMAIN f = DOMAIN c.blocks
  BY <1>1, <1>3
<1>6. f[i] = b /\ \A j \in DOMAIN c.blocks : j # i => f[j] = c.blocks[j]
  BY <1>1
<1> HIDE DEF f
<1>10. \A j \in DOMAIN c.blocks :
          /\ f[j].kind = c.blocks[j].kind /\ f[j].open = c.blocks[j].open
          /\ f[j].pieces = IF j = i THEN c.blocks[j].pieces \o pieces ELSE c.blocks[j].pieces
  BY <1>3, <1>6
<1>7. f \in ClientBlocks
  <2>1. DOMAIN f \subseteq Nat /\ f \in [DOMAIN f -> ClientBlock]
    BY <1>1, <1>5
  <2> QED BY <2>1, BlocksAre
<1>8. [c EXCEPT !.blocks = f] \in Clients /\ [c EXCEPT !.blocks = f].blocks = f
  BY <1>7 DEF Clients
<1>9. [c EXCEPT !.blocks = f].stage = c.stage /\ [c EXCEPT !.blocks = f].broken = c.broken
  BY DEF Clients
<1> QED BY <1>3, <1>4, <1>5, <1>8, <1>9, <1>10

LEMMA GetsStop ==
    ASSUME NEW c \in Clients, NEW i \in DOMAIN c.blocks,
           ~c.broken, c.stage = "open", c.blocks[i].open
    PROVE  LET d == Receive(c, Stop(i)) IN
           /\ d \in Clients /\ ~d.broken /\ d.stage = "open"
           /\ DOMAIN d.blocks = DOMAIN c.blocks /\ ~d.blocks[i].open
           /\ \A j \in DOMAIN c.blocks :
                 d.blocks[j].kind = c.blocks[j].kind /\ (j # i => d.blocks[j].open = c.blocks[j].open)
           /\ \A j \in DOMAIN c.blocks : d.blocks[j].pieces = c.blocks[j].pieces
<1> DEFINE e == Stop(i)
           b == [c.blocks[i] EXCEPT !.open = FALSE]
           f == [c.blocks EXCEPT ![i] = b]
<1>1. DOMAIN c.blocks \subseteq Nat /\ c.blocks \in [DOMAIN c.blocks -> ClientBlock]
  BY BlocksAre DEF Clients
<1>2. c.blocks[i] \in ClientBlock
  BY <1>1
<1>3. b \in ClientBlock /\ b.kind = c.blocks[i].kind /\ ~b.open /\ b.pieces = c.blocks[i].pieces
  BY <1>2 DEF ClientBlock
<1>4. Sensible(c, e) /\ Receive(c, e) = [c EXCEPT !.blocks = f]
  <2>1. e.type = "stop" /\ e.index = i
    BY DEF Stop
  <2>2. i \in OpenBlocks(c)
    BY DEF OpenBlocks
  <2>3. Sensible(c, e)
    BY <2>1, <2>2 DEF Sensible
  <2>4. Receive(c, e) = [c EXCEPT !.blocks[e.index].open = FALSE]
    BY <2>1, <2>3 DEF Receive
  <2> QED BY <2>1, <2>3, <2>4
<1> HIDE DEF b
<1>5. f \in [DOMAIN c.blocks -> ClientBlock] /\ DOMAIN f = DOMAIN c.blocks
  BY <1>1, <1>3
<1>6. f[i] = b /\ \A j \in DOMAIN c.blocks : j # i => f[j] = c.blocks[j]
  BY <1>1
<1> HIDE DEF f
<1>7. f \in ClientBlocks
  <2>1. DOMAIN f \subseteq Nat /\ f \in [DOMAIN f -> ClientBlock]
    BY <1>1, <1>5
  <2> QED BY <2>1, BlocksAre
<1>8. [c EXCEPT !.blocks = f] \in Clients /\ [c EXCEPT !.blocks = f].blocks = f
  BY <1>7 DEF Clients
<1>9. [c EXCEPT !.blocks = f].stage = c.stage /\ [c EXCEPT !.blocks = f].broken = c.broken
  BY DEF Clients
<1> QED BY <1>3, <1>4, <1>5, <1>6, <1>8, <1>9

(* The text block the converter has open, as the client sees it. *)
LEMMA TextSeen ==
    ASSUME NEW s, Sim(s), s.text.kind # "none", ~Secret(s)
    PROVE  /\ s.text.index \in DOMAIN s.client.blocks
           /\ s.client.blocks[s.text.index].open
           /\ s.client.blocks[s.text.index].kind = s.text.kind
           /\ ~s.client.broken /\ s.client.stage = "open" /\ s.client \in Clients
BY DEF Sim, Follows, Shown, TextOK, Pipes

(* The types of the fields, one by one.                                     *)
LEMMA PipeShape ==
    ASSUME NEW s \in Pipes
    PROVE  /\ s.started \in BOOLEAN /\ s.next \in Nat /\ s.tools \in ToolMaps
           /\ s.text \in [index : Nat, kind : {"none", "text", "thinking"}]
           /\ s.text.index \in Nat /\ s.text.kind \in {"none", "text", "thinking"}
           /\ s.buffer \in Seq(Pieces) /\ s.mode \in {"waiting", "streaming", "abandoned"}
           /\ s.hidden \in SUBSET Nat /\ s.client \in Clients
           /\ \A c \in DOMAIN s.tools : c \in Nat /\ s.tools[c] \in Nat
<1>1. \A c \in DOMAIN s.tools : c \in Nat /\ s.tools[c] \in Nat
  BY ToolsAre DEF Pipes
<1> QED BY <1>1 DEF Pipes

(* The same variables with another client. *)
LEMMA ClientChanges ==
    ASSUME NEW s \in Pipes, NEW d \in Clients
    PROVE  LET t == [s EXCEPT !.client = d] IN
           /\ t \in Pipes /\ t.client = d
           /\ t.started = s.started /\ t.next = s.next /\ t.text = s.text /\ t.tools = s.tools
           /\ t.buffer = s.buffer /\ t.mode = s.mode /\ t.hidden = s.hidden
           /\ t.started <=> s.started
BY DEF Pipes

LEMMA StartedStays ==
    ASSUME NEW s \in Pipes, NEW d \in Clients
    PROVE  [s EXCEPT !.client = d].started <=> s.started
BY DEF Pipes

(* More of the open text block. *)
LEMMA MoreKeeps ==
    ASSUME NEW s, Sim(s), s.text.kind # "none", NEW pieces \in Seq(Pieces)
    PROVE  LET t == Yield(s, Delta(s.text.index, s.text.kind, pieces)) IN
           /\ IF Secret(s) THEN Still(s, t) ELSE Grows(s, t, s.text.index, pieces)
           /\ Sim(t) /\ t.text = s.text /\ t.started = s.started /\ t.tools = s.tools
           /\ t.next = s.next /\ t.buffer = s.buffer /\ t.mode = s.mode
<1> DEFINE e == Delta(s.text.index, s.text.kind, pieces)
           t == Yield(s, e)
<1>0. e.type = "delta" /\ e.index = s.text.index
  BY DEF Delta
<1>1. CASE Secret(s)
  <2>1. Hides(s, e)
    BY <1>0, <1>1 DEF Hides, Sim, Secret
  <2>2. t = [s EXCEPT !.hidden = s.hidden]
    BY <1>0, <2>1 DEF Yield
  <2>3. t = s
    BY <2>2 DEF Sim, Pipes
  <2>4. Still(s, s)
    BY DEF Still, KindsStay, Body
  <2> QED BY <1>1, <2>3, <2>4
<1>2. CASE ~Secret(s)
  <2>1. ~Hides(s, e)
    BY <1>0, <1>2 DEF Hides, Sim, Secret
  <2> DEFINE d == Receive(s.client, e)
  <2>2. t = [s EXCEPT !.client = d]
    BY <2>1 DEF Yield
  <2>3. /\ d \in Clients /\ ~d.broken /\ d.stage = "open"
        /\ DOMAIN d.blocks = DOMAIN s.client.blocks
        /\ \A j \in DOMAIN s.client.blocks :
              d.blocks[j].kind = s.client.blocks[j].kind /\ d.blocks[j].open = s.client.blocks[j].open
        /\ \A j \in DOMAIN s.client.blocks :
              d.blocks[j].pieces = IF j = s.text.index THEN s.client.blocks[j].pieces \o pieces
                                   ELSE s.client.blocks[j].pieces
    BY <1>2, TextSeen, GetsMore
  <2> HIDE DEF d
  <2>4. s \in Pipes
    BY DEF Sim
  <2>5. /\ t \in Pipes /\ t.client = d
        /\ t.started = s.started /\ t.next = s.next /\ t.text = s.text /\ t.tools = s.tools
        /\ t.buffer = s.buffer /\ t.mode = s.mode /\ t.hidden = s.hidden
    BY <2>2, <2>3, <2>4, ClientChanges
  <2> HIDE DEF t
  <2>6. Shown(t) = Shown(s) /\ (Secret(t) <=> Secret(s)) /\ s.started
    BY <2>5 DEF Shown, Secret, Sim, TextOK
  <2>7. Follows(t)
    BY <2>3, <2>5, <2>6 DEF Sim, Follows, Shown
  <2>8. TextOK(t) /\ t.hidden = IF Secret(t) THEN {t.text.index} ELSE {}
    BY <2>5, <2>6 DEF Sim, TextOK
  <2>last. Newest(t)
    BY <2>3, <2>5 DEF Sim, Newest, TextBlocks
  <2>9. Sim(t)
    BY <2>last, <2>5, <2>7, <2>8 DEF Sim
  <2>10. Grows(s, t, s.text.index, pieces)
    BY <2>3, <2>5 DEF Grows, KindsStay, Body
  <2> QED BY <1>2, <2>5, <2>9, <2>10 DEF t
<1> QED BY <1>1, <1>2

(* The open block, if there is one, is closed: for the client only if it saw it. *)
LEMMA CloseKeeps ==
    ASSUME NEW s, Sim(s)
    PROVE  LET t == CloseTextBlock(s) IN
           /\ Still(s, t)
           /\ Sim(t) /\ t.text = NoBlock /\ t.started = s.started /\ t.tools = s.tools
           /\ t.next = s.next /\ t.buffer = s.buffer /\ t.mode = s.mode
<1> DEFINE e == Stop(s.text.index)
           u == [s EXCEPT !.text = NoBlock]
           t == CloseTextBlock(s)
<1>0. e.type = "stop" /\ e.index = s.text.index /\ s \in Pipes
  BY DEF Stop, Sim
<1>1. CASE s.text = NoBlock
  BY <1>1 DEF CloseTextBlock, Still, KindsStay, Body
<1>2. CASE s.text # NoBlock
  <2>1. s.text.kind # "none" /\ s.started
    BY <1>2 DEF Sim, TextOK
  <2>2. /\ u \in Pipes /\ u.text = NoBlock /\ u.started = s.started /\ u.next = s.next
        /\ u.tools = s.tools /\ u.buffer = s.buffer /\ u.mode = s.mode
        /\ u.hidden = s.hidden /\ u.client = s.client
    BY <1>0 DEF Pipes, NoBlock
  <2> HIDE DEF u
  <2>3. t = Yield(u, e)
    BY <1>2 DEF CloseTextBlock, u
  <2>4. NoBlock.kind = "none"
    BY DEF NoBlock
  <2>5. CASE Secret(s)
    <3>1. Hides(u, e)
      BY <1>0, <2>2, <2>5 DEF Hides, Sim, Secret
    <3>2. t = [u EXCEPT !.hidden = u.hidden \ {s.text.index}]
      BY <1>0, <2>3, <3>1 DEF Yield
    <3>3. /\ t \in Pipes /\ t.hidden = {} /\ t.text = u.text /\ t.started = u.started /\ t.next = u.next
          /\ t.tools = u.tools /\ t.buffer = u.buffer /\ t.mode = u.mode /\ t.client = u.client
      BY <2>2, <2>5, <3>2 DEF Sim, Pipes
    <3> HIDE DEF t
    <3>4. ~Secret(t) /\ Shown(t) = Shown(s)
      BY <2>2, <2>4, <2>5, <3>3 DEF Secret, Shown
    <3>5. Follows(t)
      BY <2>2, <2>4, <3>3, <3>4 DEF Sim, Follows
    <3>last. Newest(t)
      BY <2>2, <2>4, <3>3 DEF Newest
    <3>6. Sim(t)
      BY <3>last, <2>2, <2>4, <3>3, <3>4, <3>5 DEF Sim, TextOK
    <3>7. Still(s, t)
      BY <2>2, <3>3 DEF Still, KindsStay, Body
    <3> QED BY <2>2, <3>3, <3>6, <3>7 DEF t
  <2>6. CASE ~Secret(s)
    <3>1. ~Hides(u, e)
      BY <1>0, <2>2, <2>6 DEF Hides, Sim
    <3> DEFINE d == Receive(s.client, e)
    <3>2. t = [u EXCEPT !.client = d]
      BY <2>2, <2>3, <3>1 DEF Yield
    <3>3. /\ d \in Clients /\ ~d.broken /\ d.stage = "open"
          /\ DOMAIN d.blocks = DOMAIN s.client.blocks /\ ~d.blocks[s.text.index].open
          /\ \A j \in DOMAIN s.client.blocks :
                /\ d.blocks[j].kind = s.client.blocks[j].kind
                /\ j # s.text.index => d.blocks[j].open = s.client.blocks[j].open
          /\ \A j \in DOMAIN s.client.blocks : d.blocks[j].pieces = s.client.blocks[j].pieces
      BY <2>1, <2>6, TextSeen, GetsStop
    <3> HIDE DEF d
    <3>4. /\ t \in Pipes /\ t.client = d
          /\ t.started = s.started /\ t.next = s.next /\ t.text = NoBlock /\ t.tools = s.tools
          /\ t.buffer = s.buffer /\ t.mode = s.mode /\ t.hidden = s.hidden
      BY <2>2, <3>2, <3>3, ClientChanges
    <3> HIDE DEF t
    <3>5. ~Secret(t) /\ Shown(t) = Shown(s) \ {s.text.index}
      BY <2>1, <2>4, <2>6, <3>4 DEF Secret, Shown, Sim, TextOK
    <3>6. \A j \in DOMAIN d.blocks : d.blocks[j].open <=> j \in Shown(t)
      BY <3>3, <3>5 DEF Sim, Follows
    <3>7. Follows(t)
      BY <2>1, <2>4, <3>3, <3>4, <3>5, <3>6 DEF Sim, Follows, Shown
    <3>last. Newest(t)
      BY <2>4, <3>4 DEF Sim, Newest, TextBlocks
    <3>8. Sim(t)
      BY <3>last, <2>4, <2>6, <3>4, <3>5, <3>7 DEF Sim, TextOK
    <3>9. Still(s, t)
      BY <3>3, <3>4 DEF Still, KindsStay, Body
    <3> QED BY <3>4, <3>8, <3>9 DEF t
  <2> QED BY <2>5, <2>6
<1> QED BY <1>1, <1>2

(* The start of the message, once. *)
LEMMA StartKeeps ==
    ASSUME NEW s, Sim(s)
    PROVE  LET t == EnsureStart(s) IN
           /\ Still(s, t)
           /\ Sim(t) /\ t.started /\ t.text = s.text /\ t.tools = s.tools
           /\ t.next = s.next /\ t.buffer = s.buffer /\ t.mode = s.mode
<1> DEFINE u == [s EXCEPT !.started = TRUE]
           d == [s.client EXCEPT !.stage = "open"]
           t == EnsureStart(s)
<1>0. s \in Pipes /\ s.client \in Clients
  BY DEF Sim, Pipes
<1>1. CASE s.started
  BY <1>1 DEF EnsureStart, Still, KindsStay, Body
<1>2. CASE ~s.started
  <2>1. s.client.stage = "before" /\ ~s.client.broken
    BY <1>2 DEF Sim, Follows
  <2>2. d \in Clients /\ ~d.broken /\ d.stage = "open" /\ d.blocks = s.client.blocks
    BY <1>0, <2>1 DEF Clients
  <2>3. Receive(s.client, MessageStart) = d
    BY <2>1 DEF Receive, Sensible, MessageStart
  <2> HIDE DEF d
  <2>4. /\ u \in Pipes /\ u.started /\ u.text = s.text /\ u.next = s.next
        /\ u.tools = s.tools /\ u.buffer = s.buffer /\ u.mode = s.mode
        /\ u.hidden = s.hidden /\ u.client = s.client
    BY <1>0 DEF Pipes
  <2> HIDE DEF u
  <2>5. ~Hides(u, MessageStart)
    BY DEF Hides, MessageStart
  <2>6. t = [u EXCEPT !.client = d]
    BY <1>2, <2>3, <2>4, <2>5 DEF EnsureStart, Yield, u
  <2>7. /\ t \in Pipes /\ t.client = d
        /\ t.started /\ t.next = s.next /\ t.text = s.text /\ t.tools = s.tools
        /\ t.buffer = s.buffer /\ t.mode = s.mode /\ t.hidden = s.hidden
    BY <2>2, <2>4, <2>6, ClientChanges
  <2> HIDE DEF t
  <2>8. Shown(t) = Shown(s) /\ (Secret(t) <=> Secret(s))
    BY <2>7 DEF Shown, Secret
  <2>last. Newest(t)
    BY <2>2, <2>3, <2>4, <2>7 DEF Sim, Newest, TextBlocks
  <2>9. Sim(t)
    BY <2>last, <2>2, <2>7, <2>8 DEF Sim, TextOK, Follows
  <2>10. Still(s, t)
    BY <2>2, <2>3, <2>4, <2>7 DEF Still, KindsStay, Body
  <2> QED BY <2>7, <2>9, <2>10 DEF t
<1> QED BY <1>1, <1>2

(* A new block of text or thinking, where none is open. *)
LEMMA OpenKeeps ==
    ASSUME NEW s, Sim(s), s.started, s.text = NoBlock, NEW kind \in {"text", "thinking"}
    PROVE  LET t == OpenBlock(s, kind) IN
           /\ Still(s, t)
           /\ Sim(t) /\ t.started /\ t.text.kind = kind /\ t.tools = s.tools
           /\ t.next = s.next + 1 /\ t.buffer = s.buffer /\ t.mode = s.mode
<1> DEFINE b == [index |-> s.next, kind |-> kind]
           u == [s EXCEPT !.text = b, !.next = @ + 1]
           e == Start(s.next, kind)
           t == OpenBlock(s, kind)
<1>0. s \in Pipes /\ s.client \in Clients /\ s.next \in Nat
  BY DEF Sim, Pipes
<1>8. b \in [index : Nat, kind : {"none", "text", "thinking"}] /\ s.next + 1 \in Nat
  BY <1>0
<1>9. b.index = s.next /\ b.kind = kind
  OBVIOUS
<1> HIDE DEF b
<1>1. /\ u \in Pipes /\ u.started /\ u.text = b /\ u.next = s.next + 1
      /\ u.tools = s.tools /\ u.buffer = s.buffer /\ u.mode = s.mode
      /\ u.hidden = s.hidden /\ u.client = s.client
  BY <1>0, <1>8 DEF Pipes
<1>2. t = Yield(u, e)
  BY DEF OpenBlock, b
<1> HIDE DEF u
<1>3. e.type = "start" /\ e.index = s.next /\ e.kind = kind
  BY DEF Start
<1>4. /\ ~s.client.broken /\ s.client.stage = "open" /\ s.next \notin DOMAIN s.client.blocks
      /\ s.hidden = {} /\ ~Secret(s) /\ s.text.kind = "none"
  BY <1>0 DEF Sim, Follows, NoBlock, Secret
<1>5. \A c \in DOMAIN s.tools : s.tools[c] < s.next /\ s.tools[c] \in Nat
  <2>1. \A c \in DOMAIN s.tools : s.tools[c] \in DOMAIN s.client.blocks
    BY DEF Sim, Follows, Shown
  <2> QED BY <1>0, <2>1, PipeShape DEF Sim, Follows
<1>6. CASE ~keep /\ kind = "thinking"
  <2>1. Hides(u, e)
    BY <1>3, <1>6 DEF Hides
  <2>2. t = [u EXCEPT !.hidden = u.hidden \cup {s.next}]
    BY <1>2, <1>3, <2>1 DEF Yield
  <2>3. /\ t \in Pipes /\ t.hidden = {s.next} /\ t.text = b /\ t.started /\ t.next = s.next + 1
        /\ t.tools = s.tools /\ t.buffer = s.buffer /\ t.mode = s.mode /\ t.client = s.client
    BY <1>0, <1>1, <1>4, <2>2 DEF Pipes
  <2> HIDE DEF t
  <2>4. Secret(t) /\ Shown(t) = Shown(s)
    BY <1>4, <1>6, <1>9, <2>3 DEF Secret, Shown
  <2>5. Follows(t)
    <3>1. \A i \in DOMAIN t.client.blocks : i < t.next
      <4>1. DOMAIN s.client.blocks \subseteq Nat
        BY <1>0, BlocksAre DEF Clients
      <4> QED BY <1>0, <2>3, <4>1 DEF Sim, Follows
    <3> QED BY <1>9, <2>3, <2>4, <3>1 DEF Sim, Follows
  <2>6. TextOK(t)
    BY <1>0, <1>5, <1>9, <2>3 DEF TextOK
  <2>last. Newest(t)
    BY <1>6, <1>9, <2>3 DEF Newest
  <2>7. Sim(t)
    BY <2>last, <1>9, <2>3, <2>4, <2>5, <2>6 DEF Sim
  <2>8. Still(s, t)
    BY <2>3 DEF Still, KindsStay, Body
  <2> QED BY <1>9, <2>3, <2>7, <2>8 DEF t
<1>7. CASE keep \/ kind # "thinking"
  <2>1. ~Hides(u, e)
    BY <1>3, <1>7 DEF Hides
  <2> DEFINE d == Receive(s.client, e)
  <2>2. t = [u EXCEPT !.client = d]
    BY <1>1, <1>2, <2>1 DEF Yield
  <2>3. /\ d \in Clients /\ ~d.broken /\ d.stage = "open"
        /\ DOMAIN d.blocks = DOMAIN s.client.blocks \cup {s.next}
        /\ d.blocks[s.next].kind = kind /\ d.blocks[s.next].open
        /\ d.blocks[s.next].pieces = <<>>
        /\ \A j \in DOMAIN s.client.blocks : d.blocks[j] = s.client.blocks[j]
    BY <1>0, <1>4, GetsStart
  <2> HIDE DEF d
  <2>4. /\ t \in Pipes /\ t.client = d
        /\ t.started /\ t.next = s.next + 1 /\ t.text = b /\ t.tools = s.tools
        /\ t.buffer = s.buffer /\ t.mode = s.mode /\ t.hidden = s.hidden
    <3>1. t \in Pipes
      BY <1>1, <2>2, <2>3, ClientChanges
    <3>2. t.client = d
      BY <1>1, <2>2, <2>3, ClientChanges
    <3>3. t.started <=> u.started
      BY <1>1, <2>2, <2>3, ClientChanges
    <3>4. t.next = u.next
      BY <1>1, <2>2, <2>3, ClientChanges
    <3>5. t.text = u.text
      BY <1>1, <2>2, <2>3, ClientChanges
    <3>6. t.tools = u.tools /\ t.buffer = u.buffer
      BY <1>1, <2>2, <2>3, ClientChanges
    <3>7. t.mode = u.mode /\ t.hidden = u.hidden
      BY <1>1, <2>2, <2>3, ClientChanges
    <3> HIDE DEF t
    <3> QED BY <1>1, <3>1, <3>2, <3>3, <3>4, <3>5, <3>6, <3>7
  <2> HIDE DEF t
  <2>5. ~Secret(t) /\ Shown(t) = Shown(s) \cup {s.next}
    BY <1>4, <1>7, <1>9, <2>4 DEF Secret, Shown
  <2>6. Follows(t)
    <3>1. \A i \in DOMAIN t.client.blocks : i < t.next
      <4>1. DOMAIN s.client.blocks \subseteq Nat
        BY <1>0, BlocksAre DEF Clients
      <4> QED BY <1>0, <2>3, <2>4, <4>1 DEF Sim, Follows
    <3>2. \A c \in DOMAIN s.tools : s.tools[c] \in DOMAIN s.client.blocks
      BY DEF Sim, Follows, Shown
    <3>3. \A i \in DOMAIN d.blocks : d.blocks[i].open <=> i \in Shown(t)
      BY <1>4, <2>3, <2>5 DEF Sim, Follows
    <3>4. Shown(t) \subseteq DOMAIN d.blocks
      BY <2>3, <2>5 DEF Sim, Follows
    <3>5. \A c \in DOMAIN t.tools : d.blocks[t.tools[c]].kind = "tool_use"
      BY <2>3, <2>4, <3>2 DEF Sim, Follows
    <3> QED BY <2>3, <2>4, <2>5, <3>1, <3>3, <3>4, <3>5, <1>9 DEF Follows
  <2>7. TextOK(t)
    BY <1>0, <1>5, <1>9, <2>4 DEF TextOK
  <2>last. Newest(t)
    <3>1. DOMAIN s.client.blocks \subseteq Nat /\ \A i \in DOMAIN s.client.blocks : i < s.next
      BY <1>0, BlocksAre DEF Clients, Sim, Follows
    <3>2. \A i \in DOMAIN d.blocks : i <= s.next
      BY <1>0, <2>3, <3>1
    <3> QED BY <1>9, <2>4, <3>2 DEF Newest, TextBlocks
  <2>8. Sim(t)
    BY <2>last, <1>4, <2>4, <2>5, <2>6, <2>7 DEF Sim
  <2>9. Still(s, t)
    BY <1>4, <2>3, <2>4 DEF Still, KindsStay, Body
  <2> QED BY <1>9, <2>4, <2>8, <2>9 DEF t
<1> QED BY <1>6, <1>7

(* A piece of text or of thinking, in the open block or in a new one.       *)
LEMMA SayKeeps ==
    ASSUME NEW s, Sim(s), s.started, NEW kind \in {"text", "thinking"}, NEW pieces \in Seq(Pieces)
    PROVE  LET t == Say(s, kind, pieces) IN
           /\ Sim(t) /\ t.started /\ t.text.kind = kind /\ t.tools = s.tools
           /\ t.buffer = s.buffer /\ t.mode = s.mode
           /\ IF Secret(t) THEN Still(s, t) ELSE Grows(s, t, t.text.index, pieces)
<1> DEFINE t == Ensure(s, kind)
<1>1. /\ Sim(t) /\ t.started /\ t.text.kind = kind /\ t.tools = s.tools
      /\ t.buffer = s.buffer /\ t.mode = s.mode /\ Still(s, t)
  <2>1. CASE s.text.kind = kind
    BY <2>1 DEF Ensure, Still, KindsStay, Body
  <2>2. CASE s.text.kind # kind
    <3> DEFINE c == CloseTextBlock(s)
    <3>1. /\ Sim(c) /\ c.text = NoBlock /\ c.started /\ c.tools = s.tools
          /\ c.buffer = s.buffer /\ c.mode = s.mode /\ Still(s, c)
      BY CloseKeeps
    <3>2. t = OpenBlock(c, kind)
      BY <2>2 DEF Ensure
    <3> HIDE DEF c, t
    <3>3. /\ Sim(t) /\ t.started /\ t.text.kind = kind /\ t.tools = c.tools
          /\ t.buffer = c.buffer /\ t.mode = c.mode /\ Still(c, t)
      BY <3>1, <3>2, OpenKeeps
    <3> QED BY <3>1, <3>3, StillStill
  <2> QED BY <2>1, <2>2
<1>2. Say(s, kind, pieces) = Yield(t, Delta(t.text.index, t.text.kind, pieces))
  BY <1>1 DEF Say
<1> HIDE DEF t
<1>3. t.text.kind # "none"
  BY <1>1
<1> DEFINE u == Say(s, kind, pieces)
<1>4. /\ Sim(u) /\ u.text = t.text /\ u.tools = t.tools
      /\ u.buffer = t.buffer /\ u.mode = t.mode
      /\ IF Secret(t) THEN Still(t, u) ELSE Grows(t, u, t.text.index, pieces)
  BY <1>1, <1>2, <1>3, MoreKeeps
<1> HIDE DEF u
<1>5. Secret(u) <=> Secret(t)
  BY <1>4 DEF Secret
<1>6. IF Secret(u) THEN Still(s, u) ELSE Grows(s, u, u.text.index, pieces)
  BY <1>1, <1>4, <1>5, StillStill, StillGrows
<1>7. u.started
  BY <1>3, <1>4 DEF Sim, TextOK
<1> QED BY <1>1, <1>4, <1>6, <1>7 DEF u

(* The block of a call, where no text block is open. *)
OpenCall(s, call) ==
    Yield([s EXCEPT !.tools = Put(@, call, s.next), !.next = @ + 1], Start(s.next, "tool_use"))

(* The blocks of the calls were all opened before the next one.             *)
LEMMA ToolsBelow ==
    ASSUME NEW s, Sim(s)
    PROVE  \A c \in DOMAIN s.tools : s.tools[c] < s.next /\ s.tools[c] \in Nat
<1>1. \A c \in DOMAIN s.tools : s.tools[c] \in DOMAIN s.client.blocks
  BY DEF Sim, Follows, Shown
<1>2. s \in Pipes
  BY DEF Sim
<1> QED BY <1>1, <1>2, PipeShape DEF Sim, Follows

LEMMA OpenCallKeeps ==
    ASSUME NEW s, Sim(s), s.started, s.text = NoBlock, NEW call \in Nat \ DOMAIN s.tools
    PROVE  LET t == OpenCall(s, call) IN
           /\ Sim(t) /\ t.started /\ t.text = NoBlock /\ call \in DOMAIN t.tools
           /\ t.buffer = s.buffer /\ t.mode = s.mode
           /\ Still(s, t) /\ t.tools = Put(s.tools, call, s.next)
<1> DEFINE f == Put(s.tools, call, s.next)
           u == [s EXCEPT !.tools = f, !.next = s.next + 1]
           e == Start(s.next, "tool_use")
           t == OpenCall(s, call)
<1>0. s \in Pipes /\ s.client \in Clients /\ s.next \in Nat /\ s.next + 1 \in Nat
  BY DEF Sim, Pipes
<1>1. /\ DOMAIN f = DOMAIN s.tools \cup {call} /\ f[call] = s.next
      /\ \A c \in DOMAIN s.tools : f[c] = s.tools[c]
  BY DEF Put
<1>2. f \in ToolMaps
  <2>1. DOMAIN s.tools \subseteq Nat /\ s.tools \in [DOMAIN s.tools -> Nat]
    BY <1>0, ToolsAre DEF Pipes
  <2>2. f \in [DOMAIN s.tools \cup {call} -> Nat]
    BY <1>0, <2>1 DEF Put
  <2> HIDE DEF f
  <2>3. DOMAIN f \subseteq Nat /\ f \in [DOMAIN f -> Nat]
    BY <1>1, <2>1, <2>2
  <2> QED BY <2>3, ToolsAre
<1> HIDE DEF f
<1>3. /\ u \in Pipes /\ u.started /\ u.text = NoBlock /\ u.next = s.next + 1
      /\ u.tools = f /\ u.buffer = s.buffer /\ u.mode = s.mode
      /\ u.hidden = s.hidden /\ u.client = s.client
  BY <1>0, <1>2 DEF Pipes
<1>4. t = Yield(u, e)
  BY DEF OpenCall, f
<1> HIDE DEF u
<1>5. e.type = "start" /\ e.index = s.next /\ e.kind = "tool_use"
  BY DEF Start
<1>6. /\ ~s.client.broken /\ s.client.stage = "open" /\ s.next \notin DOMAIN s.client.blocks
      /\ s.hidden = {} /\ ~Secret(s) /\ s.text.kind = "none"
  BY <1>0 DEF Sim, Follows, NoBlock, Secret
<1>7. ~Hides(u, e)
  BY <1>5 DEF Hides
<1> DEFINE d == Receive(s.client, e)
<1>8. t = [u EXCEPT !.client = d]
  BY <1>3, <1>4, <1>7 DEF Yield
<1>9. /\ d \in Clients /\ ~d.broken /\ d.stage = "open"
      /\ DOMAIN d.blocks = DOMAIN s.client.blocks \cup {s.next}
      /\ d.blocks[s.next].kind = "tool_use" /\ d.blocks[s.next].open
      /\ d.blocks[s.next].pieces = <<>>
      /\ \A j \in DOMAIN s.client.blocks : d.blocks[j] = s.client.blocks[j]
  BY <1>0, <1>6, GetsStart
<1> HIDE DEF d
<1>10. /\ t \in Pipes /\ t.client = d
       /\ t.started /\ t.next = s.next + 1 /\ t.text = NoBlock /\ t.tools = f
       /\ t.buffer = s.buffer /\ t.mode = s.mode /\ t.hidden = s.hidden
  BY <1>3, <1>8, <1>9, ClientChanges
<1> HIDE DEF t
<1>11. NoBlock.kind = "none"
  BY DEF NoBlock
<1>12. ~Secret(t) /\ Shown(t) = Shown(s) \cup {s.next}
  BY <1>1, <1>6, <1>10, <1>11 DEF Secret, Shown
<1>13. Follows(t)
  <2>1. \A i \in DOMAIN t.client.blocks : i < t.next
    <3>1. DOMAIN s.client.blocks \subseteq Nat
      BY <1>0, BlocksAre DEF Clients
    <3> QED BY <1>0, <1>9, <1>10, <3>1 DEF Sim, Follows
  <2>2. \A c \in DOMAIN s.tools : s.tools[c] \in DOMAIN s.client.blocks
    BY DEF Sim, Follows, Shown
  <2>3. \A i \in DOMAIN d.blocks : d.blocks[i].open <=> i \in Shown(t)
    BY <1>6, <1>9, <1>12 DEF Sim, Follows
  <2>4. Shown(t) \subseteq DOMAIN d.blocks
    BY <1>9, <1>12 DEF Sim, Follows
  <2>5. \A c \in DOMAIN f : d.blocks[f[c]].kind = "tool_use"
    BY <1>1, <1>9, <2>2 DEF Sim, Follows
  <2> QED BY <1>9, <1>10, <1>11, <1>12, <2>1, <2>3, <2>4, <2>5 DEF Follows
<1>last. Newest(t)
  BY <1>10, <1>11 DEF Sim, Newest, TextBlocks
<1>16. IsInjective(f)
  <2>1. \A c \in DOMAIN s.tools : s.tools[c] # s.next
    BY <1>0, ToolsBelow
  <2> QED BY <1>1, <2>1 DEF Sim, IsInjective
<1>14. Sim(t)
  BY <1>last, <1>16, <1>6, <1>10, <1>11, <1>12, <1>13 DEF Sim, TextOK
<1>15. Still(s, t)
  BY <1>6, <1>9, <1>10 DEF Still, KindsStay, Body
<1> QED BY <1>1, <1>10, <1>14, <1>15 DEF t, f

(* More of a call. *)
LEMMA FragmentKeeps ==
    ASSUME NEW s, Sim(s), s.started, NEW call \in DOMAIN s.tools, NEW pieces \in Seq(Pieces)
    PROVE  LET t == Yield(s, Delta(s.tools[call], "tool_use", pieces)) IN
           /\ Sim(t) /\ t.started /\ t.text = s.text /\ t.buffer = s.buffer /\ t.mode = s.mode
           /\ t.tools = s.tools /\ Grows(s, t, s.tools[call], pieces)
<1> DEFINE e == Delta(s.tools[call], "tool_use", pieces)
           t == Yield(s, e)
           d == Receive(s.client, e)
<1>1. e.type = "delta" /\ e.index = s.tools[call]
  BY DEF Delta
<1>2. ~Hides(s, e)
  BY <1>1 DEF Hides, Sim, TextOK, Secret
<1>3. t = [s EXCEPT !.client = d]
  BY <1>2 DEF Yield
<1>4. /\ s \in Pipes /\ s.client \in Clients /\ ~s.client.broken /\ s.client.stage = "open"
      /\ s.tools[call] \in DOMAIN s.client.blocks /\ s.client.blocks[s.tools[call]].open
      /\ s.client.blocks[s.tools[call]].kind = "tool_use"
  BY DEF Sim, Follows, Shown, Pipes
<1>5. /\ d \in Clients /\ ~d.broken /\ d.stage = "open"
      /\ DOMAIN d.blocks = DOMAIN s.client.blocks
      /\ \A j \in DOMAIN s.client.blocks :
            d.blocks[j].kind = s.client.blocks[j].kind /\ d.blocks[j].open = s.client.blocks[j].open
      /\ \A j \in DOMAIN s.client.blocks :
            d.blocks[j].pieces = IF j = s.tools[call] THEN s.client.blocks[j].pieces \o pieces
                                 ELSE s.client.blocks[j].pieces
  BY <1>4, GetsMore
<1> HIDE DEF d
<1> HIDE DEF e
<1>11. t.started
  BY <1>3, <1>4, <1>5, ClientChanges
<1>6. /\ t \in Pipes /\ t.client = d
      /\ t.started /\ t.next = s.next /\ t.text = s.text /\ t.tools = s.tools
      /\ t.buffer = s.buffer /\ t.mode = s.mode /\ t.hidden = s.hidden
  <2> HIDE DEF t
  <2>1. s \in Pipes /\ d \in Clients /\ t = [s EXCEPT !.client = d]
    BY <1>3, <1>4, <1>5
  <2> QED BY <1>11, <2>1, ClientChanges
<1> HIDE DEF t
<1>7. Shown(t) = Shown(s) /\ (Secret(t) <=> Secret(s))
  BY <1>6 DEF Shown, Secret
<1>8. Follows(t)
  BY <1>5, <1>6, <1>7 DEF Sim, Follows, Shown
<1>9. TextOK(t) /\ t.hidden = IF Secret(t) THEN {t.text.index} ELSE {}
  BY <1>6, <1>7 DEF Sim, TextOK
<1>last. Newest(t)
  BY <1>5, <1>6 DEF Sim, Newest, TextBlocks
<1>10. Sim(t)
  BY <1>last, <1>6, <1>8, <1>9 DEF Sim
<1>12. Grows(s, t, s.tools[call], pieces)
  BY <1>5, <1>6 DEF Grows, KindsStay, Body
<1> QED BY <1>6, <1>10, <1>12 DEF t, e

(* A fragment of a call: its block is opened if this is the first.          *)
LEMMA CallKeeps ==
    ASSUME NEW s, Sim(s), NEW call \in Nat, NEW n \in Nat
    PROVE  LET t == Call(s, call, n) IN
           /\ Sim(t) /\ t.started /\ t.buffer = s.buffer /\ t.mode = s.mode
           /\ t.text = s.text \/ t.text = NoBlock
<1> DEFINE pieces == <<[n |-> n, mark |-> "plain"]>>
           b == EnsureStart(s)
           c == CloseTextBlock(b)
           o == IF call \in DOMAIN b.tools THEN b ELSE OpenCall(c, call)
<1>1. pieces \in Seq(Pieces)
  BY DEF Pieces
<1>2. Sim(b) /\ b.started /\ b.buffer = s.buffer /\ b.mode = s.mode /\ b.text = s.text
  BY StartKeeps
<1>3. Call(s, call, n) = Yield(o, Delta(o.tools[call], "tool_use", pieces))
  BY DEF Call, OpenCall
<1> HIDE DEF b, pieces
<1>4. Sim(c) /\ c.started /\ c.text = NoBlock /\ c.tools = b.tools /\ c.buffer = b.buffer /\ c.mode = b.mode
  BY <1>2, CloseKeeps
<1> HIDE DEF c
<1>5. /\ Sim(o) /\ o.started /\ call \in DOMAIN o.tools /\ o.buffer = s.buffer /\ o.mode = s.mode
      /\ o.text = s.text \/ o.text = NoBlock
  BY <1>2, <1>4, OpenCallKeeps
<1> HIDE DEF o
<1> QED BY <1>1, <1>3, <1>5, FragmentKeeps

----------------------------------------------------------------------------
(* Recursion over a list *)

(* Step by step from one set into the next. *)
Walk(f, n, S, X, b, F) ==
    /\ f \in [0 .. n -> S] /\ f[0] = b
    /\ \A i \in 1 .. n : f[i] = F[i][f[i - 1]]
    /\ \A i \in 0 .. n : f[i] \in X[i]

Paved(n, S, X, b, F) ==
    /\ n \in Nat /\ b \in X[0]
    /\ \A i \in 0 .. n : X[i] \subseteq S
    /\ \A i \in 1 .. n : F[i] \in [X[i - 1] -> X[i]]

LEMMA StepsExist ==
    ASSUME NEW n, NEW S, NEW X, NEW b, NEW F, Paved(n, S, X, b, F)
    PROVE  \E f : Walk(f, n, S, X, b, F)
<1> DEFINE Good(f, m) == Walk(f, m, S, X, b, F)
           Missing == {m \in 0 .. n : ~ \E f : Good(f, m)}
<1> USE DEF Walk, Paved
<1>1. SUFFICES ASSUME Missing # {} PROVE FALSE
  <2> HIDE DEF Good
  <2>1. n \notin Missing => \E f : Good(f, n)
    OBVIOUS
  <2> QED BY <2>1 DEF Good
<1>2. PICK m \in Missing : \A j \in Missing : m <= j
  <2>1. Missing \in SUBSET Nat
    OBVIOUS
  <2> HIDE DEF Missing
  <2> QED BY <1>1, <2>1, LeastOfNat
<1>3. CASE m = 0
  <2> DEFINE f == [i \in 0 .. 0 |-> b]
  <2>1. f[0] = b /\ f \in [0 .. 0 -> S] /\ \A i \in 0 .. 0 : f[i] \in X[i]
    OBVIOUS
  <2>2. \A i \in 1 .. 0 : FALSE
    OBVIOUS
  <2> HIDE DEF f
  <2>3. Good(f, 0)
    BY <2>1, <2>2
  <2> HIDE DEF Good
  <2> QED BY <1>2, <1>3, <2>3
<1>4. CASE m # 0
  <2>1. m \in Nat /\ m - 1 \in 0 .. n /\ m - 1 \notin Missing /\ m \in 1 .. n
    <3> HIDE DEF Good
    <3> QED BY <1>2, <1>4
  <2>2. PICK f : Good(f, m - 1)
    <3> HIDE DEF Good
    <3> QED BY <2>1
  <2> DEFINE v == F[m][f[m - 1]]
             g == [i \in 0 .. m |-> IF i = m THEN v ELSE f[i]]
  <2>3. v \in X[m]
    <3>1. m - 1 \in 0 .. m - 1 /\ f[m - 1] \in X[m - 1]
      BY <2>1, <2>2
    <3>2. F[m] \in [X[m - 1] -> X[m]]
      BY <2>1
    <3> QED BY <3>1, <3>2
  <2> HIDE DEF v
  <2>4. g[m] = v /\ \A i \in 0 .. m - 1 : g[i] = f[i]
    BY <2>1
  <2>5. \A i \in 0 .. m : i = m \/ i \in 0 .. m - 1
    BY <2>1
  <2>6. \A i \in 0 .. m : g[i] \in X[i]
    BY <2>2, <2>3, <2>4, <2>5
  <2>7. g \in [0 .. m -> S]
    <3>1. \A i \in 0 .. m : g[i] \in S
      BY <2>1, <2>6
    <3> QED BY <3>1
  <2> HIDE DEF g
  <2>8. g[0] = b
    BY <2>1, <2>2, <2>4
  <2>9. \A i \in 1 .. m : g[i] = F[i][g[i - 1]]
    <3> SUFFICES ASSUME NEW i \in 1 .. m PROVE g[i] = F[i][g[i - 1]]
      OBVIOUS
    <3>1. i - 1 \in 0 .. m - 1 /\ g[i - 1] = f[i - 1]
      BY <2>1, <2>4
    <3>2. CASE i = m
      BY <2>4, <3>1, <3>2 DEF v
    <3>3. CASE i # m
      <4>1. i \in 1 .. m - 1 /\ i \in 0 .. m - 1
        BY <2>1, <3>3
      <4> QED BY <2>2, <2>4, <3>1, <4>1
    <3> QED BY <3>2, <3>3
  <2>10. Good(g, m)
    BY <2>6, <2>7, <2>8, <2>9
  <2> HIDE DEF Good
  <2> QED BY <1>2, <2>10
<1> QED BY <1>3, <1>4

(* And whatever is built so stays in the sets.                              *)
LEMMA StepsStay ==
    ASSUME NEW n \in Nat, NEW X, NEW g, g[0] \in X[0],
           \A i \in 1 .. n : g[i - 1] \in X[i - 1] => g[i] \in X[i]
    PROVE  \A i \in 0 .. n : g[i] \in X[i]
<1> DEFINE Off == {i \in 0 .. n : g[i] \notin X[i]}
<1>1. SUFFICES ASSUME Off # {} PROVE FALSE
  OBVIOUS
<1>2. PICK m \in Off : \A j \in Off : m <= j
  <2>1. Off \in SUBSET Nat
    OBVIOUS
  <2> HIDE DEF Off
  <2> QED BY <1>1, <2>1, LeastOfNat
<1>3. m # 0
  BY <1>2
<1>4. m \in 1 .. n /\ m - 1 \in 0 .. n /\ m - 1 \notin Off
  BY <1>2, <1>3
<1> QED BY <1>2, <1>4

(* All fragments of a chunk, one after the other. *)
CallWalk(g, s, fragments, n) ==
    /\ g[0] = s /\ g[Len(fragments)] = CallsOf(s, fragments, n)
    /\ \A i \in 1 .. Len(fragments) : g[i] = Call(g[i - 1], fragments[i], n)
    /\ \A i \in 0 .. Len(fragments) : Sim(g[i]) /\ Held(g[i])

LEMMA CallsWalk ==
    ASSUME NEW s, Sim(s), Held(s), NEW fragments \in Seq(Nat), NEW n \in Nat
    PROVE  \E g : CallWalk(g, s, fragments, n)
<1> DEFINE Same == {u \in Pipes : Sim(u) /\ Held(u)}
           len == Len(fragments)
           X == [i \in 0 .. len |-> Same]
           F == [i \in 1 .. len |-> [u \in Same |-> Call(u, fragments[i], n)]]
           At(f, i) == IF i = 0 THEN s ELSE Call(f[i - 1], fragments[i], n)
           upto == CHOOSE f : f = [i \in 0 .. len |-> At(f, i)]
<1>1. len \in Nat /\ \A i \in 1 .. len : fragments[i] \in Nat
  OBVIOUS
<1>2. s \in Same
  BY DEF Sim
<1>3. \A u \in Same : \A i \in 1 .. len : Call(u, fragments[i], n) \in Same
  <2> SUFFICES ASSUME NEW u \in Same, NEW i \in 1 .. len PROVE Call(u, fragments[i], n) \in Same
    OBVIOUS
  <2>1. Sim(u) /\ Held(u) /\ fragments[i] \in Nat
    BY <1>1
  <2> DEFINE t == Call(u, fragments[i], n)
  <2>2. Sim(t) /\ t.buffer = u.buffer /\ t.mode = u.mode /\ (t.text = u.text \/ t.text = NoBlock)
    BY <2>1, CallKeeps
  <2> HIDE DEF t
  <2>3. t \in Pipes /\ Held(t)
    BY <2>1, <2>2 DEF Sim, Held, NoBlock
  <2>4. t \in Same
    BY <2>2, <2>3
  <2> QED BY <2>4 DEF t
<1> HIDE DEF Same, len
<1>4. \E f : f = [i \in 0 .. len |-> At(f, i)]
  <2>1. X[0] = Same /\ \A i \in 1 .. len : X[i - 1] = Same /\ X[i] = Same
    BY <1>1
  <2>2. \A i \in 1 .. len : F[i] \in [Same -> Same]
    BY <1>3
  <2>3. \A i \in 1 .. len : F[i] \in [X[i - 1] -> X[i]]
    BY <2>1, <2>2
  <2>4. s \in X[0]
    BY <1>2, <2>1
  <2> HIDE DEF X, F
  <2>5. PICK f : /\ f \in [0 .. len -> Same]
                 /\ f[0] = s
                 /\ \A i \in 1 .. len : f[i] = F[i][f[i - 1]]
                 /\ \A i \in 0 .. len : f[i] \in X[i]
    <3>1. len \in Nat
      BY <1>1
    <3>2. \A i \in 0 .. len : X[i] \subseteq Same
      BY DEF X
    <3>3. Paved(len, Same, X, s, F)
      BY <3>1, <3>2, <2>3, <2>4 DEF Paved
    <3>4. PICK f : Walk(f, len, Same, X, s, F)
      BY <3>3, StepsExist
    <3> QED BY <3>4 DEF Walk
  <2>6. \A i \in 1 .. len : F[i][f[i - 1]] = Call(f[i - 1], fragments[i], n)
    <3> SUFFICES ASSUME NEW i \in 1 .. len PROVE F[i][f[i - 1]] = Call(f[i - 1], fragments[i], n)
      OBVIOUS
    <3>1. i - 1 \in 0 .. len
      BY <1>1
    <3>2. f[i - 1] \in Same
      BY <1>1, <2>1, <2>5, <3>1 DEF X
    <3> QED BY <3>2 DEF F
  <2>7. \A i \in 0 .. len : i = 0 \/ i \in 1 .. len
    BY <1>1
  <2>8. \A i \in 0 .. len : f[i] = At(f, i)
    BY <2>5, <2>6, <2>7
  <2>9. f = [i \in 0 .. len |-> f[i]]
    BY <2>5
  <2> QED BY <2>8, <2>9
<1>5. upto = [i \in 0 .. len |-> At(upto, i)]
  BY <1>4
<1>6. CallsOf(s, fragments, n) = upto[len]
  BY DEF CallsOf, len
<1> HIDE DEF upto
<1>7. \A i \in 0 .. len : upto[i] = At(upto, i)
  BY <1>5
<1>8. upto[0] \in X[0]
  BY <1>1, <1>2, <1>7
<1>9. \A i \in 1 .. len : upto[i - 1] \in X[i - 1] => upto[i] \in X[i]
  <2> SUFFICES ASSUME NEW i \in 1 .. len, upto[i - 1] \in X[i - 1] PROVE upto[i] \in X[i]
    OBVIOUS
  <2>1. i \in 0 .. len /\ i # 0 /\ i - 1 \in 0 .. len
    BY <1>1
  <2>2. upto[i - 1] \in Same /\ upto[i] = Call(upto[i - 1], fragments[i], n)
    BY <1>7, <2>1
  <2> QED BY <1>3, <2>1, <2>2
<1> HIDE DEF X
<1>10. \A i \in 0 .. len : upto[i] \in X[i]
  BY <1>1, <1>8, <1>9, StepsStay
<1>11. \A i \in 0 .. len : Sim(upto[i]) /\ Held(upto[i])
  BY <1>10 DEF X, Same
<1>12. upto[0] = s
  BY <1>1, <1>7
<1>13. \A i \in 1 .. len : upto[i] = Call(upto[i - 1], fragments[i], n)
  <2> SUFFICES ASSUME NEW i \in 1 .. len PROVE upto[i] = Call(upto[i - 1], fragments[i], n)
    OBVIOUS
  <2>1. i \in 0 .. len /\ i # 0
    BY <1>1
  <2> QED BY <1>7, <2>1
<1>14. CallWalk(upto, s, fragments, n)
  BY <1>6, <1>11, <1>12, <1>13 DEF CallWalk, len
<1> QED BY <1>14

LEMMA CallsKeep ==
    ASSUME NEW s, Sim(s), Held(s), NEW fragments \in Seq(Nat), NEW n \in Nat
    PROVE  LET t == CallsOf(s, fragments, n) IN Sim(t) /\ Held(t)
<1>1. PICK g : CallWalk(g, s, fragments, n)
  BY CallsWalk
<1>2. Len(fragments) \in 0 .. Len(fragments)
  OBVIOUS
<1> QED BY <1>1, <1>2 DEF CallWalk

----------------------------------------------------------------------------
(* The text *)

(* What is kept back, and whether, is nothing the client sees.              *)
LEMMA BufferChanges ==
    ASSUME NEW s, Sim(s), NEW b \in Seq(Pieces)
    PROVE  LET t == [s EXCEPT !.buffer = b] IN
           /\ Sim(t) /\ (t.started <=> s.started) /\ t.text = s.text /\ t.tools = s.tools
           /\ t.next = s.next /\ t.buffer = b /\ t.mode = s.mode /\ t.client = s.client
<1> DEFINE t == [s EXCEPT !.buffer = b]
<1>1. s \in Pipes
  BY DEF Sim
<1>2. /\ t \in Pipes /\ (t.started <=> s.started) /\ t.text = s.text /\ t.tools = s.tools
      /\ t.next = s.next /\ t.buffer = b /\ t.mode = s.mode
      /\ t.hidden = s.hidden /\ t.client = s.client
  BY <1>1 DEF Pipes
<1> HIDE DEF t
<1>3. Shown(t) = Shown(s) /\ (Secret(t) <=> Secret(s))
  BY <1>2 DEF Shown, Secret
<1>4. Follows(t)
  BY <1>2, <1>3 DEF Sim, Follows
<1>last. Newest(t)
  BY <1>2 DEF Sim, Newest, TextBlocks
<1>5. Sim(t)
  BY <1>last, <1>2, <1>3, <1>4 DEF Sim, TextOK
<1> QED BY <1>2, <1>5 DEF t

LEMMA ModeChanges ==
    ASSUME NEW s, Sim(s), NEW m \in {"waiting", "streaming", "abandoned"}
    PROVE  LET t == [s EXCEPT !.mode = m] IN
           /\ Sim(t) /\ (t.started <=> s.started) /\ t.text = s.text /\ t.tools = s.tools
           /\ t.next = s.next /\ t.buffer = s.buffer /\ t.mode = m /\ t.client = s.client
<1> DEFINE t == [s EXCEPT !.mode = m]
<1>1. s \in Pipes
  BY DEF Sim
<1>2. /\ t \in Pipes /\ (t.started <=> s.started) /\ t.text = s.text /\ t.tools = s.tools
      /\ t.next = s.next /\ t.buffer = s.buffer /\ t.mode = m
      /\ t.hidden = s.hidden /\ t.client = s.client
  BY <1>1 DEF Pipes
<1> HIDE DEF t
<1>3. Shown(t) = Shown(s) /\ (Secret(t) <=> Secret(s))
  BY <1>2 DEF Shown, Secret
<1>4. Follows(t)
  BY <1>2, <1>3 DEF Sim, Follows
<1>last. Newest(t)
  BY <1>2 DEF Sim, Newest, TextBlocks
<1>5. Sim(t)
  BY <1>last, <1>2, <1>3, <1>4 DEF Sim, TextOK
<1> QED BY <1>2, <1>5 DEF t

(* What was kept back is passed on, or more is kept back.                   *)
LEMMA FlushKeeps ==
    ASSUME NEW s, Sim(s), s.started
    PROVE  LET t == FlushAsPlainText(s) IN Sim(t) /\ t.started /\ t.buffer = <<>>
<1> DEFINE u == Say(s, "text", s.buffer)
<1>1. s.buffer \in Seq(Pieces) /\ <<>> \in Seq(Pieces)
  BY DEF Sim, Pipes
<1>2. Sim(u) /\ u.started
  BY <1>1, SayKeeps
<1>3. FlushAsPlainText(s) = [u EXCEPT !.buffer = <<>>]
  BY DEF FlushAsPlainText
<1> HIDE DEF u
<1> DEFINE t == FlushAsPlainText(s)
<1> HIDE DEF t
<1>4. t = [u EXCEPT !.buffer = <<>>]
  BY <1>3 DEF t
<1>5. Sim(t) /\ t.buffer = <<>>
  BY <1>1, <1>2, <1>4, BufferChanges
<1>6. t.started
  BY <1>1, <1>2, <1>4, BufferChanges
<1> QED BY <1>5, <1>6 DEF t

LEMMA BufferedKeeps ==
    ASSUME NEW s, Sim(s), Held(s), s.started, s.mode # "abandoned", NEW piece \in Pieces
    PROVE  LET t == Buffered(s, piece) IN Sim(t) /\ t.started /\ Held(t)
<1> DEFINE c == CloseTextBlock(s)
           t == IF s.mode = "streaming" THEN [c EXCEPT !.mode = "waiting"] ELSE s
           b == Append(t.buffer, piece)
<1>1. Buffered(s, piece) = [t EXCEPT !.buffer = b]
  BY DEF Buffered
<1>2. Sim(c) /\ c.started /\ c.text = NoBlock
  BY CloseKeeps
<1> HIDE DEF c
<1>3. Sim(t) /\ t.started /\ t.mode = "waiting" /\ t.text.kind # "text"
  <2> DEFINE m == [c EXCEPT !.mode = "waiting"]
  <2>1. Sim(m) /\ m.started /\ m.mode = "waiting" /\ m.text = c.text
    BY <1>2, ModeChanges
  <2>2. t = IF s.mode = "streaming" THEN m ELSE s
    OBVIOUS
  <2>3. s.mode = "streaming" \/ s.mode = "waiting"
    BY DEF Sim, Pipes
  <2> HIDE DEF m, t
  <2> QED BY <1>2, <2>1, <2>2, <2>3 DEF Held, NoBlock
<1> HIDE DEF t
<1>4. b \in Seq(Pieces)
  BY <1>3 DEF Sim, Pipes
<1> HIDE DEF b
<1> DEFINE t9 == Buffered(s, piece)
<1>5. Sim(t9) /\ t9.started /\ t9.mode = t.mode /\ t9.text = t.text
  BY <1>1, <1>3, <1>4, BufferChanges
<1> HIDE DEF t9
<1>6. Sim(t9) /\ t9.started /\ Held(t9)
  BY <1>3, <1>5 DEF Held
<1> QED BY <1>6 DEF t9

(* The text of a chunk, its reasoning, and the whole chunk.                 *)
LEMMA ContentKeeps ==
    ASSUME NEW s, Sim(s), Held(s), s.started, NEW piece \in Pieces
    PROVE  LET t == Content(s, piece) IN Sim(t) /\ Held(t)
<1> DEFINE c == CloseTextBlock(s)
           t == IF s.text.kind = "text" THEN s ELSE c
           b == Buffered(t, piece)
           f == FlushAsPlainText(b)
           g == Say(t, "text", <<piece>>)
           m1 == [f EXCEPT !.mode = "abandoned"]
           m2 == [f EXCEPT !.mode = "streaming"]
           t9 == Content(s, piece)
<1>1. \/ (t.mode = "abandoned" \/ t.mode = "streaming") /\ t9 = g
      \/ t.mode # "abandoned" /\ (t9 = m1 \/ t9 = m2 \/ t9 = b)
  BY DEF Content
<1>2. Sim(c) /\ c.started /\ c.mode = s.mode /\ c.buffer = s.buffer /\ c.text = NoBlock
  BY CloseKeeps
<1> HIDE DEF c
<1>3. Sim(t) /\ t.started /\ Held(t)
  BY <1>2 DEF Held, NoBlock
<1> HIDE DEF t, t9
<1>4. CASE (t.mode = "abandoned" \/ t.mode = "streaming") /\ t9 = g
  <2>1. <<piece>> \in Seq(Pieces)
    OBVIOUS
  <2>2. Sim(g) /\ g.mode = t.mode /\ g.buffer = t.buffer
    BY <1>3, <2>1, SayKeeps
  <2> HIDE DEF g
  <2>3. Sim(t9) /\ Held(t9)
    BY <1>3, <1>4, <2>2 DEF Held
  <2> QED BY <2>3 DEF t9
<1>5. CASE t.mode # "abandoned" /\ (t9 = m1 \/ t9 = m2 \/ t9 = b)
  <2>1. Sim(b) /\ b.started /\ Held(b)
    BY <1>3, <1>5, BufferedKeeps
  <2> HIDE DEF b
  <2>2. Sim(f) /\ f.started /\ f.buffer = <<>>
    BY <2>1, FlushKeeps
  <2> HIDE DEF f
  <2>3. Sim(m1) /\ m1.buffer = <<>> /\ m1.mode = "abandoned"
    BY <2>2, ModeChanges
  <2>4. Sim(m2) /\ m2.buffer = <<>> /\ m2.mode = "streaming"
    BY <2>2, ModeChanges
  <2> HIDE DEF m1, m2
  <2>5. Sim(t9) /\ Held(t9)
    BY <1>5, <2>1, <2>3, <2>4 DEF Held
  <2> QED BY <2>5 DEF t9
<1> QED BY <1>1, <1>4, <1>5

LEMMA ReasonedKeeps ==
    ASSUME NEW s, Sim(s), Held(s), NEW chunk, NEW n \in Nat
    PROVE  Sim(Reasoned(s, chunk, n)) /\ Held(Reasoned(s, chunk, n))
<1> DEFINE b == EnsureStart(s)
           p == <<[n |-> n, mark |-> "plain"]>>
           t == Say(b, "thinking", p)
<1>1. Sim(b) /\ b.started /\ b.mode = s.mode /\ b.buffer = s.buffer
  BY StartKeeps
<1>2. p \in Seq(Pieces)
  BY DEF Pieces
<1>3. Reasoned(s, chunk, n) = IF chunk.reasoning THEN t ELSE s
  BY DEF Reasoned
<1> HIDE DEF b, p
<1>4. Sim(t) /\ t.mode = b.mode /\ t.buffer = b.buffer /\ t.text.kind = "thinking"
  BY <1>1, <1>2, SayKeeps
<1> HIDE DEF t
<1> QED BY <1>1, <1>3, <1>4 DEF Held

LEMMA ConvertKeeps ==
    ASSUME NEW s, Sim(s), Held(s), NEW chunk \in Chunks, NEW n \in Nat
    PROVE  Sim(Convert(s, chunk, n)) /\ Held(Convert(s, chunk, n))
<1> DEFINE piece == [n |-> n, mark |-> chunk.text]
           r == Reasoned(s, chunk, n)
           b == EnsureStart(r)
           c == Content(b, piece)
<1>1. chunk.calls \in Seq(Nat) /\ (chunk.text # NoText => piece \in Pieces)
  BY StreamAssumption DEF Pieces, NoText
<1>2. Sim(r) /\ Held(r)
  BY ReasonedKeeps
<1>3. Convert(s, chunk, n) = IF chunk.text = NoText THEN CallsOf(r, chunk.calls, n)
                             ELSE IF PassedOn(r, piece) THEN c ELSE CallsOf(c, chunk.calls, n)
  BY DEF Convert
<1> HIDE DEF r
<1>4. Sim(b) /\ b.started /\ Held(b)
  <2>1. Sim(b) /\ b.started /\ b.mode = r.mode /\ b.buffer = r.buffer /\ b.text = r.text
    BY <1>2, StartKeeps
  <2> HIDE DEF b
  <2> QED BY <1>2, <2>1 DEF Held
<1> HIDE DEF b, piece
<1>5. chunk.text # NoText => Sim(c) /\ Held(c)
  BY <1>1, <1>4, ContentKeeps
<1> HIDE DEF c
<1> QED BY <1>1, <1>2, <1>3, <1>5, CallsKeep

(* What is left of a text that was parsed. *)
Left(b, text) ==
    /\ text \in Seq(Pieces) /\ InOrder(text) /\ Range(text) \subseteq Range(b)
    /\ \A p \in Range(b) \ Range(text) : TakenOut(p, Range(text), Range(b))

LEMMA ParsingIsLeft ==
    ASSUME NEW b \in Seq(Pieces), NEW parsing \in Parsings(b)
    PROVE  Left(b, parsing.text)
<1>1. Range(b) \subseteq Pieces
  BY DEF Range
<1>2. PICK text : /\ text = parsing.text /\ text \in Remainders(b)
  BY DEF Parsings
<1>3. /\ \E k \in 0 .. Len(b) : text \in [1 .. k -> Range(b)]
      /\ InOrder(text) /\ \A p \in Range(b) \ Range(text) : TakenOut(p, Range(text), Range(b))
  BY <1>2 DEF Remainders
<1>4. PICK k \in 0 .. Len(b) : text \in [1 .. k -> Range(b)]
  BY <1>3
<1>5. k \in Nat /\ text \in [1 .. k -> Pieces]
  BY <1>1, <1>4
<1>6. text \in Seq(Pieces)
  BY <1>5, SeqDef
<1>7. Range(text) \subseteq Range(b)
  <2> HIDE DEF InOrder
  <2>1. \A i \in DOMAIN text : text[i] \in Range(b)
    BY <1>4
  <2> QED BY <2>1 DEF Range
<1> QED BY <1>2, <1>3, <1>6, <1>7 DEF Left

LEMMA ParsingsType ==
    ASSUME NEW b \in Seq(Pieces), NEW parsing \in Parsings(b)
    PROVE  parsing.text \in Seq(Pieces)
BY ParsingIsLeft DEF Left

----------------------------------------------------------------------------
(* The end of the stream *)

(* A call that leaked into the text: a block that is started and stopped. *)
LEMMA LeakedKeeps ==
    ASSUME NEW s, Sim(s), s.started, s.text = NoBlock
    PROVE  LET t == Yield(Yield([s EXCEPT !.next = @ + 1], Start(s.next, "tool_use")), Stop(s.next)) IN
           /\ Sim(t) /\ t.started /\ t.text = NoBlock
           /\ Still(s, t) /\ t.tools = s.tools /\ t.mode = s.mode
<1> DEFINE u == [s EXCEPT !.next = s.next + 1]
           e == Start(s.next, "tool_use")
           d == Receive(s.client, e)
           v == Yield(u, e)
           g == Stop(s.next)
           h == Receive(d, g)
           t == Yield(v, g)
<1>0. s \in Pipes /\ s.client \in Clients /\ s.next \in Nat /\ s.next + 1 \in Nat
  BY DEF Sim, Pipes
<1>1. /\ ~s.client.broken /\ s.client.stage = "open" /\ s.next \notin DOMAIN s.client.blocks
      /\ s.hidden = {} /\ ~Secret(s) /\ s.text.kind = "none" /\ NoBlock.kind = "none"
  BY <1>0 DEF Sim, Follows, NoBlock, Secret
<1>2. /\ u \in Pipes /\ u.started /\ u.text = NoBlock /\ u.next = s.next + 1
      /\ u.tools = s.tools /\ u.hidden = {} /\ u.client = s.client /\ u.mode = s.mode
  BY <1>0, <1>1 DEF Pipes
<1>3. t = Yield(Yield([s EXCEPT !.next = @ + 1], Start(s.next, "tool_use")), Stop(s.next))
  OBVIOUS
<1> HIDE DEF u
<1>4. v = [u EXCEPT !.client = d]
  <2>1. ~Hides(u, e)
    BY DEF Hides, Start
  <2> QED BY <1>2, <2>1 DEF Yield
<1>5. /\ d \in Clients /\ ~d.broken /\ d.stage = "open"
      /\ DOMAIN d.blocks = DOMAIN s.client.blocks \cup {s.next}
      /\ d.blocks[s.next].open /\ d.blocks[s.next].pieces = <<>>
      /\ \A j \in DOMAIN s.client.blocks : d.blocks[j] = s.client.blocks[j]
  BY <1>0, <1>1, GetsStart
<1> HIDE DEF d
<1>6. /\ v \in Pipes /\ v.client = d /\ v.started /\ v.next = s.next + 1 /\ v.text = NoBlock
      /\ v.tools = s.tools /\ v.hidden = {} /\ v.mode = s.mode
  <2>0. u \in Pipes /\ u.started /\ d \in Clients
    BY <1>2, <1>5
  <2>1. v.started
    BY <1>4, <2>0, StartedStays
  <2>2. /\ v \in Pipes /\ v.client = d /\ v.next = u.next /\ v.text = u.text
        /\ v.tools = u.tools /\ v.hidden = u.hidden /\ v.mode = u.mode
    <3> HIDE DEF v
    <3> QED BY <1>2, <1>4, <1>5, ClientChanges
  <2> QED BY <1>2, <2>1, <2>2
<1> HIDE DEF v
<1>7. t = [v EXCEPT !.client = h]
  <2>1. ~Hides(v, g)
    BY <1>6 DEF Hides, Stop
  <2> QED BY <1>6, <2>1 DEF Yield
<1>8. /\ h \in Clients /\ ~h.broken /\ h.stage = "open"
      /\ DOMAIN h.blocks = DOMAIN d.blocks /\ ~h.blocks[s.next].open
      /\ \A j \in DOMAIN d.blocks :
            h.blocks[j].kind = d.blocks[j].kind /\ (j # s.next => h.blocks[j].open = d.blocks[j].open)
      /\ \A j \in DOMAIN d.blocks : h.blocks[j].pieces = d.blocks[j].pieces
  BY <1>5, GetsStop
<1> HIDE DEF h
<1>9. /\ t \in Pipes /\ t.client = h /\ t.started /\ t.next = s.next + 1 /\ t.text = NoBlock
      /\ t.tools = s.tools /\ t.hidden = {} /\ t.mode = s.mode
  BY <1>6, <1>7, <1>8, ClientChanges
<1> HIDE DEF t
<1>10. ~Secret(t) /\ Shown(t) = Shown(s)
  BY <1>1, <1>9 DEF Secret, Shown
<1>11. Follows(t)
  <2>1. \A i \in DOMAIN t.client.blocks : i < t.next
    <3>1. DOMAIN s.client.blocks \subseteq Nat
      BY <1>0, BlocksAre DEF Clients
    <3> QED BY <1>0, <1>5, <1>8, <1>9, <3>1 DEF Sim, Follows
  <2>2. \A c \in DOMAIN s.tools : s.tools[c] \in DOMAIN s.client.blocks
    BY DEF Sim, Follows, Shown
  <2>3. \A i \in DOMAIN h.blocks : h.blocks[i].open <=> i \in Shown(t)
    <3>1. s.next \notin Shown(s)
      BY <1>1 DEF Sim, Follows
    <3> QED BY <1>5, <1>8, <1>10, <3>1 DEF Sim, Follows
  <2>4. Shown(t) \subseteq DOMAIN h.blocks
    BY <1>5, <1>8, <1>10 DEF Sim, Follows
  <2>5. \A c \in DOMAIN s.tools : h.blocks[s.tools[c]].kind = "tool_use"
    BY <1>5, <1>8, <2>2 DEF Sim, Follows
  <2> QED BY <1>1, <1>8, <1>9, <2>1, <2>3, <2>4, <2>5 DEF Follows
<1>last. Newest(t)
  BY <1>1, <1>9 DEF Sim, Newest, TextBlocks
<1>12. Sim(t)
  BY <1>last, <1>1, <1>9, <1>10, <1>11 DEF Sim, TextOK
<1>13. Still(s, t)
  BY <1>1, <1>5, <1>8, <1>9 DEF Still, KindsStay, Body
<1> QED BY <1>3, <1>9, <1>12, <1>13

(* The kept-back text, and the call that leaked into it.                    *)
LEMMA ParsedKeeps ==
    ASSUME NEW s, Sim(s), s.started, s.text.kind # "text", NEW parsing, parsing.text \in Seq(Pieces)
    PROVE  LET t == Parsed(s, parsing) IN Sim(t) /\ t.started
<1> DEFINE b == CloseTextBlock(s)
           p == OpenBlock(b, "text")
           o == IF parsing.call THEN p ELSE b
           y == Say(o, "text", parsing.text)
           z == CloseTextBlock(y)
           t == IF parsing.text = <<>> THEN b ELSE z
           l == Yield(Yield([t EXCEPT !.next = @ + 1], Start(t.next, "tool_use")), Stop(t.next))
<1>1. Parsed(s, parsing) = IF ~parsing.call THEN t ELSE l
  BY DEF Parsed
<1>2. Sim(b) /\ b.started /\ b.text = NoBlock
  BY CloseKeeps
<1> HIDE DEF b
<1>3. Sim(p) /\ p.started
  BY <1>2, OpenKeeps
<1> HIDE DEF p
<1>4. Sim(o) /\ o.started
  BY <1>2, <1>3
<1> HIDE DEF o
<1>5. Sim(y) /\ y.started
  BY <1>4, SayKeeps
<1> HIDE DEF y
<1>6. Sim(z) /\ z.started /\ z.text = NoBlock
  BY <1>5, CloseKeeps
<1> HIDE DEF z
<1>7. Sim(t) /\ t.started /\ t.text = NoBlock
  BY <1>2, <1>6
<1> HIDE DEF t
<1>8. Sim(l) /\ l.started
  BY <1>7, LeakedKeeps
<1> HIDE DEF l
<1> QED BY <1>1, <1>7, <1>8

(* Where the stops of the calls have come to: the blocks from i on are open.*)
StoppedTo(s, i) ==
    {u \in Pipes :
       /\ u.hidden = {} /\ ~u.client.broken /\ u.client.stage = "open"
       /\ DOMAIN u.client.blocks = DOMAIN s.client.blocks
       /\ \A j \in DOMAIN s.client.blocks :
             u.client.blocks[j].open <=> j \in Range(s.tools) /\ j >= i
       /\ Still(s, u) /\ u.tools = s.tools /\ u.mode = s.mode}

(* A stop more, or none where the block is no call's.                       *)
LEMMA StopsOne ==
    ASSUME NEW s, Sim(s), NEW i \in Nat, NEW u \in StoppedTo(s, i)
    PROVE  (IF i \in Range(s.tools) THEN Yield(u, Stop(i)) ELSE u) \in StoppedTo(s, i + 1)
<1>0. DOMAIN s.client.blocks \subseteq Nat
  BY BlocksAre DEF Sim, Pipes, Clients
<1>1. CASE i \notin Range(s.tools)
  <2>1. \A j \in DOMAIN s.client.blocks :
           u.client.blocks[j].open <=> j \in Range(s.tools) /\ j >= i + 1
    <3>1. \A j \in DOMAIN s.client.blocks : j \in Range(s.tools) /\ j >= i => j >= i + 1
      BY <1>0, <1>1
    <3>2. \A j \in DOMAIN s.client.blocks : j >= i + 1 => j >= i
      BY <1>0
    <3> QED BY <3>1, <3>2 DEF StoppedTo
  <2> QED BY <1>1, <2>1 DEF StoppedTo
<1>2. CASE i \in Range(s.tools)
  <2> DEFINE e == Stop(i)
             d == Receive(u.client, e)
             t == Yield(u, e)
  <2>1. /\ u \in Pipes /\ u.client \in Clients /\ u.hidden = {} /\ ~u.client.broken
        /\ u.client.stage = "open" /\ DOMAIN u.client.blocks = DOMAIN s.client.blocks
    BY DEF StoppedTo, Pipes
  <2>2. i \in DOMAIN u.client.blocks
    BY <1>2, <2>1 DEF Sim, Follows, Shown, Range
  <2>3. u.client.blocks[i].open
    BY <1>2, <2>1, <2>2 DEF StoppedTo
  <2>4. t = [u EXCEPT !.client = d]
    <3>1. ~Hides(u, e)
      BY <2>1 DEF Hides, Stop
    <3> QED BY <3>1 DEF Yield
  <2>5. /\ d \in Clients /\ ~d.broken /\ d.stage = "open"
        /\ DOMAIN d.blocks = DOMAIN u.client.blocks /\ ~d.blocks[i].open
        /\ \A j \in DOMAIN u.client.blocks :
              j # i => d.blocks[j].open = u.client.blocks[j].open
        /\ \A j \in DOMAIN u.client.blocks :
              d.blocks[j].kind = u.client.blocks[j].kind /\ d.blocks[j].pieces = u.client.blocks[j].pieces
    BY <2>1, <2>2, <2>3, GetsStop
  <2> HIDE DEF d
  <2>6. t \in Pipes /\ t.client = d /\ t.hidden = {} /\ t.tools = u.tools /\ t.mode = u.mode
    <3> HIDE DEF t
    <3> QED BY <2>1, <2>4, <2>5, ClientChanges
  <2> HIDE DEF t
  <2>7. \A j \in DOMAIN s.client.blocks : d.blocks[j].open <=> j \in Range(s.tools) /\ j >= i + 1
    <3> SUFFICES ASSUME NEW j \in DOMAIN s.client.blocks
                 PROVE  d.blocks[j].open <=> j \in Range(s.tools) /\ j >= i + 1
      OBVIOUS
    <3>1. j \in Nat /\ (j # i => (j >= i <=> j >= i + 1))
      BY <1>0
    <3>2. u.client.blocks[j].open <=> j \in Range(s.tools) /\ j >= i
      BY DEF StoppedTo
    <3>3. CASE j = i
      <4>1. ~(i >= i + 1)
        OBVIOUS
      <4> QED BY <2>5, <3>3, <4>1
    <3>4. CASE j # i
      BY <2>1, <2>5, <3>1, <3>2, <3>4
    <3> QED BY <3>3, <3>4
  <2>9. Still(u, t)
    BY <2>5, <2>6 DEF Still, KindsStay, Body
  <2>10. Still(s, t) /\ t.tools = s.tools /\ t.mode = s.mode
    BY <2>6, <2>9, StillStill DEF StoppedTo
  <2>8. t \in StoppedTo(s, i + 1)
    BY <2>1, <2>5, <2>6, <2>7, <2>10 DEF StoppedTo
  <2> QED BY <1>2, <2>8 DEF t
<1> QED BY <1>1, <1>2

LEMMA CallsStop ==
    ASSUME NEW s, Sim(s), s.started, s.text = NoBlock
    PROVE  LET t == StopCalls(s) IN
           /\ t \in Pipes /\ ~t.client.broken /\ t.client.stage = "open" /\ OpenBlocks(t.client) = {}
           /\ Still(s, t) /\ t.tools = s.tools /\ t.mode = s.mode
<1> DEFINE X == [i \in 0 .. s.next |-> StoppedTo(s, i)]
           One(u, i) == IF i - 1 \in Range(s.tools) THEN Yield(u, Stop(i - 1)) ELSE u
           F == [i \in 1 .. s.next |-> [u \in StoppedTo(s, i - 1) |-> One(u, i)]]
           At(f, i) == IF i = 0 THEN s
                       ELSE IF i - 1 \in Range(s.tools) THEN Yield(f[i - 1], Stop(i - 1))
                       ELSE f[i - 1]
           upto == CHOOSE f : f = [i \in 0 .. s.next |-> At(f, i)]
           t == StopCalls(s)
<1>1. s \in Pipes /\ s.next \in Nat /\ s.client \in Clients
  BY DEF Sim, Pipes
<1>2. t = upto[s.next]
  BY DEF StopCalls
<1> HIDE DEF t
<1>3. \A j \in Range(s.tools) : j \in Nat /\ j < s.next
  BY ToolsBelow DEF Range
<1>4. s \in StoppedTo(s, 0)
  <2>1. s.text.kind = "none" /\ ~Secret(s)
    BY DEF NoBlock, Secret
  <2>2. Shown(s) = Range(s.tools) /\ s.hidden = {}
    BY <2>1 DEF Sim, Shown, Range
  <2>3. \A j \in DOMAIN s.client.blocks : s.client.blocks[j].open <=> j \in Range(s.tools) /\ j >= 0
    BY <1>3, <2>2 DEF Sim, Follows
  <2>4. Still(s, s)
    BY DEF Still, KindsStay, Body
  <2> QED BY <1>1, <2>2, <2>3, <2>4 DEF StoppedTo, Sim, Follows
<1>5. \A i \in 1 .. s.next : \A u \in StoppedTo(s, i - 1) : One(u, i) \in StoppedTo(s, i)
  <2> SUFFICES ASSUME NEW i \in 1 .. s.next, NEW u \in StoppedTo(s, i - 1)
               PROVE  One(u, i) \in StoppedTo(s, i)
    OBVIOUS
  <2>1. i - 1 \in Nat /\ (i - 1) + 1 = i
    BY <1>1
  <2> QED BY <2>1, StopsOne
<1>6. \E f : f = [i \in 0 .. s.next |-> At(f, i)]
  <2>1. \A i \in 1 .. s.next : X[i - 1] = StoppedTo(s, i - 1) /\ X[i] = StoppedTo(s, i)
    BY <1>1
  <2>2. \A i \in 1 .. s.next : F[i] \in [StoppedTo(s, i - 1) -> StoppedTo(s, i)]
    BY <1>5
  <2>3. \A i \in 1 .. s.next : F[i] \in [X[i - 1] -> X[i]]
    BY <2>1, <2>2
  <2>4. s \in X[0]
    BY <1>1, <1>4
  <2>5. \A i \in 0 .. s.next : X[i] \subseteq Pipes
    BY DEF StoppedTo
  <2> HIDE DEF X, F
  <2>6. Paved(s.next, Pipes, X, s, F)
    BY <1>1, <2>3, <2>4, <2>5 DEF Paved
  <2>7. PICK f : Walk(f, s.next, Pipes, X, s, F)
    BY <2>6, StepsExist
  <2>8. /\ f \in [0 .. s.next -> Pipes] /\ f[0] = s
        /\ \A i \in 1 .. s.next : f[i] = F[i][f[i - 1]]
        /\ \A i \in 0 .. s.next : f[i] \in X[i]
    BY <2>7 DEF Walk
  <2>9. \A i \in 1 .. s.next : F[i][f[i - 1]] = One(f[i - 1], i)
    <3> SUFFICES ASSUME NEW i \in 1 .. s.next PROVE F[i][f[i - 1]] = One(f[i - 1], i)
      OBVIOUS
    <3>1. i - 1 \in 0 .. s.next
      BY <1>1
    <3>2. f[i - 1] \in StoppedTo(s, i - 1)
      BY <2>1, <2>8, <3>1
    <3> QED BY <3>2 DEF F
  <2>10. \A i \in 0 .. s.next : i = 0 \/ i \in 1 .. s.next
    BY <1>1
  <2>11. \A i \in 0 .. s.next : f[i] = At(f, i)
    BY <2>8, <2>9, <2>10
  <2>12. f = [i \in 0 .. s.next |-> f[i]]
    BY <2>8
  <2> QED BY <2>11, <2>12
<1>7. upto = [i \in 0 .. s.next |-> At(upto, i)]
  BY <1>6
<1> HIDE DEF upto
<1>8. \A i \in 0 .. s.next : upto[i] = At(upto, i)
  BY <1>7
<1>9. upto[0] \in X[0]
  BY <1>1, <1>4, <1>8
<1>10. \A i \in 1 .. s.next : upto[i - 1] \in X[i - 1] => upto[i] \in X[i]
  <2> SUFFICES ASSUME NEW i \in 1 .. s.next, upto[i - 1] \in X[i - 1] PROVE upto[i] \in X[i]
    OBVIOUS
  <2>1. i \in 0 .. s.next /\ i # 0 /\ i - 1 \in 0 .. s.next
    BY <1>1
  <2>2. upto[i - 1] \in StoppedTo(s, i - 1)
    BY <2>1
  <2>3. upto[i] = One(upto[i - 1], i)
    BY <1>8, <2>1
  <2>4. One(upto[i - 1], i) \in StoppedTo(s, i)
    BY <1>5, <2>2
  <2> QED BY <2>1, <2>3, <2>4
<1> HIDE DEF X
<1>11. \A i \in 0 .. s.next : upto[i] \in X[i]
  BY <1>1, <1>9, <1>10, StepsStay
<1>12. t \in StoppedTo(s, s.next)
  <2>1. s.next \in 0 .. s.next
    BY <1>1
  <2>2. X[s.next] = StoppedTo(s, s.next)
    BY <2>1 DEF X
  <2> QED BY <1>2, <1>11, <2>1, <2>2
<1>13. \A j \in DOMAIN s.client.blocks : ~t.client.blocks[j].open
  <2>1. \A j \in Range(s.tools) : ~(j >= s.next)
    BY <1>1, <1>3
  <2> QED BY <1>12, <2>1 DEF StoppedTo
<1>14. /\ t \in Pipes /\ ~t.client.broken /\ t.client.stage = "open" /\ OpenBlocks(t.client) = {}
       /\ Still(s, t) /\ t.tools = s.tools /\ t.mode = s.mode
  BY <1>12, <1>13 DEF StoppedTo, OpenBlocks
<1> QED BY <1>14 DEF t

(* The end: nothing is open, and the message is over; it has what it had    *)
(* before the stops.                                                        *)
BeforeStops(s, parsing) == IF s.buffer = <<>> THEN EnsureStart(s) ELSE Parsed(EnsureStart(s), parsing)

LEMMA FinishEnds ==
    ASSUME NEW s, Sim(s), Held(s), NEW parsing, parsing.text \in Seq(Pieces)
    PROVE  LET t == FinishMessage(s, parsing)
               m == BeforeStops(s, parsing)
           IN  /\ ~t.client.broken /\ t.client.stage = "over"
               /\ Still(m, t) /\ t.tools = m.tools /\ t.mode = m.mode
<1> DEFINE b == EnsureStart(s)
           p == Parsed(b, parsing)
           m == IF s.buffer = <<>> THEN b ELSE p
           c == CloseTextBlock(m)
           w == StopCalls(c)
           d == Receive(w.client, MessageDelta)
           x == Yield(w, MessageDelta)
           h == Receive(d, MessageStop)
           t == FinishMessage(s, parsing)
<1>1. t = Yield(x, MessageStop)
  BY DEF FinishMessage
<1> HIDE DEF t
<1>2. Sim(b) /\ b.started /\ b.text = s.text /\ b.buffer = s.buffer /\ b.mode = s.mode
  BY StartKeeps
<1> HIDE DEF b
<1>3. s.buffer # <<>> => b.text.kind # "text"
  <2>1. s.mode \in {"waiting", "streaming", "abandoned"}
    BY DEF Sim, Pipes
  <2> QED BY <1>2, <2>1 DEF Held
<1>4. s.buffer # <<>> => Sim(p) /\ p.started
  BY <1>2, <1>3, ParsedKeeps
<1> HIDE DEF p
<1>5. Sim(m) /\ m.started
  BY <1>2, <1>4
<1> HIDE DEF m
<1>6. Sim(c) /\ c.started /\ c.text = NoBlock /\ Still(m, c) /\ c.tools = m.tools /\ c.mode = m.mode
  BY <1>5, CloseKeeps
<1> HIDE DEF c
<1>7. /\ w \in Pipes /\ ~w.client.broken /\ w.client.stage = "open" /\ OpenBlocks(w.client) = {}
      /\ Still(c, w) /\ w.tools = c.tools /\ w.mode = c.mode
  BY <1>6, CallsStop
<1> HIDE DEF w
<1>8. w.client \in Clients
  BY <1>7 DEF Pipes
<1>9. d = [w.client EXCEPT !.stage = "closing"]
  BY <1>7 DEF Receive, Sensible, MessageDelta
<1>10. d \in Clients /\ ~d.broken /\ d.stage = "closing" /\ d.blocks = w.client.blocks
  BY <1>7, <1>8, <1>9 DEF Clients
<1> HIDE DEF d
<1>11. x = [w EXCEPT !.client = d]
  BY DEF Yield, Hides, MessageDelta, d
<1>12. x \in Pipes /\ x.client = d /\ x.tools = w.tools /\ x.mode = w.mode
  <2> HIDE DEF x
  <2> QED BY <1>7, <1>10, <1>11, ClientChanges
<1> HIDE DEF x
<1>13. h = [d EXCEPT !.stage = "over"]
  BY <1>10 DEF Receive, Sensible, MessageStop
<1>14. h \in Clients /\ ~h.broken /\ h.stage = "over" /\ h.blocks = d.blocks
  BY <1>10, <1>13 DEF Clients
<1> HIDE DEF h
<1>15. t = [x EXCEPT !.client = h]
  BY <1>1, <1>12 DEF Yield, Hides, MessageStop, h
<1>16. t.client = h /\ t.tools = x.tools /\ t.mode = x.mode
  BY <1>12, <1>14, <1>15, ClientChanges
<1>17. Still(m, w)
  BY <1>6, <1>7, StillStill
<1>18. Still(m, t)
  BY <1>10, <1>14, <1>16, <1>17 DEF Still, KindsStay
<1>19. m = BeforeStops(s, parsing)
  BY DEF BeforeStops, m, p, b
<1> QED BY <1>6, <1>7, <1>12, <1>14, <1>16, <1>18, <1>19 DEF t

----------------------------------------------------------------------------
(* The specification *)

(* Until the end the client has what the converter takes for open; after it *)
(* the message is over.                                                     *)
StreamInv ==
    /\ loop \in {"reading", "done", "error", "cut"} /\ number \in Nat
    /\ loop # "done" => Sim(conv) /\ Held(conv)
    /\ loop = "done" => ~conv.client.broken /\ conv.client.stage = "over"

LEMMA StreamStarts == StreamInit => StreamInv
<1> SUFFICES ASSUME StreamInit PROVE StreamInv
  OBVIOUS
<1>1. /\ conv.started = FALSE /\ conv.next = 0 /\ conv.text = NoBlock /\ conv.tools = <<>>
      /\ conv.buffer = <<>> /\ conv.mode = "waiting" /\ conv.hidden = {} /\ conv.client = NewClient
  BY DEF StreamInit
<1>2. NewClient \in Clients
  <2>1. <<>> \in ClientBlocks
    <3>1. DOMAIN <<>> \subseteq Nat /\ <<>> \in [DOMAIN <<>> -> ClientBlock]
      OBVIOUS
    <3> QED BY <3>1, BlocksAre
  <2> QED BY <2>1 DEF NewClient, Clients
<1>3. conv \in Pipes
  <2>1. <<>> \in ToolMaps
    <3>1. DOMAIN <<>> \subseteq Nat /\ <<>> \in [DOMAIN <<>> -> Nat]
      OBVIOUS
    <3> QED BY <3>1, ToolsAre
  <2> QED BY <1>2, <2>1 DEF StreamInit, Pipes, NoBlock
<1>4. conv.text.kind = "none" /\ ~Secret(conv) /\ DOMAIN conv.tools = {}
  BY <1>1 DEF NoBlock, Secret
<1>5. Shown(conv) = {}
  BY <1>4 DEF Shown
<1>6. ~conv.client.broken /\ conv.client.stage = "before" /\ DOMAIN conv.client.blocks = {}
  BY <1>1 DEF NewClient
<1>7. ~conv.started
  BY DEF StreamInit
<1>8. Follows(conv)
  BY <1>4, <1>5, <1>6, <1>7 DEF Follows
<1>last. Newest(conv)
  BY <1>1, <1>4 DEF Sim, Newest, TextBlocks
<1>11. IsInjective(conv.tools)
  BY <1>4 DEF IsInjective
<1>9. Sim(conv)
  BY <1>last, <1>11, <1>1, <1>3, <1>4, <1>8 DEF Sim, TextOK
<1>10. Held(conv)
  BY <1>1, <1>4 DEF Held
<1> QED BY <1>9, <1>10 DEF StreamInit, StreamInv

LEMMA StreamSteps == StreamInv /\ [StreamNext]_streamVars => StreamInv'
<1> SUFFICES ASSUME StreamInv, [StreamNext]_streamVars PROVE StreamInv'
  OBVIOUS
<1> DEFINE Fine(c) == Sim(c) /\ Held(c)
           Ended(c) == ~c.client.broken /\ c.client.stage = "over"
<1>1. loop' \in {"reading", "done", "error", "cut"} /\ number' \in Nat /\ keep' = keep
  <2>0. loop \in {"reading", "done", "error", "cut"} /\ number \in Nat
    BY DEF StreamInv
  <2>1. ASSUME NEW chunk \in Chunks, TakeChunk(chunk)
        PROVE  loop' \in {"reading", "error"} /\ number' \in Nat /\ keep' = keep
    <3> HIDE DEF Fine, Ended
    <3> QED BY <2>0, <2>1 DEF TakeChunk, Written
  <2>2. CASE SeeDirtyLine
    BY <2>0, <2>2 DEF SeeDirtyLine
  <2>3. CASE EndStream
    BY <2>0, <2>3 DEF EndStream, Written
  <2>4. CASE BreakStream
    BY <2>0, <2>4 DEF BreakStream
  <2>5. CASE UNCHANGED streamVars
    BY <2>0, <2>5 DEF streamVars
  <2> QED BY <2>1, <2>2, <2>3, <2>4, <2>5 DEF StreamNext
<1>2. (loop' # "done" => Fine(conv')) /\ (loop' = "done" => Ended(conv'))
  <2> HIDE DEF Fine, Ended
  <2>0. (loop # "done" => Fine(conv)) /\ (loop = "done" => Ended(conv))
    BY DEF StreamInv, Fine, Ended
  <2>1. ASSUME NEW chunk \in Chunks, TakeChunk(chunk) PROVE loop' # "done" /\ Fine(conv')
    <3> DEFINE t == Convert(conv, chunk, number + 1)
    <3>1. number + 1 \in Nat /\ Fine(conv)
      BY <2>0, <2>1 DEF StreamInv, TakeChunk
    <3>2. Fine(t)
      BY <3>1, ConvertKeeps DEF Fine
    <3>3. Written(t, "reading")
      BY <2>1 DEF TakeChunk
    <3> HIDE DEF t
    <3> QED BY <3>1, <3>2, <3>3 DEF Written
  <2>2. CASE SeeDirtyLine
    BY <2>0, <2>2 DEF SeeDirtyLine
  <2>3. CASE EndStream
    <3>1. Fine(conv) /\ conv.buffer \in Seq(Pieces)
      BY <2>0, <2>3 DEF EndStream, Fine, Sim, Pipes
    <3>2. PICK parsing \in IF conv.buffer = <<>> THEN {[call |-> FALSE, text |-> <<>>]}
                           ELSE Parsings(conv.buffer) :
             Written(FinishMessage(conv, parsing), "done")
      BY <2>3 DEF EndStream
    <3>3. parsing.text \in Seq(Pieces)
      <4>1. CASE conv.buffer = <<>>
        <5>1. parsing.text = <<>>
          BY <3>2, <4>1
        <5> QED BY <5>1
      <4>2. CASE conv.buffer # <<>>
        <5>1. parsing \in Parsings(conv.buffer)
          BY <3>2, <4>2
        <5> QED BY <3>1, <5>1, ParsingsType
      <4> QED BY <4>1, <4>2
    <3> DEFINE t == FinishMessage(conv, parsing)
    <3>4. Ended(t)
      BY <3>1, <3>3, FinishEnds DEF Fine, Ended
    <3>5. Written(t, "done")
      BY <3>2
    <3> HIDE DEF t
    <3> QED BY <3>1, <3>4, <3>5 DEF Written
  <2>4. CASE BreakStream
    BY <2>0, <2>4 DEF BreakStream
  <2>5. CASE UNCHANGED streamVars
    BY <2>0, <2>5 DEF streamVars
  <2> QED BY <2>1, <2>2, <2>3, <2>4, <2>5 DEF StreamNext
<1>3. PICK c : c = conv'
  OBVIOUS
<1>4. (Fine(c) <=> (Sim(conv) /\ Held(conv))')
  BY <1>1, <1>3 DEF Sim, Held, TextOK, Follows, Shown, Secret
<1> QED BY <1>1, <1>2, <1>3, <1>4 DEF StreamInv

LEMMA InvIsWellFormed == StreamInv => WellFormed
<1> SUFFICES ASSUME StreamInv PROVE WellFormed
  OBVIOUS
<1>1. CASE loop = "done"
  BY <1>1 DEF StreamInv, WellFormed, client
<1>2. CASE loop # "done"
  <2>1. Sim(conv)
    BY <1>2 DEF StreamInv
  <2>2. ~conv.client.broken /\ conv.client.stage # "over"
    BY <2>1 DEF Sim, Follows
  <2>3. OpenBlocks(conv.client) = Shown(conv)
    BY <2>1 DEF Sim, Follows, OpenBlocks
  <2>4. conv.text = NoBlock <=> conv.text.kind = "none"
    BY <2>1 DEF Sim, TextOK, NoBlock
  <2>5. Shown(conv) =
          (Range(conv.tools) \cup (IF conv.text = NoBlock THEN {} ELSE {conv.text.index})) \ conv.hidden
    <3>1. CASE conv.text.kind = "none"
      BY <2>1, <2>4, <3>1 DEF Sim, Shown, Range, Secret
    <3>2. CASE conv.text.kind # "none" /\ Secret(conv)
      BY <2>1, <2>4, <3>2 DEF Sim, Shown, Range, TextOK
    <3>3. CASE conv.text.kind # "none" /\ ~Secret(conv)
      BY <2>1, <2>4, <3>3 DEF Sim, Shown, Range
    <3> QED BY <3>1, <3>2, <3>3
  <2> QED BY <1>2, <2>2, <2>3, <2>5 DEF WellFormed, client
<1> QED BY <1>1, <1>2

(* Whatever the chunks and however many, the events the client is sent make *)
(* sense to it, and what it has open is what the converter takes for open.  *)
THEOREM WellFormedHolds == StreamSpec => []WellFormed
<1>1. StreamInit => StreamInv
  BY StreamStarts
<1>2. StreamInv /\ [StreamNext]_streamVars => StreamInv'
  BY StreamSteps
<1>3. StreamInv => WellFormed
  BY InvIsWellFormed
<1> QED BY <1>1, <1>2, <1>3, PTL DEF StreamSpec

----------------------------------------------------------------------------
(* What the client has been told *)

LEMMA Joined ==
    ASSUME NEW a \in Seq(Pieces), NEW b \in Seq(Pieces), InOrder(a), InOrder(b),
           \A p \in Range(a), q \in Range(b) : p.n < q.n
    PROVE  InOrder(a \o b) /\ Range(a \o b) = Range(a) \cup Range(b)
<1> DEFINE c == a \o b
<1>1. /\ Len(a) \in Nat /\ Len(b) \in Nat /\ DOMAIN a = 1 .. Len(a) /\ DOMAIN b = 1 .. Len(b)
      /\ DOMAIN c = 1 .. Len(a) + Len(b)
      /\ \A k \in 1 .. Len(a) : c[k] = a[k]
      /\ \A k \in Len(a) + 1 .. Len(a) + Len(b) : c[k] = b[k - Len(a)]
  OBVIOUS
<1>2. \A k \in 1 .. Len(b) : k + Len(a) \in DOMAIN c /\ c[k + Len(a)] = b[k]
  BY <1>1
<1>3. \A k \in DOMAIN c : k \in DOMAIN a \/ (k - Len(a) \in DOMAIN b /\ k > Len(a))
  BY <1>1
<1> HIDE DEF c
<1>4. Range(c) = Range(a) \cup Range(b)
  <2>1. \A k \in DOMAIN c : c[k] \in Range(a) \cup Range(b)
    <3> SUFFICES ASSUME NEW k \in DOMAIN c PROVE c[k] \in Range(a) \cup Range(b)
      OBVIOUS
    <3>1. CASE k \in DOMAIN a
      BY <1>1, <3>1 DEF Range
    <3>2. CASE k - Len(a) \in DOMAIN b /\ k > Len(a)
      <4>1. c[k] = b[k - Len(a)]
        BY <1>1, <3>2
      <4> QED BY <3>2, <4>1 DEF Range
    <3> QED BY <1>3, <3>1, <3>2
  <2>2. \A k \in DOMAIN a : a[k] \in Range(c)
    <3>1. \A k \in DOMAIN a : k \in DOMAIN c /\ c[k] = a[k]
      BY <1>1
    <3> QED BY <3>1 DEF Range
  <2>3. \A k \in DOMAIN b : b[k] \in Range(c)
    BY <1>1, <1>2 DEF Range
  <2> QED BY <2>1, <2>2, <2>3 DEF Range
<1>5. ASSUME NEW k \in DOMAIN c, NEW l \in DOMAIN c, k < l PROVE c[k].n < c[l].n
  <2>1. CASE l \in DOMAIN a
    <3>1. k \in DOMAIN a /\ c[k] = a[k] /\ c[l] = a[l]
      BY <1>1, <1>5, <2>1
    <3> QED BY <1>5, <2>1, <3>1 DEF InOrder
  <2>2. CASE l - Len(a) \in DOMAIN b /\ l > Len(a)
    <3>1. c[l] = b[l - Len(a)]
      BY <1>1, <2>2
    <3>2. CASE k \in DOMAIN a
      <4>1. c[k] = a[k]
        BY <1>1, <3>2
      <4>2. a[k] \in Range(a) /\ b[l - Len(a)] \in Range(b)
        BY <2>2, <3>2 DEF Range
      <4> QED BY <3>1, <4>1, <4>2
    <3>3. CASE k - Len(a) \in DOMAIN b /\ k > Len(a)
      <4>1. c[k] = b[k - Len(a)] /\ k - Len(a) < l - Len(a)
        BY <1>1, <1>5, <2>2, <3>3
      <4> QED BY <2>2, <3>1, <3>3, <4>1 DEF InOrder
    <3> QED BY <1>3, <3>2, <3>3
  <2> QED BY <1>3, <2>1, <2>2
<1>6. InOrder(c)
  BY <1>5 DEF InOrder
<1> QED BY <1>4, <1>6 DEF c

LEMMA OnePiece ==
    ASSUME NEW p \in Pieces
    PROVE  <<p>> \in Seq(Pieces) /\ InOrder(<<p>>) /\ Range(<<p>>) = {p}
<1>1. <<p>> \in Seq(Pieces) /\ DOMAIN <<p>> = {1} /\ <<p>>[1] = p
  OBVIOUS
<1> QED BY <1>1 DEF InOrder, Range

LEMMA NoPiece == <<>> \in Seq(Pieces) /\ InOrder(<<>>) /\ Range(<<>>) = {}
BY DEF InOrder, Range

(* From s to t nothing was said. *)
Quiet(s, t) ==
    /\ KindsStay(s, t)
    /\ \A j \in TextBlocks(t.client) : t.client.blocks[j].pieces = Body(s, j)

LEMMA StillIsQuiet == ASSUME NEW s, NEW t, Still(s, t) PROVE Quiet(s, t)
BY DEF Still, Quiet, TextBlocks

LEMMA GrowsIsQuiet ==
    ASSUME NEW s, NEW t, NEW i, NEW pieces, Grows(s, t, i, pieces), i \notin TextBlocks(t.client)
    PROVE  Quiet(s, t)
BY DEF Grows, Quiet, TextBlocks

LEMMA QuietQuiet ==
    ASSUME NEW s, NEW t, NEW u, Quiet(s, t), Quiet(t, u)
    PROVE  Quiet(s, u)
<1>1. KindsStay(s, u)
  BY DEF Quiet, KindsStay
<1>2. \A j \in TextBlocks(u.client) : Body(t, j) = Body(s, j)
  <2> SUFFICES ASSUME NEW j \in TextBlocks(u.client) PROVE Body(t, j) = Body(s, j)
    OBVIOUS
  <2>1. CASE j \in DOMAIN t.client.blocks
    <3>1. j \in TextBlocks(t.client)
      BY <2>1 DEF Quiet, KindsStay, TextBlocks
    <3> QED BY <2>1, <3>1 DEF Quiet, Body
  <2>2. CASE j \notin DOMAIN t.client.blocks
    BY <2>2 DEF Quiet, KindsStay, Body
  <2> QED BY <2>1, <2>2
<1> QED BY <1>1, <1>2 DEF Quiet

(* The words before, in their order, and more of them after. *)
LEMMA QuietWords ==
    ASSUME NEW s, NEW t, Quiet(s, t)
    PROVE  /\ Words(t.client) = Words(s.client)
           /\ TextInOrder(s.client) => TextInOrder(t.client)
<1>1. \A j \in TextBlocks(s.client) : j \in TextBlocks(t.client) /\ t.client.blocks[j].pieces = s.client.blocks[j].pieces
  BY DEF Quiet, KindsStay, TextBlocks, Body
<1>2. \A j \in TextBlocks(t.client) :
         \/ j \in TextBlocks(s.client)
         \/ t.client.blocks[j].pieces = <<>>
  BY DEF Quiet, KindsStay, TextBlocks, Body
<1>3. Words(t.client) = Words(s.client)
  <2>1. Words(s.client) \subseteq Words(t.client)
    BY <1>1 DEF Words
  <2>2. Words(t.client) \subseteq Words(s.client)
    BY <1>1, <1>2, NoPiece DEF Words
  <2> QED BY <2>1, <2>2
<1>4. ASSUME TextInOrder(s.client), NEW i \in TextBlocks(t.client), NEW j \in TextBlocks(t.client)
      PROVE  /\ InOrder(t.client.blocks[i].pieces)
             /\ i < j => \A p \in Range(t.client.blocks[i].pieces), q \in Range(t.client.blocks[j].pieces) :
                            p.n < q.n
  <2>1. CASE i \notin TextBlocks(s.client)
    BY <1>2, <2>1, NoPiece
  <2>2. CASE i \in TextBlocks(s.client) /\ j \notin TextBlocks(s.client)
    BY <1>1, <1>2, <1>4, <2>2, NoPiece DEF TextInOrder
  <2>3. CASE i \in TextBlocks(s.client) /\ j \in TextBlocks(s.client)
    BY <1>1, <1>4, <2>3 DEF TextInOrder
  <2> QED BY <2>1, <2>2, <2>3
<1> QED BY <1>3, <1>4 DEF TextInOrder

(* Nothing was said to a block of a call. *)
CallsSame(s, t) ==
    t.tools = s.tools /\ \A c \in DOMAIN s.tools : Body(t, s.tools[c]) = Body(s, s.tools[c])

Silent(s, t) == Quiet(s, t) /\ CallsSame(s, t)

LEMMA SilentSilent ==
    ASSUME NEW s, NEW t, NEW u, Silent(s, t), Silent(t, u)
    PROVE  Silent(s, u)
BY QuietQuiet DEF Silent, CallsSame

LEMMA StillIsSilent ==
    ASSUME NEW s, NEW t, Still(s, t), t.tools = s.tools
    PROVE  Silent(s, t)
<1>1. \A j : Body(t, j) = Body(s, j)
  BY DEF Still, KindsStay, Body
<1> QED BY <1>1, StillIsQuiet DEF Silent, CallsSame

LEMMA SameIsSilent ==
    ASSUME NEW s, NEW t, t.client = s.client, t.tools = s.tools
    PROVE  Silent(s, t)
BY StillIsSilent DEF Still, KindsStay, Body

LEMMA ClientBlockIs ==
    ASSUME NEW s, s \in Pipes, NEW i \in DOMAIN s.client.blocks
    PROVE  i \in Nat /\ s.client.blocks[i] \in ClientBlock /\ s.client.blocks[i].pieces \in Seq(Pieces)
<1>1. DOMAIN s.client.blocks \subseteq Nat /\ s.client.blocks \in [DOMAIN s.client.blocks -> ClientBlock]
  BY BlocksAre DEF Pipes, Clients
<1> QED BY <1>1 DEF ClientBlock

LEMMA WordsType ==
    ASSUME NEW s, s \in Pipes
    PROVE  Words(s.client) \subseteq Pieces
<1> SUFFICES ASSUME NEW i \in TextBlocks(s.client) PROVE Range(s.client.blocks[i].pieces) \subseteq Pieces
  BY DEF Words
<1>1. s.client.blocks[i].pieces \in Seq(Pieces)
  BY ClientBlockIs DEF TextBlocks
<1> QED BY <1>1 DEF Range

(* A piece of text or more of them: after all the others. *)
LEMMA SayTells ==
    ASSUME NEW s, Sim(s), s.started, NEW ps \in Seq(Pieces), InOrder(ps), TextInOrder(s.client),
           \A p \in Words(s.client), q \in Range(ps) : p.n < q.n
    PROVE  LET t == Say(s, "text", ps) IN
           /\ CallsSame(s, t) /\ TextInOrder(t.client)
           /\ Words(t.client) = Words(s.client) \cup Range(ps)
<1> DEFINE t == Say(s, "text", ps)
           m == t.text.index
<1>1. /\ Sim(t) /\ t.text.kind = "text" /\ t.tools = s.tools
      /\ IF Secret(t) THEN Still(s, t) ELSE Grows(s, t, m, ps)
  BY SayKeeps
<1> HIDE DEF t
<1>2. ~Secret(t) /\ t.text.kind # "none" /\ s \in Pipes /\ t \in Pipes
  BY <1>1 DEF Secret, Sim
<1>3. KindsStay(s, t)
  BY <1>1, <1>2 DEF Grows
<1>4. \A j \in DOMAIN t.client.blocks :
         t.client.blocks[j].pieces = IF j = m THEN Body(s, j) \o ps ELSE Body(s, j)
  BY <1>1, <1>2 DEF Grows
<1>5. m \in TextBlocks(t.client) /\ m \in Nat
  <2>1. m \in DOMAIN t.client.blocks /\ t.client.blocks[m].kind = "text"
    BY <1>1, <1>2, TextSeen
  <2> QED BY <1>2, <2>1, ClientBlockIs DEF TextBlocks
<1>6. \A j \in TextBlocks(t.client) : j <= m
  BY <1>1 DEF Sim, Newest
<1> HIDE DEF m
<1>7. \A j \in TextBlocks(t.client) : j \in Nat
  BY <1>2, ClientBlockIs DEF TextBlocks
<1>8. \A j \in TextBlocks(t.client) : j \in TextBlocks(s.client) \/ Body(s, j) = <<>>
  BY <1>3 DEF KindsStay, TextBlocks, Body
<1>9. \A j \in TextBlocks(s.client) : Body(s, j) = s.client.blocks[j].pieces /\ j \in TextBlocks(t.client)
  BY <1>3 DEF KindsStay, TextBlocks, Body
<1>10. \A j \in TextBlocks(t.client) : /\ Body(s, j) \in Seq(Pieces) /\ InOrder(Body(s, j))
                                       /\ Range(Body(s, j)) \subseteq Words(s.client)
  <2> SUFFICES ASSUME NEW j \in TextBlocks(t.client)
               PROVE  /\ Body(s, j) \in Seq(Pieces) /\ InOrder(Body(s, j))
                      /\ Range(Body(s, j)) \subseteq Words(s.client)
    OBVIOUS
  <2>1. CASE j \notin TextBlocks(s.client)
    BY <1>8, <2>1, NoPiece
  <2>2. CASE j \in TextBlocks(s.client)
    <3>1. Body(s, j) \in Seq(Pieces)
      BY <1>2, <1>9, <2>2, ClientBlockIs DEF TextBlocks
    <3>2. InOrder(Body(s, j))
      BY <1>9, <2>2 DEF TextInOrder
    <3>3. Range(Body(s, j)) \subseteq Words(s.client)
      BY <1>9, <2>2 DEF Words
    <3> QED BY <3>1, <3>2, <3>3
  <2> QED BY <2>1, <2>2
<1>11. InOrder(Body(s, m) \o ps) /\ Range(Body(s, m) \o ps) = Range(Body(s, m)) \cup Range(ps)
  BY <1>5, <1>10, Joined
<1>12. \A j \in TextBlocks(t.client) :
          t.client.blocks[j].pieces = IF j = m THEN Body(s, j) \o ps ELSE Body(s, j)
  BY <1>4 DEF TextBlocks
<1>13. \A i, j \in TextBlocks(t.client) :
          i < j => \A p \in Range(Body(s, i)), q \in Range(Body(s, j)) : p.n < q.n
  <2> SUFFICES ASSUME NEW i \in TextBlocks(t.client), NEW j \in TextBlocks(t.client), i < j
               PROVE  \A p \in Range(Body(s, i)), q \in Range(Body(s, j)) : p.n < q.n
    OBVIOUS
  <2>1. CASE i \in TextBlocks(s.client) /\ j \in TextBlocks(s.client)
    BY <1>9, <2>1 DEF TextInOrder
  <2>2. CASE i \notin TextBlocks(s.client) \/ j \notin TextBlocks(s.client)
    BY <1>8, <2>2, NoPiece
  <2> QED BY <2>1, <2>2
<1>14. TextInOrder(t.client)
  <2> SUFFICES ASSUME NEW i \in TextBlocks(t.client), NEW j \in TextBlocks(t.client)
               PROVE  /\ InOrder(t.client.blocks[i].pieces)
                      /\ i < j => \A p \in Range(t.client.blocks[i].pieces),
                                     q \in Range(t.client.blocks[j].pieces) : p.n < q.n
    BY DEF TextInOrder
  <2>1. InOrder(t.client.blocks[i].pieces)
    BY <1>10, <1>11, <1>12
  <2>2. ASSUME i < j, NEW p \in Range(t.client.blocks[i].pieces), NEW q \in Range(t.client.blocks[j].pieces)
        PROVE  p.n < q.n
    <3>1. i # m /\ t.client.blocks[i].pieces = Body(s, i) /\ p \in Words(s.client)
      <4>1. i # m
        BY <1>5, <1>6, <1>7, <2>2
      <4> QED BY <1>10, <1>12, <2>2, <4>1
    <3>2. CASE q \in Range(Body(s, j))
      BY <1>13, <2>2, <3>1, <3>2
    <3>3. CASE q \in Range(ps)
      BY <3>1, <3>3
    <3> QED BY <1>11, <1>12, <2>2, <3>2, <3>3
  <2> QED BY <2>1, <2>2
<1>15. Words(t.client) \subseteq Words(s.client) \cup Range(ps)
  <2> SUFFICES ASSUME NEW j \in TextBlocks(t.client)
               PROVE  Range(t.client.blocks[j].pieces) \subseteq Words(s.client) \cup Range(ps)
    BY DEF Words
  <2> QED BY <1>10, <1>11, <1>12
<1>16. Words(s.client) \cup Range(ps) \subseteq Words(t.client)
  <2>1. Range(ps) \subseteq Words(t.client)
    BY <1>5, <1>11, <1>12 DEF Words
  <2>2. ASSUME NEW j \in TextBlocks(s.client) PROVE Range(s.client.blocks[j].pieces) \subseteq Words(t.client)
    <3>1. j \in TextBlocks(t.client) /\ Range(Body(s, j)) \subseteq Range(t.client.blocks[j].pieces)
      BY <1>9, <1>11, <1>12
    <3> QED BY <1>9, <3>1 DEF Words
  <2> QED BY <2>1, <2>2 DEF Words
<1>17. CallsSame(s, t)
  <2> SUFFICES ASSUME NEW c \in DOMAIN s.tools PROVE Body(t, s.tools[c]) = Body(s, s.tools[c])
    BY <1>1 DEF CallsSame
  <2>1. s.tools[c] # m
    BY <1>1, <1>2 DEF Sim, TextOK, m
  <2> QED BY <1>3, <1>4, <2>1 DEF Body, KindsStay
<1> QED BY <1>14, <1>15, <1>16, <1>17 DEF t

(* Thinking is not text. *)
LEMMA ThinkingIsSilent ==
    ASSUME NEW s, Sim(s), s.started, NEW ps \in Seq(Pieces)
    PROVE  Silent(s, Say(s, "thinking", ps))
<1> DEFINE t == Say(s, "thinking", ps)
<1>1. /\ Sim(t) /\ t.text.kind = "thinking" /\ t.tools = s.tools
      /\ IF Secret(t) THEN Still(s, t) ELSE Grows(s, t, t.text.index, ps)
  BY SayKeeps
<1> HIDE DEF t
<1>2. CASE Secret(t)
  BY <1>1, <1>2, StillIsSilent DEF t
<1>3. CASE ~Secret(t)
  <2>1. t.client.blocks[t.text.index].kind = "thinking"
    BY <1>1, <1>3, TextSeen
  <2>2. Quiet(s, t)
    BY <1>1, <1>3, <2>1, GrowsIsQuiet DEF TextBlocks
  <2>3. CallsSame(s, t)
    <3> SUFFICES ASSUME NEW c \in DOMAIN s.tools PROVE Body(t, s.tools[c]) = Body(s, s.tools[c])
      BY <1>1 DEF CallsSame
    <3>1. s.tools[c] # t.text.index
      BY <1>1 DEF Sim, TextOK
    <3> QED BY <1>1, <1>3, <3>1 DEF Grows, Body, KindsStay
  <2> QED BY <2>2, <2>3 DEF Silent, t
<1> QED BY <1>2, <1>3

(* The pieces sent so far are those the client was told and those kept back. *)
Told(s, T) ==
    /\ TextInOrder(s.client) /\ InOrder(s.buffer)
    /\ \A p \in Words(s.client), q \in Range(s.buffer) : p.n < q.n
    /\ Words(s.client) \cup Range(s.buffer) = T

NoTags(s) == s.mode # "abandoned" => \A p \in Words(s.client) : p.mark # "tag"

LEMMA QuietTold ==
    ASSUME NEW s, NEW t, NEW T, Quiet(s, t), t.buffer = s.buffer
    PROVE  /\ Told(s, T) => Told(t, T)
           /\ Words(t.client) = Words(s.client)
           /\ NoTags(s) /\ t.mode = s.mode => NoTags(t)
BY QuietWords DEF Told, NoTags

LEMMA SilentTold ==
    ASSUME NEW s, NEW t, NEW T, Silent(s, t), t.buffer = s.buffer
    PROVE  /\ Told(s, T) => Told(t, T)
           /\ Words(t.client) = Words(s.client)
           /\ NoTags(s) /\ t.mode = s.mode => NoTags(t)
BY QuietTold DEF Silent

LEMMA OneMore ==
    ASSUME NEW a \in Seq(Pieces), NEW p \in Pieces, InOrder(a), \A q \in Range(a) : q.n < p.n
    PROVE  InOrder(Append(a, p)) /\ Range(Append(a, p)) = Range(a) \cup {p}
<1>1. Append(a, p) = a \o <<p>>
  OBVIOUS
<1> QED BY <1>1, OnePiece, Joined

(* All that was kept back is told. *)
LEMMA FlushTells ==
    ASSUME NEW s, Sim(s), s.started, NEW T, Told(s, T)
    PROVE  LET t == FlushAsPlainText(s) IN
           CallsSame(s, t) /\ Told(t, T) /\ Words(t.client) = Words(s.client) \cup Range(s.buffer)
<1> DEFINE u == Say(s, "text", s.buffer)
           t == FlushAsPlainText(s)
<1>1. s.buffer \in Seq(Pieces)
  BY DEF Sim, Pipes
<1>2. Sim(u)
  BY <1>1, SayKeeps
<1>3. CallsSame(s, u) /\ TextInOrder(u.client) /\ Words(u.client) = Words(s.client) \cup Range(s.buffer)
  BY <1>1, SayTells DEF Told
<1>4. t = [u EXCEPT !.buffer = <<>>]
  BY DEF FlushAsPlainText
<1> HIDE DEF u, t
<1>5. t.client = u.client /\ t.tools = u.tools /\ t.buffer = <<>>
  BY <1>2, <1>4, NoPiece, BufferChanges
<1>6. CallsSame(s, t)
  BY <1>3, <1>5 DEF CallsSame, Body
<1>7. Told(t, T)
  BY <1>3, <1>5, NoPiece DEF Told
<1> QED BY <1>3, <1>5, <1>6, <1>7 DEF t

LEMMA BufferedTells ==
    ASSUME NEW s, Sim(s), Held(s), s.started, s.mode # "abandoned", NEW piece \in Pieces,
           NEW T, Told(s, T), \A q \in T : q.n < piece.n
    PROVE  LET t == Buffered(s, piece) IN
           /\ Silent(s, t) /\ Told(t, T \cup {piece}) /\ t.mode # "abandoned"
           /\ Words(t.client) = Words(s.client)
<1> DEFINE c == CloseTextBlock(s)
           m == [c EXCEPT !.mode = "waiting"]
           u == IF s.mode = "streaming" THEN m ELSE s
           b == Append(u.buffer, piece)
           t == Buffered(s, piece)
<1>1. t = [u EXCEPT !.buffer = b]
  BY DEF Buffered
<1> HIDE DEF t
<1>2. Sim(c) /\ Still(s, c) /\ c.tools = s.tools /\ c.buffer = s.buffer
  BY CloseKeeps
<1>3. Silent(s, c)
  BY <1>2, StillIsSilent
<1> HIDE DEF c
<1>4. Sim(m) /\ m.mode = "waiting" /\ m.client = c.client /\ m.tools = c.tools /\ m.buffer = c.buffer
  BY <1>2, ModeChanges
<1> HIDE DEF m
<1>5. Silent(s, m)
  BY <1>3, <1>4, SameIsSilent, SilentSilent
<1>6. Sim(u) /\ Silent(s, u) /\ u.buffer = s.buffer /\ u.mode # "abandoned"
  BY <1>2, <1>4, <1>5, SameIsSilent
<1> HIDE DEF u
<1>7. Told(u, T) /\ Words(u.client) = Words(s.client)
  BY <1>6, SilentTold
<1>8. u.buffer \in Seq(Pieces) /\ b \in Seq(Pieces)
  BY <1>6 DEF Sim, Pipes
<1>9. InOrder(b) /\ Range(b) = Range(u.buffer) \cup {piece}
  <2>1. \A q \in Range(u.buffer) : q.n < piece.n
    BY <1>7 DEF Told
  <2> QED BY <1>7, <1>8, <2>1, OneMore DEF Told
<1> HIDE DEF b
<1>10. t.client = u.client /\ t.tools = u.tools /\ t.buffer = b /\ t.mode = u.mode
  BY <1>1, <1>6, <1>8, BufferChanges
<1>11. Silent(s, t)
  BY <1>6, <1>10, SameIsSilent, SilentSilent
<1>12. Told(t, T \cup {piece})
  BY <1>7, <1>9, <1>10 DEF Told
<1> QED BY <1>6, <1>7, <1>10, <1>11, <1>12 DEF t

(* A piece of text more is told, or kept back, and no tag among what is told *)
(* before the text is too long.                                             *)
LEMMA ContentTells ==
    ASSUME NEW s, Sim(s), Held(s), s.started, NEW piece \in Pieces,
           NEW T, Told(s, T), NoTags(s), \A q \in T : q.n < piece.n
    PROVE  LET t == Content(s, piece) IN
           CallsSame(s, t) /\ Told(t, T \cup {piece}) /\ NoTags(t)
<1> DEFINE c == CloseTextBlock(s)
           t == IF s.text.kind = "text" THEN s ELSE c
           b == Buffered(t, piece)
           f == FlushAsPlainText(b)
           g == Say(t, "text", <<piece>>)
           m1 == [f EXCEPT !.mode = "abandoned"]
           m2 == [f EXCEPT !.mode = "streaming"]
           x == Content(s, piece)
<1>1. \/ (t.mode = "abandoned" \/ (t.mode = "streaming" /\ piece.mark = "plain")) /\ x = g
      \/ t.mode # "abandoned" /\ (x = m1 \/ (x = m2 /\ ~Marked(b.buffer)) \/ x = b)
  BY DEF Content
<1>2. /\ Sim(c) /\ c.started /\ c.mode = s.mode /\ c.buffer = s.buffer /\ c.text = NoBlock
      /\ Still(s, c) /\ c.tools = s.tools
  BY CloseKeeps
<1>3. Silent(s, c) /\ Silent(s, s)
  BY <1>2, StillIsSilent, SameIsSilent
<1> HIDE DEF c
<1>4. Sim(t) /\ t.started /\ Held(t) /\ Silent(s, t) /\ t.buffer = s.buffer /\ t.mode = s.mode
  BY <1>2, <1>3 DEF Held, NoBlock
<1> HIDE DEF t, x
<1>5. Told(t, T) /\ NoTags(t) /\ CallsSame(s, t)
  BY <1>4, SilentTold DEF Silent
<1>6. ASSUME NEW u, NEW v, CallsSame(s, u), CallsSame(u, v) PROVE CallsSame(s, v)
  BY <1>6 DEF CallsSame
<1>7. CASE (t.mode = "abandoned" \/ (t.mode = "streaming" /\ piece.mark = "plain")) /\ x = g
  <2>1. <<piece>> \in Seq(Pieces) /\ InOrder(<<piece>>) /\ Range(<<piece>>) = {piece}
    BY OnePiece
  <2>2. t.buffer = <<>> /\ Words(t.client) = T
    BY <1>4, <1>5, <1>7, NoPiece DEF Held, Told
  <2>3. g.mode = t.mode /\ g.buffer = t.buffer
    BY <1>4, <2>1, SayKeeps
  <2>4. /\ CallsSame(t, g) /\ TextInOrder(g.client)
        /\ Words(g.client) = Words(t.client) \cup Range(<<piece>>)
    <3>1. \A p \in Words(t.client), q \in Range(<<piece>>) : p.n < q.n
      BY <2>1, <2>2
    <3> QED BY <1>4, <1>5, <2>1, <3>1, SayTells DEF Told
  <2> HIDE DEF g
  <2>5. Told(g, T \cup {piece})
    BY <2>1, <2>2, <2>3, <2>4, NoPiece DEF Told
  <2>6. NoTags(g)
    BY <1>5, <1>7, <2>1, <2>2, <2>3, <2>4 DEF NoTags
  <2> QED BY <1>5, <1>6, <1>7, <2>4, <2>5, <2>6 DEF x
<1>8. CASE t.mode # "abandoned" /\ (x = m1 \/ (x = m2 /\ ~Marked(b.buffer)) \/ x = b)
  <2>1. Sim(b) /\ b.started /\ Held(b)
    BY <1>4, <1>8, BufferedKeeps
  <2>2. /\ CallsSame(t, b) /\ Told(b, T \cup {piece}) /\ b.mode # "abandoned"
        /\ Words(b.client) = Words(t.client)
    BY <1>4, <1>5, <1>8, BufferedTells DEF Silent
  <2> HIDE DEF b
  <2>3. Sim(f) /\ f.buffer = <<>>
    BY <2>1, FlushKeeps
  <2>4. CallsSame(b, f) /\ Told(f, T \cup {piece}) /\ Words(f.client) = Words(b.client) \cup Range(b.buffer)
    BY <2>1, <2>2, FlushTells
  <2> HIDE DEF f
  <2>5. CallsSame(s, b) /\ CallsSame(s, f)
    BY <1>5, <1>6, <2>2, <2>4
  <2>6. m1.client = f.client /\ m1.tools = f.tools /\ m1.mode = "abandoned" /\ m1.buffer = f.buffer
    BY <2>3, ModeChanges
  <2>7. m2.client = f.client /\ m2.tools = f.tools /\ m2.mode = "streaming" /\ m2.buffer = f.buffer
    BY <2>3, ModeChanges
  <2> HIDE DEF m1, m2
  <2>8. CallsSame(s, m1) /\ Told(m1, T \cup {piece}) /\ NoTags(m1)
    BY <2>4, <2>5, <2>6 DEF CallsSame, Body, Told, NoTags
  <2>9. CallsSame(s, m2) /\ Told(m2, T \cup {piece})
    BY <2>4, <2>5, <2>7 DEF CallsSame, Body, Told
  <2>10. NoTags(b)
    BY <1>5, <1>8, <2>2 DEF NoTags
  <2>11. ~Marked(b.buffer) => NoTags(m2)
    <3>1. ~Marked(b.buffer) => \A p \in Range(b.buffer) : p.mark = "plain"
      BY DEF Marked, Range
    <3> QED BY <1>5, <1>8, <2>2, <2>4, <2>7, <3>1 DEF NoTags
  <2>12. CallsSame(s, x) /\ Told(x, T \cup {piece}) /\ NoTags(x)
    BY <1>8, <2>2, <2>5, <2>8, <2>9, <2>10, <2>11
  <2> QED BY <2>12 DEF x
<1> QED BY <1>1, <1>7, <1>8

(* Reasoning says no text. *)
LEMMA ReasonedIsSilent ==
    ASSUME NEW s, Sim(s), NEW chunk, NEW n \in Nat
    PROVE  LET t == Reasoned(s, chunk, n) IN
           Silent(s, t) /\ t.buffer = s.buffer /\ t.mode = s.mode
<1> DEFINE b == EnsureStart(s)
           p == <<[n |-> n, mark |-> "plain"]>>
           u == Say(b, "thinking", p)
           t == Reasoned(s, chunk, n)
<1>1. Sim(b) /\ b.started /\ b.mode = s.mode /\ b.buffer = s.buffer /\ Still(s, b) /\ b.tools = s.tools
  BY StartKeeps
<1>2. p \in Seq(Pieces)
  BY DEF Pieces
<1>3. t = IF chunk.reasoning THEN u ELSE s
  BY DEF Reasoned
<1> HIDE DEF b, p, t
<1>4. u.mode = b.mode /\ u.buffer = b.buffer /\ Silent(b, u)
  BY <1>1, <1>2, SayKeeps, ThinkingIsSilent
<1> HIDE DEF u
<1>5. Silent(s, u) /\ Silent(s, s)
  BY <1>1, <1>4, StillIsSilent, SilentSilent, SameIsSilent
<1> QED BY <1>1, <1>3, <1>4, <1>5 DEF t

Given(s, c) == IF c \in DOMAIN s.tools THEN Body(s, s.tools[c]) ELSE <<>>

(* A fragment is added to the block of its call, and to no other.            *)
LEMMA CallAdds ==
    ASSUME NEW s, Sim(s), NEW call \in Nat, NEW n \in Nat
    PROVE  LET t == Call(s, call, n) IN
           /\ Quiet(s, t) /\ DOMAIN t.tools = DOMAIN s.tools \cup {call}
           /\ \A c \in DOMAIN s.tools \ {call} : Given(t, c) = Given(s, c)
           /\ Given(t, call) = Given(s, call) \o <<[n |-> n, mark |-> "plain"]>>
<1> DEFINE pieces == <<[n |-> n, mark |-> "plain"]>>
           b == EnsureStart(s)
           c == CloseTextBlock(b)
           o == IF call \in DOMAIN b.tools THEN b ELSE OpenCall(c, call)
           t == Call(s, call, n)
<1>1. pieces \in Seq(Pieces)
  BY DEF Pieces
<1>2. Sim(b) /\ b.started /\ b.tools = s.tools /\ Still(s, b)
  BY StartKeeps
<1>3. t = Yield(o, Delta(o.tools[call], "tool_use", pieces))
  BY DEF Call, OpenCall
<1> HIDE DEF b, pieces, t
<1>4. Sim(c) /\ c.started /\ c.text = NoBlock /\ c.tools = b.tools /\ Still(b, c)
  BY <1>2, CloseKeeps
<1> HIDE DEF c
<1>5. Still(s, c)
  BY <1>2, <1>4, StillStill
<1>6. call \notin DOMAIN s.tools =>
         Sim(o) /\ o.started /\ call \in DOMAIN o.tools /\ o.tools = Put(s.tools, call, c.next) /\ Still(c, o)
  BY <1>2, <1>4, OpenCallKeeps
<1>7. call \in DOMAIN s.tools => o = b
  BY <1>2
<1> HIDE DEF o
<1>8. Sim(o) /\ o.started /\ call \in DOMAIN o.tools /\ Still(s, o)
  <2>1. call \notin DOMAIN s.tools => Still(s, o)
    BY <1>5, <1>6, StillStill
  <2> QED BY <1>2, <1>6, <1>7, <2>1
<1>9. \A j : Body(o, j) = Body(s, j)
  BY <1>8 DEF Still, KindsStay, Body
<1>10. Sim(t) /\ t.tools = o.tools /\ Grows(o, t, o.tools[call], pieces)
  BY <1>1, <1>3, <1>8, FragmentKeeps
<1>11. /\ DOMAIN o.tools = DOMAIN s.tools \cup {call}
       /\ \A d \in DOMAIN s.tools : o.tools[d] = s.tools[d]
  <2>1. CASE call \in DOMAIN s.tools
    BY <1>2, <1>7, <2>1
  <2>2. CASE call \notin DOMAIN s.tools
    BY <1>6, <2>2 DEF Put
  <2> QED BY <2>1, <2>2
<1>12. \A d \in DOMAIN o.tools : d # call => o.tools[d] # o.tools[call]
  BY <1>8 DEF Sim, IsInjective
<1>13. /\ o.tools[call] \in DOMAIN t.client.blocks
       /\ t.client.blocks[o.tools[call]].kind = "tool_use"
  BY <1>8, <1>10 DEF Sim, Follows, Shown
<1>14. \A d \in DOMAIN o.tools : d # call => Body(t, o.tools[d]) = Body(o, o.tools[d])
  BY <1>10, <1>12 DEF Grows, KindsStay, Body
<1>15. Body(t, o.tools[call]) = Body(o, o.tools[call]) \o pieces
  BY <1>10, <1>13 DEF Grows, Body
<1>16. Body(s, o.tools[call]) = Given(s, call)
  <2>1. CASE call \in DOMAIN s.tools
    BY <1>11, <2>1 DEF Given
  <2>2. CASE call \notin DOMAIN s.tools
    <3>1. o.tools[call] = c.next
      BY <1>6, <2>2 DEF Put
    <3>2. c.next \in Nat /\ ~(c.next < c.next)
      BY <1>4 DEF Sim, Pipes
    <3>3. c.next \notin DOMAIN c.client.blocks
      BY <1>4, <3>2 DEF Sim, Follows
    <3>4. c.next \notin DOMAIN s.client.blocks
      BY <1>5, <3>3 DEF Still, KindsStay
    <3> QED BY <2>2, <3>1, <3>4 DEF Given, Body
  <2> QED BY <2>1, <2>2
<1>17. Quiet(s, t)
  <2>1. o.tools[call] \notin TextBlocks(t.client)
    BY <1>13 DEF TextBlocks
  <2>2. Quiet(o, t) /\ Quiet(s, o)
    BY <1>8, <1>10, <2>1, GrowsIsQuiet, StillIsQuiet
  <2> QED BY <2>2, QuietQuiet
<1>18. \A d \in DOMAIN s.tools \ {call} : Given(t, d) = Given(s, d)
  BY <1>9, <1>10, <1>11, <1>14 DEF Given
<1>19. Given(t, call) = Given(s, call) \o pieces
  BY <1>8, <1>9, <1>10, <1>15, <1>16 DEF Given
<1> QED BY <1>10, <1>11, <1>17, <1>18, <1>19 DEF t, pieces

(* The blocks of the calls have fragments of K only, in order; and those of K *)
(* that were not dropped.                                                   *)
Called(s, K) ==
    \A c \in DOMAIN s.tools :
       InOrder(Given(s, c)) /\ \A p \in Range(Given(s, c)) : [n |-> p.n, call |-> c] \in K

Complete(s, K, D) ==
    \A f \in K : f.n \notin D =>
       f.call \in DOMAIN s.tools /\ \E p \in Range(Given(s, f.call)) : p.n = f.n

LEMMA SameCalls ==
    ASSUME NEW s, NEW t, NEW K, NEW D, CallsSame(s, t)
    PROVE  (Called(s, K) => Called(t, K)) /\ (Complete(s, K, D) => Complete(t, K, D))
<1>1. DOMAIN t.tools = DOMAIN s.tools /\ \A c : Given(t, c) = Given(s, c)
  BY DEF CallsSame, Given
<1> QED BY <1>1 DEF Called, Complete

LEMMA CallTells ==
    ASSUME NEW s, Sim(s), NEW call \in Nat, NEW n \in Nat, NEW K, NEW D, Called(s, K), Complete(s, K, D),
           \A f \in K : f.call = call => f.n < n
    PROVE  LET t == Call(s, call, n)
               L == K \cup {[n |-> n, call |-> call]}
           IN  Called(t, L) /\ Complete(t, L, D)
<1> DEFINE new == [n |-> n, mark |-> "plain"]
           f == [n |-> n, call |-> call]
           L == K \cup {f}
           t == Call(s, call, n)
<1>1. /\ DOMAIN t.tools = DOMAIN s.tools \cup {call}
      /\ \A c \in DOMAIN s.tools \ {call} : Given(t, c) = Given(s, c)
      /\ Given(t, call) = Given(s, call) \o <<new>>
  BY CallAdds
<1> HIDE DEF t
<1>2. new \in Pieces /\ new.n = n
  BY DEF Pieces
<1>3. Given(s, call) \in Seq(Pieces)
  <2>1. s \in Pipes /\ \A i \in DOMAIN s.client.blocks : s.client.blocks[i].pieces \in Seq(Pieces)
    BY ClientBlockIs DEF Sim
  <2> QED BY <2>1, NoPiece DEF Given, Body
<1>4. InOrder(Given(s, call)) /\ \A p \in Range(Given(s, call)) : [n |-> p.n, call |-> call] \in K
  BY NoPiece DEF Called, Given
<1>5. \A p \in Range(Given(s, call)) : p.n < n
  <2> SUFFICES ASSUME NEW p \in Range(Given(s, call)) PROVE p.n < n
    OBVIOUS
  <2>1. [n |-> p.n, call |-> call] \in K
    BY <1>4
  <2> QED BY <2>1
<1> HIDE DEF new
<1>6. InOrder(Given(t, call)) /\ Range(Given(t, call)) = Range(Given(s, call)) \cup {new}
  <2>1. <<new>> \in Seq(Pieces) /\ InOrder(<<new>>) /\ Range(<<new>>) = {new}
    BY <1>2, OnePiece
  <2>2. \A p \in Range(Given(s, call)), q \in Range(<<new>>) : p.n < q.n
    BY <1>2, <1>5, <2>1
  <2> QED BY <1>1, <1>3, <1>4, <2>1, <2>2, Joined
<1>7. Called(t, L)
  <2> SUFFICES ASSUME NEW c \in DOMAIN t.tools
               PROVE  InOrder(Given(t, c)) /\ \A p \in Range(Given(t, c)) : [n |-> p.n, call |-> c] \in L
    BY DEF Called
  <2>1. CASE c = call
    BY <1>2, <1>4, <1>6, <2>1
  <2>2. CASE c # call
    BY <1>1, <2>2 DEF Called
  <2> QED BY <2>1, <2>2
<1>8. Complete(t, L, D)
  <2> SUFFICES ASSUME NEW g \in L, g.n \notin D
               PROVE  g.call \in DOMAIN t.tools /\ \E p \in Range(Given(t, g.call)) : p.n = g.n
    BY DEF Complete
  <2>1. CASE g = f
    BY <1>1, <1>2, <1>6, <2>1
  <2>2. CASE g \in K
    <3>1. g.call \in DOMAIN s.tools /\ \E p \in Range(Given(s, g.call)) : p.n = g.n
      BY <2>2 DEF Complete
    <3>2. g.call \in DOMAIN t.tools /\ Range(Given(s, g.call)) \subseteq Range(Given(t, g.call))
      BY <1>1, <1>6, <3>1
    <3> QED BY <3>1, <3>2
  <2> QED BY <2>1, <2>2
<1> QED BY <1>7, <1>8 DEF t

(* All the fragments of a chunk. *)
Sent(n, fragments) == {[n |-> n, call |-> c] : c \in Range(fragments)}

Fed(s, fragments, i, n, K, D) ==
    {u \in Pipes :
       /\ Sim(u) /\ Quiet(s, u) /\ u.buffer = s.buffer /\ u.mode = s.mode
       /\ Called(u, K \cup {[n |-> n, call |-> fragments[j]] : j \in 1 .. i})
       /\ Complete(u, K \cup {[n |-> n, call |-> fragments[j]] : j \in 1 .. i}, D)}

LEMMA CallsTell ==
    ASSUME NEW s, Sim(s), Held(s), NEW fragments \in Seq(Nat), IsInjective(fragments), NEW n \in Nat,
           NEW K, NEW D, Called(s, K), Complete(s, K, D), \A f \in K : f.n < n
    PROVE  LET t == CallsOf(s, fragments, n)
               L == K \cup Sent(n, fragments)
           IN  /\ Quiet(s, t) /\ t.buffer = s.buffer /\ t.mode = s.mode
               /\ Called(t, L) /\ Complete(t, L, D)
<1> DEFINE len == Len(fragments)
           Upto(i) == K \cup {[n |-> n, call |-> fragments[j]] : j \in 1 .. i}
           X == [i \in 0 .. len |-> Fed(s, fragments, i, n, K, D)]
<1>1. len \in Nat /\ (\A i \in 1 .. len : fragments[i] \in Nat) /\ DOMAIN fragments = 1 .. len
  OBVIOUS
<1>2. PICK g : CallWalk(g, s, fragments, n)
  BY CallsWalk
<1>3. /\ g[0] = s /\ g[len] = CallsOf(s, fragments, n)
      /\ \A i \in 1 .. len : g[i] = Call(g[i - 1], fragments[i], n)
      /\ \A i \in 0 .. len : Sim(g[i]) /\ Held(g[i])
  BY <1>2 DEF CallWalk
<1> HIDE DEF len
<1>4. g[0] \in X[0]
  <2>1. Upto(0) = K
    OBVIOUS
  <2>2. s \in Pipes /\ Quiet(s, s)
    BY StillIsQuiet DEF Sim, Still, KindsStay, Body
  <2> HIDE DEF Upto
  <2>3. s \in Fed(s, fragments, 0, n, K, D)
    BY <2>1, <2>2 DEF Fed, Upto
  <2> QED BY <1>1, <1>3, <2>3
<1>5. \A i \in 1 .. len : g[i - 1] \in X[i - 1] => g[i] \in X[i]
  <2> SUFFICES ASSUME NEW i \in 1 .. len, g[i - 1] \in X[i - 1] PROVE g[i] \in X[i]
    OBVIOUS
  <2> DEFINE u == g[i - 1]
             t == Call(u, fragments[i], n)
  <2>1. i - 1 \in 0 .. len /\ i \in 0 .. len
    BY <1>1
  <2>2. u \in Fed(s, fragments, i - 1, n, K, D)
    BY <2>1
  <2>3. g[i] = t /\ fragments[i] \in Nat
    BY <1>1, <1>3
  <2> HIDE DEF u
  <2>4. /\ Sim(u) /\ Quiet(s, u) /\ u.buffer = s.buffer /\ u.mode = s.mode
        /\ Called(u, Upto(i - 1)) /\ Complete(u, Upto(i - 1), D)
    BY <2>2 DEF Fed
  <2>5. Upto(i) = Upto(i - 1) \cup {[n |-> n, call |-> fragments[i]]}
    <3>1. \A j : j \in 1 .. i <=> j \in 1 .. (i - 1) \/ j = i
      BY <1>1
    <3> QED BY <3>1
  <2>6. \A f \in Upto(i - 1) : f.call = fragments[i] => f.n < n
    <3>1. \A j \in 1 .. (i - 1) : j # i /\ j \in DOMAIN fragments /\ i \in DOMAIN fragments
      BY <1>1
    <3>2. \A j \in 1 .. (i - 1) : fragments[j] # fragments[i]
      BY <3>1 DEF IsInjective
    <3> QED BY <3>2
  <2> HIDE DEF Upto
  <2>7. Called(t, Upto(i)) /\ Complete(t, Upto(i), D)
    <3> DEFINE W == Upto(i - 1)
               c == fragments[i]
    <3>1. \A f \in W : f.call = c => f.n < n
      BY <2>6
    <3>2. c \in Nat /\ Called(u, W) /\ Complete(u, W, D)
      BY <2>3, <2>4
    <3> HIDE DEF W, c
    <3>3. LET v == Call(u, c, n)
              L == W \cup {[n |-> n, call |-> c]}
          IN  Called(v, L) /\ Complete(v, L, D)
      BY <2>4, <3>1, <3>2, CallTells
    <3> QED BY <2>5, <3>3 DEF W, c
  <2>8. Sim(t) /\ t.buffer = u.buffer /\ t.mode = u.mode /\ Quiet(u, t)
    BY <2>3, <2>4, CallKeeps, CallAdds
  <2> HIDE DEF t
  <2>9. Quiet(s, t) /\ t \in Pipes
    BY <2>4, <2>8, QuietQuiet DEF Sim
  <2>10. t \in Fed(s, fragments, i, n, K, D)
    BY <2>4, <2>7, <2>8, <2>9 DEF Fed, Upto
  <2> QED BY <2>1, <2>3, <2>10
<1> HIDE DEF X
<1>6. \A i \in 0 .. len : g[i] \in X[i]
  BY <1>1, <1>4, <1>5, StepsStay
<1>7. g[len] \in Fed(s, fragments, len, n, K, D)
  BY <1>1, <1>6 DEF X
<1>8. Upto(len) = K \cup Sent(n, fragments)
  BY <1>1 DEF Sent, Range
<1> QED BY <1>3, <1>7, <1>8 DEF Fed

(* The kept-back text is told at the end, as far as parsing left it. *)
LEMMA ParsedTells ==
    ASSUME NEW s, Sim(s), s.started, s.text.kind # "text", NEW T, Told(s, T), NEW parsing,
           Left(s.buffer, parsing.text)
    PROVE  LET t == Parsed(s, parsing) IN
           /\ CallsSame(s, t) /\ t.mode = s.mode /\ TextInOrder(t.client)
           /\ Words(t.client) = Words(s.client) \cup Range(parsing.text)
<1> DEFINE b == CloseTextBlock(s)
           p == OpenBlock(b, "text")
           o == IF parsing.call THEN p ELSE b
           y == Say(o, "text", parsing.text)
           z == CloseTextBlock(y)
           u == IF parsing.text = <<>> THEN b ELSE z
           l == Yield(Yield([u EXCEPT !.next = @ + 1], Start(u.next, "tool_use")), Stop(u.next))
           t == Parsed(s, parsing)
<1>0. parsing.text \in Seq(Pieces) /\ InOrder(parsing.text) /\ Range(parsing.text) \subseteq Range(s.buffer)
  BY DEF Left
<1>1. t = IF ~parsing.call THEN u ELSE l
  BY DEF Parsed
<1> HIDE DEF t
<1>2. Sim(b) /\ b.started /\ b.text = NoBlock /\ Still(s, b) /\ b.tools = s.tools /\ b.mode = s.mode
  BY CloseKeeps
<1> HIDE DEF b
<1>3. Sim(p) /\ p.started /\ Still(b, p) /\ p.tools = b.tools /\ p.mode = b.mode
  BY <1>2, OpenKeeps
<1> HIDE DEF p
<1>4. Sim(o) /\ o.started /\ Silent(s, o) /\ o.mode = s.mode
  <2>1. Still(s, p)
    BY <1>2, <1>3, StillStill
  <2> QED BY <1>2, <1>3, <2>1, StillIsSilent
<1> HIDE DEF o
<1>5. Words(o.client) = Words(s.client) /\ TextInOrder(o.client)
  BY <1>4, QuietWords DEF Silent, Told
<1>6. Sim(y) /\ y.started /\ y.mode = o.mode
  BY <1>0, <1>4, SayKeeps
<1>7. CallsSame(o, y) /\ TextInOrder(y.client) /\ Words(y.client) = Words(o.client) \cup Range(parsing.text)
  <2>1. \A v \in Words(o.client), q \in Range(parsing.text) : v.n < q.n
    BY <1>0, <1>5 DEF Told
  <2> QED BY <1>0, <1>4, <1>5, <2>1, SayTells
<1> HIDE DEF y
<1>8. Sim(z) /\ z.started /\ z.text = NoBlock /\ z.mode = y.mode /\ Silent(y, z)
  BY <1>6, CloseKeeps, StillIsSilent
<1> HIDE DEF z
<1>9. /\ Sim(u) /\ u.started /\ u.text = NoBlock /\ u.mode = s.mode
      /\ CallsSame(s, u) /\ TextInOrder(u.client) /\ Words(u.client) = Words(s.client) \cup Range(parsing.text)
  <2>1. CASE parsing.text = <<>>
    <3>1. Silent(s, b)
      BY <1>2, StillIsSilent
    <3>2. Words(b.client) = Words(s.client) /\ TextInOrder(b.client) /\ CallsSame(s, b)
      BY <3>1, QuietWords DEF Silent, Told
    <3> QED BY <1>2, <2>1, <3>2, NoPiece
  <2>2. CASE parsing.text # <<>>
    <3>1. Words(z.client) = Words(y.client) /\ TextInOrder(z.client)
      BY <1>7, <1>8, QuietWords DEF Silent
    <3>2. CallsSame(s, z)
      BY <1>4, <1>7, <1>8 DEF Silent, CallsSame
    <3> QED BY <1>4, <1>5, <1>6, <1>7, <1>8, <2>2, <3>1, <3>2
  <2> QED BY <2>1, <2>2
<1> HIDE DEF u
<1>10. Silent(u, l) /\ l.mode = u.mode
  BY <1>9, LeakedKeeps, StillIsSilent
<1> HIDE DEF l
<1>11. Words(l.client) = Words(u.client) /\ TextInOrder(l.client) /\ CallsSame(s, l)
  BY <1>9, <1>10, QuietWords DEF Silent, CallsSame
<1> QED BY <1>1, <1>9, <1>10, <1>11 DEF t

(* What the client was told in the end. *)
ToldAll(s, T) ==
    /\ TextInOrder(s.client) /\ Words(s.client) \subseteq T
    /\ \A p \in T \ Words(s.client) : TakenOut(p, Words(s.client), T)

LEMMA FinishTells ==
    ASSUME NEW s, Sim(s), Held(s), NEW T \in SUBSET Pieces, Told(s, T), NEW parsing,
           Left(s.buffer, parsing.text)
    PROVE  LET t == FinishMessage(s, parsing) IN ToldAll(t, T) /\ CallsSame(s, t)
<1> DEFINE b == EnsureStart(s)
           p == Parsed(b, parsing)
           m == BeforeStops(s, parsing)
           t == FinishMessage(s, parsing)
<1>0. s.buffer \in Seq(Pieces)
  BY DEF Sim, Pipes
<1>1. Still(m, t) /\ t.tools = m.tools /\ t.mode = m.mode
  BY FinishEnds DEF Left
<1>2. m = IF s.buffer = <<>> THEN b ELSE p
  BY DEF BeforeStops
<1> HIDE DEF m, t
<1>3. /\ Sim(b) /\ b.started /\ Still(s, b) /\ b.tools = s.tools /\ b.text = s.text
      /\ b.buffer = s.buffer /\ b.mode = s.mode
  BY StartKeeps
<1> HIDE DEF b
<1>4. Silent(s, b)
  BY <1>3, StillIsSilent
<1>5. Told(b, T) /\ Words(b.client) = Words(s.client) /\ CallsSame(s, b)
  BY <1>3, <1>4, SilentTold DEF Silent
<1>6. ToldAll(m, T) /\ CallsSame(s, m)
  <2>1. CASE s.buffer = <<>>
    BY <1>2, <1>3, <1>5, <2>1, NoPiece DEF Told, ToldAll
  <2>2. CASE s.buffer # <<>>
    <3>1. b.text.kind # "text" /\ b.mode # "abandoned"
      BY <1>3, <2>2 DEF Held, Sim, Pipes
    <3>2. /\ CallsSame(b, p) /\ p.mode = b.mode /\ TextInOrder(p.client)
          /\ Words(p.client) = Words(b.client) \cup Range(parsing.text)
      BY <1>3, <1>5, <3>1, ParsedTells
    <3> HIDE DEF p
    <3>3. CallsSame(s, p)
      BY <1>5, <3>2 DEF CallsSame
    <3>4. Words(p.client) \subseteq T
      BY <1>3, <1>5, <3>2 DEF Left, Told
    <3>5. \A v \in T \ Words(p.client) : TakenOut(v, Words(p.client), T)
      <4> SUFFICES ASSUME NEW v \in T \ Words(p.client) PROVE TakenOut(v, Words(p.client), T)
        OBVIOUS
      <4>1. v \in Range(s.buffer) \ Range(parsing.text)
        BY <1>3, <1>5, <3>2 DEF Told
      <4>2. Range(s.buffer) \subseteq T /\ \A q \in Words(s.client), a \in Range(s.buffer) : q.n < a.n
        BY DEF Told
      <4>3. PICK a \in Range(s.buffer) :
               /\ a.mark = "tag" /\ a.n <= v.n
               /\ \A q \in Range(s.buffer) : a.n < q.n /\ q.n <= v.n => q \notin Range(parsing.text)
        BY <4>1 DEF Left, TakenOut
      <4>4. ASSUME NEW q \in T, a.n < q.n, q.n <= v.n PROVE q \notin Words(p.client)
        <5>1. q.n \in Nat /\ a.n \in Nat
          BY <4>2 DEF Pieces
        <5>2. q \notin Words(s.client)
          BY <4>2, <4>4, <5>1
        <5>3. q \notin Range(parsing.text)
          BY <4>3, <4>4 DEF Left
        <5> QED BY <1>5, <3>2, <5>2, <5>3
      <4> QED BY <4>2, <4>3, <4>4 DEF TakenOut
    <3> QED BY <1>2, <2>2, <3>2, <3>3, <3>4, <3>5 DEF ToldAll
  <2> QED BY <2>1, <2>2
<1>7. Silent(m, t)
  BY <1>1, StillIsSilent
<1>8. Words(t.client) = Words(m.client) /\ TextInOrder(t.client) /\ CallsSame(s, t)
  BY <1>6, <1>7, QuietWords DEF Silent, CallsSame, ToldAll
<1>9. ToldAll(t, T)
  BY <1>1, <1>6, <1>8 DEF ToldAll
<1> QED BY <1>8, <1>9 DEF t

(* One chunk: its text is told or kept back, and its calls are told unless   *)
(* they are dropped.                                                        *)
LEMMA ConvertTells ==
    ASSUME NEW s, Sim(s), Held(s), NEW chunk \in Chunks, NEW n \in Nat,
           NEW T, Told(s, T), NoTags(s), \A q \in T : q.n < n,
           NEW K, NEW D, Called(s, K), Complete(s, K, D), \A f \in K : f.n < n
    PROVE  LET piece == [n |-> n, mark |-> chunk.text]
               t == Convert(s, chunk, n)
               L == K \cup Sent(n, chunk.calls)
               E == IF chunk.text # NoText /\ PassedOn(Reasoned(s, chunk, n), piece) THEN D \cup {n} ELSE D
           IN  /\ Told(t, IF chunk.text = NoText THEN T ELSE T \cup {piece}) /\ NoTags(t)
               /\ Called(t, L) /\ Complete(t, L, E)
<1> DEFINE piece == [n |-> n, mark |-> chunk.text]
           r == Reasoned(s, chunk, n)
           b == EnsureStart(r)
           c == Content(b, piece)
           t == Convert(s, chunk, n)
           L == K \cup Sent(n, chunk.calls)
           U == T \cup {piece}
           x == CallsOf(r, chunk.calls, n)
           y == CallsOf(c, chunk.calls, n)
<1>1. chunk.calls \in Seq(Nat) /\ (chunk.text # NoText => piece \in Pieces) /\ IsInjective(chunk.calls)
  BY StreamAssumption, OneFragmentEach DEF Pieces, NoText
<1>2. Sim(r) /\ Held(r) /\ Silent(s, r) /\ r.buffer = s.buffer /\ r.mode = s.mode
  BY ReasonedKeeps, ReasonedIsSilent
<1>3. t = IF chunk.text = NoText THEN x ELSE IF PassedOn(r, piece) THEN c ELSE y
  BY DEF Convert
<1>4. Told(r, T) /\ NoTags(r) /\ Called(r, K) /\ Complete(r, K, D)
  <2> HIDE DEF r
  <2> QED BY <1>2, SilentTold, SameCalls DEF Silent
<1>5. r = Reasoned(s, chunk, n)
  OBVIOUS
<1>6. piece.n = n
  OBVIOUS
<1> HIDE DEF r, t, piece
<1>7. Sim(b) /\ b.started /\ Held(b) /\ Told(b, T) /\ NoTags(b) /\ Called(b, K) /\ Complete(b, K, D)
  <2>1. /\ Sim(b) /\ b.started /\ b.mode = r.mode /\ b.buffer = r.buffer /\ b.text = r.text
        /\ Still(r, b) /\ b.tools = r.tools
    BY <1>2, StartKeeps
  <2> HIDE DEF b
  <2>2. Silent(r, b)
    BY <2>1, StillIsSilent
  <2>3. Held(b)
    BY <1>2, <2>1 DEF Held
  <2> QED BY <1>4, <2>1, <2>2, <2>3, SilentTold, SameCalls DEF Silent
<1> HIDE DEF b
<1>8. ASSUME chunk.text # NoText
      PROVE  Sim(c) /\ Held(c) /\ Told(c, U) /\ NoTags(c) /\ Called(c, K) /\ Complete(c, K, D)
  <2>1. Sim(c) /\ Held(c)
    BY <1>1, <1>7, <1>8, ContentKeeps
  <2>2. CallsSame(b, c) /\ Told(c, U) /\ NoTags(c)
    BY <1>1, <1>6, <1>7, <1>8, ContentTells
  <2> HIDE DEF c, U
  <2> QED BY <1>7, <2>1, <2>2, SameCalls
<1> HIDE DEF c
<1>9. ASSUME NEW u, NEW V, Sim(u), Held(u), Told(u, V), NoTags(u), Called(u, K), Complete(u, K, D)
      PROVE  LET v == CallsOf(u, chunk.calls, n) IN
             Told(v, V) /\ NoTags(v) /\ Called(v, L) /\ Complete(v, L, D)
  <2> DEFINE v == CallsOf(u, chunk.calls, n)
  <2>1. /\ Quiet(u, v) /\ v.buffer = u.buffer /\ v.mode = u.mode
        /\ Called(v, L) /\ Complete(v, L, D)
    BY <1>1, <1>9, CallsTell
  <2> HIDE DEF v, L
  <2>2. Told(v, V) /\ NoTags(v)
    BY <1>9, <2>1, QuietTold
  <2> QED BY <2>1, <2>2 DEF v
<1>10. CASE chunk.text = NoText
  <2>1. Told(x, T) /\ NoTags(x) /\ Called(x, L) /\ Complete(x, L, D)
    BY <1>2, <1>4, <1>9
  <2> HIDE DEF x, L
  <2>2. Told(t, T) /\ NoTags(t) /\ Called(t, L) /\ Complete(t, L, D)
    BY <1>3, <1>10, <2>1
  <2> QED BY <1>10, <2>2 DEF t, L
<1>11. CASE chunk.text # NoText /\ PassedOn(r, piece)
  <2>1. t = c
    BY <1>3, <1>11
  <2>2. Told(t, U) /\ NoTags(t) /\ Called(t, K) /\ Complete(t, K, D)
    BY <1>8, <1>11, <2>1
  <2>3. Called(t, L)
    BY <2>2 DEF Called
  <2>4. \A f \in Sent(n, chunk.calls) : f.n = n
    BY DEF Sent
  <2>5. Complete(t, L, D \cup {n})
    BY <2>2, <2>4 DEF Complete
  <2> HIDE DEF L, U
  <2> QED BY <1>11, <2>2, <2>3, <2>5 DEF t, L, U, piece, r
<1>12. CASE chunk.text # NoText /\ ~PassedOn(r, piece)
  <2>1. Told(y, U) /\ NoTags(y) /\ Called(y, L) /\ Complete(y, L, D)
    BY <1>8, <1>9, <1>12
  <2> HIDE DEF y, L, U
  <2>2. Told(t, U) /\ NoTags(t) /\ Called(t, L) /\ Complete(t, L, D)
    BY <1>3, <1>12, <2>1
  <2> QED BY <1>12, <2>2 DEF t, L, U, piece, r
<1> QED BY <1>10, <1>11, <1>12

----------------------------------------------------------------------------
(* What the client was told, in every state.                                *)
Safe(c, T, K) == TextInOrder(c.client) /\ Words(c.client) \subseteq T /\ Called(c, K)

Kept(c, xs, K, D, l, n) ==
    /\ xs \in Seq(Pieces) /\ (\A p \in Range(xs) : p.n <= n)
    /\ \A f \in K : f.n \in Nat /\ f.n <= n
    /\ Safe(c, Range(xs), K)
    /\ l # "done" => NoTags(c)
    /\ l = "reading" => Told(c, Range(xs)) /\ Complete(c, K, D)
    /\ l = "done" => ToldAll(c, Range(xs)) /\ Complete(c, K, D)

KeptInv == StreamInv /\ Kept(conv, texts, calls, dropped, loop, number)

LEMMA MoreIsSafe ==
    ASSUME NEW c, NEW T, NEW K, NEW U, NEW L, Safe(c, T, K), T \subseteq U, K \subseteq L
    PROVE  Safe(c, U, L)
BY DEF Safe, Called

LEMMA ToldIsSafe ==
    ASSUME NEW c, NEW T, NEW K, Told(c, T), Called(c, K)
    PROVE  Safe(c, T, K)
BY DEF Safe, Told

LEMMA KeptStarts == StreamInit => KeptInv
<1> SUFFICES ASSUME StreamInit PROVE KeptInv
  OBVIOUS
<1>1. /\ conv.tools = <<>> /\ conv.buffer = <<>> /\ conv.client = NewClient
      /\ texts = <<>> /\ calls = {} /\ loop = "reading"
  BY DEF StreamInit
<1>2. TextBlocks(conv.client) = {} /\ Words(conv.client) = {}
  BY <1>1 DEF NewClient, TextBlocks, Words
<1>3. Told(conv, {}) /\ NoTags(conv)
  BY <1>1, <1>2, NoPiece DEF Told, NoTags, TextInOrder
<1>4. Called(conv, {}) /\ Complete(conv, {}, dropped)
  BY <1>1 DEF Called, Complete
<1>5. Safe(conv, {}, {})
  BY <1>3, <1>4, ToldIsSafe
<1>6. Range(texts) = {} /\ texts \in Seq(Pieces)
  BY <1>1, NoPiece
<1>7. Kept(conv, texts, calls, dropped, loop, number)
  BY <1>1, <1>3, <1>4, <1>5, <1>6 DEF Kept
<1> QED BY <1>7, StreamStarts DEF KeptInv

LEMMA KeptSteps == KeptInv /\ [StreamNext]_streamVars => KeptInv'
<1> SUFFICES ASSUME KeptInv, [StreamNext]_streamVars PROVE KeptInv'
  OBVIOUS
<1>1. StreamInv /\ StreamInv'
  BY StreamSteps DEF KeptInv
<1>2. /\ Kept(conv, texts, calls, dropped, loop, number)
      /\ texts \in Seq(Pieces) /\ (\A p \in Range(texts) : p.n <= number)
      /\ (\A f \in calls : f.n \in Nat /\ f.n <= number)
      /\ Safe(conv, Range(texts), calls) /\ number \in Nat
  BY <1>1 DEF KeptInv, Kept, StreamInv
<1>3. loop = "reading" => /\ Sim(conv) /\ Held(conv)
                          /\ Told(conv, Range(texts)) /\ Complete(conv, calls, dropped)
                          /\ NoTags(conv) /\ Called(conv, calls)
  BY <1>1, <1>2 DEF StreamInv, Kept, Safe
<1>4. Kept(conv', texts', calls', dropped', loop', number')
  <2>4. ASSUME NEW chunk \in Chunks, TakeChunk(chunk)
        PROVE  Kept(conv', texts', calls', dropped', loop', number')
    <3> DEFINE n == number + 1
               piece == [n |-> n, mark |-> chunk.text]
               t == Convert(conv, chunk, n)
               L == calls \cup Sent(n, chunk.calls)
               T == Range(texts)
               U == IF chunk.text = NoText THEN T ELSE T \cup {piece}
               E == IF chunk.text # NoText /\ PassedOn(Reasoned(conv, chunk, n), piece)
                    THEN dropped \cup {n} ELSE dropped
               xs == IF chunk.text = NoText THEN texts ELSE Append(texts, piece)
    <3>1. loop = "reading" /\ number' = n /\ texts' = xs /\ calls' = L /\ dropped' = E
          /\ Written(t, "reading")
      BY <2>4 DEF TakeChunk, Sent
    <3>2. n \in Nat /\ (chunk.text # NoText => piece \in Pieces) /\ piece.n = n
      BY <1>2, StreamAssumption DEF Pieces, NoText
    <3>3. xs \in Seq(Pieces) /\ Range(xs) = U
      <4>1. CASE chunk.text = NoText
        BY <1>2, <4>1
      <4>2. CASE chunk.text # NoText
        <5> HIDE DEF piece
        <5>1. /\ xs \in Seq(Pieces) /\ Len(texts) \in Nat /\ DOMAIN texts = 1 .. Len(texts)
              /\ DOMAIN xs = 1 .. Len(texts) + 1 /\ xs[Len(texts) + 1] = piece
              /\ \A k \in 1 .. Len(texts) : xs[k] = texts[k]
          BY <1>2, <3>2, <4>2
        <5> HIDE DEF xs
        <5>2. \A k : k \in DOMAIN xs <=> k \in DOMAIN texts \/ k = Len(texts) + 1
          BY <5>1
        <5>3. \A k \in DOMAIN texts : xs[k] = texts[k]
          BY <5>1
        <5>4. Range(xs) = Range(texts) \cup {piece}
          BY <5>1, <5>2, <5>3 DEF Range
        <5> QED BY <4>2, <5>1, <5>4
      <4> QED BY <4>1, <4>2
    <3>4. (\A p \in T : p.n < n) /\ (\A f \in calls : f.n < n)
      <4>1. T \subseteq Pieces
        BY <1>2 DEF Range
      <4>2. \A p \in T : p.n \in Nat
        BY <4>1 DEF Pieces
      <4> QED BY <1>2, <4>2
    <3>5. Told(t, U) /\ NoTags(t) /\ Called(t, L) /\ Complete(t, L, E)
      BY <1>3, <3>1, <3>2, <3>4, ConvertTells
    <3>6. (\A p \in U : p.n <= n) /\ (\A f \in L : f.n \in Nat /\ f.n <= n)
      <4>1. T \subseteq Pieces
        BY <1>2 DEF Range
      <4>2. \A p \in T : p.n \in Nat
        BY <4>1 DEF Pieces
      <4>3. \A f \in Sent(n, chunk.calls) : f.n = n
        BY DEF Sent
      <4>4. \A p \in U : p.n <= n
        BY <1>2, <3>2, <4>2
      <4> QED BY <1>2, <3>2, <4>3, <4>4
    <3>7. T \subseteq U /\ calls \subseteq L
      OBVIOUS
    <3> HIDE DEF t, L, U, E, xs, T, n
    <3>8. CASE loop' = "error" /\ conv' = conv
      <4>1. Safe(conv, U, L)
        BY <1>2, <3>7, MoreIsSafe DEF T
      <4>2. NoTags(conv')
        BY <1>3, <3>1, <3>8
      <4> QED BY <3>1, <3>3, <3>6, <3>8, <4>1, <4>2 DEF Kept
    <3>9. CASE loop' = "reading" /\ conv' = t
      <4>1. Safe(t, U, L)
        BY <3>5, ToldIsSafe
      <4> QED BY <3>1, <3>3, <3>5, <3>6, <3>9, <4>1 DEF Kept
    <3>10. (loop' = "error" /\ conv' = conv) \/ (loop' = "reading" /\ conv' = t)
      BY <3>1 DEF Written
    <3> QED BY <3>8, <3>9, <3>10
  <2>5. CASE SeeDirtyLine
    <3>1. UNCHANGED <<conv, texts, calls, dropped, loop, number>>
      BY <2>5 DEF SeeDirtyLine
    <3> QED BY <1>2, <3>1
  <2>6. CASE EndStream
    <3>1. PICK parsing \in IF conv.buffer = <<>> THEN {[call |-> FALSE, text |-> <<>>]}
                           ELSE Parsings(conv.buffer) :
             Written(FinishMessage(conv, parsing), "done")
      BY <2>6 DEF EndStream
    <3>2. loop = "reading" /\ UNCHANGED <<texts, calls, dropped, number>>
      BY <2>6 DEF EndStream
    <3>3. conv.buffer \in Seq(Pieces) /\ InOrder(conv.buffer)
      BY <1>3, <3>2 DEF Sim, Pipes, Told
    <3>4. Left(conv.buffer, parsing.text)
      <4>1. CASE conv.buffer = <<>>
        <5>1. parsing.text = <<>>
          BY <3>1, <4>1
        <5> QED BY <4>1, <5>1, NoPiece DEF Left
      <4>2. CASE conv.buffer # <<>>
        <5>1. parsing \in Parsings(conv.buffer)
          BY <3>1, <4>2
        <5> QED BY <3>3, <5>1, ParsingIsLeft
      <4> QED BY <4>1, <4>2
    <3> DEFINE t == FinishMessage(conv, parsing)
               T == Range(texts)
    <3>5. ToldAll(t, T) /\ CallsSame(conv, t)
      <4>1. T \in SUBSET Pieces
        BY <1>2 DEF Range
      <4> QED BY <1>3, <3>2, <3>4, <4>1, FinishTells
    <3>6. (loop' = "error" /\ conv' = conv) \/ (loop' = "done" /\ conv' = t)
      BY <3>1 DEF Written
    <3> HIDE DEF t, T
    <3>7. Called(t, calls) /\ Complete(t, calls, dropped)
      BY <1>3, <3>2, <3>5, SameCalls
    <3>8. Safe(t, T, calls)
      BY <3>5, <3>7 DEF Safe, ToldAll
    <3>9. CASE loop' = "error" /\ conv' = conv
      BY <1>2, <3>2, <3>9 DEF Kept
    <3>10. CASE loop' = "done" /\ conv' = t
      BY <1>2, <3>2, <3>5, <3>7, <3>8, <3>10 DEF Kept, T
    <3> QED BY <3>6, <3>9, <3>10
  <2>7. CASE BreakStream
    <3>1. /\ loop = "reading" /\ loop' \in {"cut", "error"}
          /\ UNCHANGED <<conv, texts, calls, dropped, number>>
      BY <2>7 DEF BreakStream
    <3> QED BY <1>2, <1>3, <3>1 DEF Kept
  <2>8. CASE UNCHANGED streamVars
    <3>1. UNCHANGED <<conv, texts, calls, dropped, loop, number>>
      BY <2>8 DEF streamVars
    <3> QED BY <1>2, <3>1
  <2> QED BY <2>4, <2>5, <2>6, <2>7, <2>8 DEF StreamNext
<1> QED BY <1>1, <1>4 DEF KeptInv

LEMMA KeptIsNothingLost == KeptInv => NothingLost
<1> SUFFICES ASSUME KeptInv PROVE NothingLost
  OBVIOUS
<1>1. /\ Safe(conv, Range(texts), calls)
      /\ loop = "done" => ToldAll(conv, Range(texts)) /\ Complete(conv, calls, dropped)
  BY DEF KeptInv, Kept
<1>2. TextKept
  <2>1. loop = "reading" => Told(conv, Range(texts))
    BY DEF KeptInv, Kept
  <2>2. loop # "done" => NoTags(conv)
    BY DEF KeptInv, Kept
  <2> QED BY <1>1, <2>1, <2>2 DEF TextKept, Safe, Told, ToldAll, NoTags, client
<1>3. CallsKept
  <2>1. \A c \in DOMAIN conv.tools : conv.tools[c] \in DOMAIN conv.client.blocks =>
           Given(conv, c) = conv.client.blocks[conv.tools[c]].pieces
    BY DEF Given, Body
  <2>2. ASSUME NEW c \in DOMAIN conv.tools, conv.tools[c] \in DOMAIN conv.client.blocks
        PROVE  LET got == conv.client.blocks[conv.tools[c]].pieces IN
               InOrder(got) /\ \A p \in Range(got) : [n |-> p.n, call |-> c] \in calls
    <3>1. Called(conv, calls)
      BY <1>1 DEF Safe
    <3> QED BY <2>1, <2>2, <3>1 DEF Called
  <2>3. ASSUME loop = "done", NEW f \in calls, f.n \notin dropped
        PROVE  /\ f.call \in DOMAIN conv.tools
               /\ \E p \in Range(conv.client.blocks[conv.tools[f.call]].pieces) : p.n = f.n
    <3>1. f.call \in DOMAIN conv.tools /\ \E p \in Range(Given(conv, f.call)) : p.n = f.n
      BY <1>1, <2>3 DEF Complete
    <3>2. conv.tools[f.call] \in DOMAIN conv.client.blocks
      BY <3>1, NoPiece DEF Given, Body
    <3> QED BY <2>1, <3>1, <3>2
  <2> QED BY <2>2, <2>3 DEF CallsKept, client
<1> QED BY <1>2, <1>3 DEF NothingLost

(* Whatever the chunks and however many, the text of a stream reaches the    *)
(* client in order, once and in the end completely, but for runs that begin  *)
(* at a leaked tag; and so do the fragments of its calls, but for those of a  *)
(* chunk whose text was passed on.                                          *)
THEOREM NothingLostHolds == StreamSpec => []NothingLost
<1>1. StreamInit => KeptInv
  BY KeptStarts
<1>2. KeptInv /\ [StreamNext]_streamVars => KeptInv'
  BY KeptSteps
<1>3. KeptInv => NothingLost
  BY KeptIsNothingLost
<1> QED BY <1>1, <1>2, <1>3, PTL DEF StreamSpec
=============================================================================
