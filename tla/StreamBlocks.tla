---------------------------- MODULE StreamBlocks ----------------------------
(***************************************************************************)
(* The streamed answer of /v1/messages.  The upstream sends OpenAI chunks;  *)
(* openAIStreamToAnthropic (src/toAnthropic.ts) turns them into the events  *)
(* of an Anthropic message, whose content is a list of numbered blocks;     *)
(* filterThinkingFromStream (src/deepseek.ts) takes the thinking blocks out *)
(* of it for a client that wants none; the server loop writes what is left. *)
(*                                                                          *)
(* The upstream sometimes leaks a tool call as marked-up text ("DSML"), so  *)
(* text that holds a `<` is kept back to the end of the stream and parsed   *)
(* there, up to a cap.  A piece of text is its chunk's number and its mark: *)
(* "tag" when a DSML tag begins in it, whole or cut by the end of the chunk *)
(* (the rest of it is then in the pieces that follow), "angle" when it has   *)
(* some other `<`, else "plain".  A piece may hold more than its tag; white  *)
(* space alone is no piece.                                                 *)
(***************************************************************************)
EXTENDS AnthropicEvents, FiniteSets, Functions

CONSTANTS
    Chunks,     \* what chunks may hold: reasoning, text, fragments of calls
    Cap,        \* STREAM_TEXT_BUFFER_CAP, in pieces
    MaxChunks   \* bound: chunks of one stream

NoText == "none"

ASSUME StreamAssumption ==
    /\ \A c \in Chunks : /\ c.reasoning \in BOOLEAN
                         /\ c.text \in {NoText, "plain", "angle", "tag"}
                         /\ c.calls \in Seq(Nat)
    /\ Cap \in Nat /\ MaxChunks \in Nat

(* A chunk has one fragment of a call at most: the model tells fragments    *)
(* apart by chunk and call.                                                 *)
ASSUME OneFragmentEach == \A c \in Chunks : IsInjective(c.calls)

VARIABLES
    conv,       \* the pipe: the local variables of openAIStreamToAnthropic,
                \* thinkingBlocks of filterThinkingFromStream ("hidden"), and
                \* what the client has made of what it was sent ("client")
    keep,       \* keepThinking: the client wants the thinking
    dirty,      \* dirtySample: a line that is no chunk was seen
    loop,       \* the server loop: "reading", "done", "error", "cut"
    number,     \* chunks so far
    texts,      \* history: the pieces of text the upstream sent
    calls,      \* history: the fragments of calls it sent
    dropped     \* history: the chunks whose text was passed on at once

streamVars == <<conv, keep, dirty, loop, number, texts, calls, dropped>>

client == conv.client

NoBlock == [index |-> 0, kind |-> "none"]

StreamInit ==
    /\ conv = [started |-> FALSE, next |-> 0, text |-> NoBlock, tools |-> <<>>,
               buffer |-> <<>>, mode |-> "waiting", hidden |-> {}, client |-> NewClient]
    /\ keep \in BOOLEAN
    /\ dirty = FALSE /\ loop = "reading"
    /\ number = 0 /\ texts = <<>> /\ calls = {} /\ dropped = {}

----------------------------------------------------------------------------
(* filterThinkingFromStream: the blocks it hides are those it has seen      *)
(* start and not stop.                                                      *)
Hides(s, e) ==
    /\ ~keep
    /\ \/ e.type = "start" /\ e.kind = "thinking"
       \/ e.type \in {"delta", "stop"} /\ e.index \in s.hidden

(* An event goes through the filter, and then to the client. *)
Yield(s, e) ==
    IF ~Hides(s, e) THEN [s EXCEPT !.client = Receive(@, e)]
    ELSE [s EXCEPT !.hidden = CASE e.type = "start" -> @ \cup {e.index}
                                [] e.type = "stop" -> @ \ {e.index}
                                [] OTHER -> @]

----------------------------------------------------------------------------
(* openAIStreamToAnthropic: each operator is what a stretch of it does to   *)
(* its variables, and with the events it yields.                            *)

EnsureStart(s) == IF s.started THEN s ELSE Yield([s EXCEPT !.started = TRUE], MessageStart)

CloseTextBlock(s) ==
    IF s.text = NoBlock THEN s
    ELSE Yield([s EXCEPT !.text = NoBlock], Stop(s.text.index))

OpenBlock(s, kind) ==
    Yield([s EXCEPT !.text = [index |-> s.next, kind |-> kind], !.next = @ + 1],
          Start(s.next, kind))

(* Mutant: a text block may follow a thinking block without closing it. *)
OpenNext(s, kind) == IF s.text.kind = kind THEN s ELSE OpenBlock(s, kind)

(* The open block is of that kind: another one is closed first. *)
Ensure(s, kind) == IF s.text.kind = kind THEN s ELSE OpenBlock(CloseTextBlock(s), kind)

Say(s, kind, pieces) ==
    LET t == Ensure(s, kind) IN Yield(t, Delta(t.text.index, kind, pieces))

Marked(buffer) == \E i \in DOMAIN buffer : buffer[i].mark # "plain"

(* Mutant: what was kept back is not forgotten when it is passed on. *)
FlushAgain(s) == Say(s, "text", s.buffer)

FlushAsPlainText(s) == [Say(s, "text", s.buffer) EXCEPT !.buffer = <<>>]

(* Text of a stream that is already passed on, or too long to keep back:    *)
(* the rest of its chunk is skipped.                                        *)
PassedOn(s, piece) ==
    \/ s.mode = "abandoned"
    \/ s.mode = "streaming" /\ piece.mark = "plain"
    \/ Len(s.buffer) + 1 > Cap

Buffered(s, piece) ==
    LET t == IF s.mode = "streaming" THEN [CloseTextBlock(s) EXCEPT !.mode = "waiting"] ELSE s
    IN  [t EXCEPT !.buffer = Append(@, piece)]

Content(s, piece) ==
    LET t == IF s.text.kind = "text" THEN s ELSE CloseTextBlock(s)
        b == Buffered(t, piece)
    IN  IF t.mode = "abandoned" \/ (t.mode = "streaming" /\ piece.mark = "plain")
        THEN Say(t, "text", <<piece>>)
        ELSE IF Len(b.buffer) > Cap THEN [FlushAsPlainText(b) EXCEPT !.mode = "abandoned"]
        ELSE IF Marked(b.buffer) THEN b
        ELSE [FlushAsPlainText(b) EXCEPT !.mode = "streaming"]

(* Mutant: a fragment goes to the block that was opened last. *)
CallToNewest(s, call, n) ==
    LET b == EnsureStart(s)
        t == CloseTextBlock(b)
        o == IF call \in DOMAIN b.tools THEN b
             ELSE Yield([t EXCEPT !.tools = Put(@, call, t.next), !.next = @ + 1],
                        Start(t.next, "tool_use"))
    IN  Yield(o, Delta(o.next - 1, "tool_use", <<[n |-> n, mark |-> "plain"]>>))

(* A tool call's first fragment opens its block. *)
Call(s, call, n) ==
    LET b == EnsureStart(s)
        t == CloseTextBlock(b)
        o == IF call \in DOMAIN b.tools THEN b
             ELSE Yield([t EXCEPT !.tools = Put(@, call, t.next), !.next = @ + 1],
                        Start(t.next, "tool_use"))
    IN  Yield(o, Delta(o.tools[call], "tool_use", <<[n |-> n, mark |-> "plain"]>>))

Reasoned(s, chunk, n) ==
    IF chunk.reasoning
    THEN Say(EnsureStart(s), "thinking", <<[n |-> n, mark |-> "plain"]>>)
    ELSE s

(* The fragments of a chunk, one after the other. *)
CallsOf(s, fragments, n) ==
    LET upto[i \in 0 .. Len(fragments)] ==
          IF i = 0 THEN s ELSE Call(upto[i - 1], fragments[i], n)
    IN  upto[Len(fragments)]

(* One chunk: reasoning, then text, then the tool calls. *)
Convert(s, chunk, n) ==
    LET piece == [n |-> n, mark |-> chunk.text]
        r == Reasoned(s, chunk, n)
    IN  IF chunk.text = NoText THEN CallsOf(r, chunk.calls, n)
        ELSE IF PassedOn(r, piece) THEN Content(EnsureStart(r), piece)
        ELSE CallsOf(Content(EnsureStart(r), piece), chunk.calls, n)

InOrder(pieces) == \A k, l \in DOMAIN pieces : k < l => pieces[k].n < pieces[l].n

(* A piece was taken out of a text: with all that follows a tag up to it. *)
TakenOut(p, shown, pieces) ==
    \E a \in pieces :
       /\ a.mark = "tag" /\ a.n <= p.n
       /\ \A q \in pieces : a.n < q.n /\ q.n <= p.n => q \notin shown

(* What the expressions of dsml.ts can leave of a text.  Each match begins   *)
(* at a tag and takes what they make of it: an invoke to its end, or to the *)
(* end of the text when it has none; a marker to its `>`, or to the end;    *)
(* half a tag to the end of its line.  A piece of which a part is left may  *)
(* count as either.                                                         *)
Remainders(buffer) ==
    {left \in UNION {[1 .. k -> Range(buffer)] : k \in 0 .. Len(buffer)} :
       /\ InOrder(left)
       /\ \A p \in Range(buffer) \ Range(left) : TakenOut(p, Range(left), Range(buffer))}

(* What parsing the kept-back text can come to: with tags in it, calls are  *)
(* found or none.                                                           *)
Parsings(buffer) ==
    {parsing \in [call : BOOLEAN, text : Remainders(buffer)] :
       parsing.call => \E p \in Range(buffer) : p.mark = "tag"}

(* The end of the stream: the kept-back text in blocks of its own, then the *)
(* stop of whatever is open.                                                *)
Parsed(s, parsing) ==
    LET b == IF s.text.kind = "text" THEN s ELSE CloseTextBlock(s)
        o == IF parsing.call THEN OpenBlock(b, "text") ELSE b
        t == IF parsing.text = <<>> THEN b ELSE CloseTextBlock(Say(o, "text", parsing.text))
    IN  IF ~parsing.call THEN t
        ELSE Yield(Yield([t EXCEPT !.next = @ + 1], Start(t.next, "tool_use")), Stop(t.next))

(* The blocks of the calls, in the order in which they were opened. *)
StopCalls(s) ==
    LET upto[i \in 0 .. s.next] ==
          IF i = 0 THEN s
          ELSE IF i - 1 \in Range(s.tools) THEN Yield(upto[i - 1], Stop(i - 1))
          ELSE upto[i - 1]
    IN  upto[s.next]

FinishMessage(s, parsing) ==
    LET b == EnsureStart(s)
        t == CloseTextBlock(IF s.buffer = <<>> THEN b ELSE Parsed(b, parsing))
    IN  Yield(Yield(StopCalls(t), MessageDelta), MessageStop)

(* The server loop writes what comes through; the first event after a line  *)
(* that is no chunk is not written, and ends the stream with an error event.*)
Written(s, last) ==
    IF dirty /\ s.client # client THEN loop' = "error" /\ UNCHANGED conv
    ELSE loop' = last /\ conv' = s

----------------------------------------------------------------------------
(* parseOpenAISSE hands over a chunk. *)
TakeChunk(chunk) ==
    LET n == number + 1 IN
    /\ loop = "reading" /\ number < MaxChunks
    /\ number' = n
    /\ texts' = IF chunk.text = NoText THEN texts
                ELSE Append(texts, [n |-> n, mark |-> chunk.text])
    /\ calls' = calls \cup {[n |-> n, call |-> c] : c \in Range(chunk.calls)}
    /\ dropped' = IF chunk.text # NoText
                        /\ PassedOn(Reasoned(conv, chunk, n), [n |-> n, mark |-> chunk.text])
                  THEN dropped \cup {n} ELSE dropped
    /\ Written(Convert(conv, chunk, n), "reading")
    /\ UNCHANGED <<keep, dirty>>

(* A line that is no chunk: it is left out, and remembered. *)
SeeDirtyLine ==
    /\ loop = "reading" /\ ~dirty
    /\ dirty' = TRUE
    /\ UNCHANGED <<conv, keep, loop, number, texts, calls, dropped>>

(* The upstream's stream ends. *)
EndStream ==
    /\ loop = "reading"
    /\ \E parsing \in IF conv.buffer = <<>> THEN {[call |-> FALSE, text |-> <<>>]}
                      ELSE Parsings(conv.buffer) :
          Written(FinishMessage(conv, parsing), "done")
    /\ UNCHANGED <<keep, dirty, number, texts, calls, dropped>>

(* The stream breaks: an error chunk, a line too long, a timer, or the      *)
(* client is gone.  Only the timer is told to the client.                   *)
BreakStream ==
    /\ loop = "reading"
    /\ loop' \in {"cut", "error"}
    /\ UNCHANGED <<conv, keep, dirty, number, texts, calls, dropped>>

StreamNext ==
    \/ \E chunk \in Chunks : TakeChunk(chunk)
    \/ SeeDirtyLine \/ EndStream \/ BreakStream

StreamSpec == StreamInit /\ [][StreamNext]_streamVars

----------------------------------------------------------------------------

(* Whatever the order of reasoning, text, leaked calls and calls, the       *)
(* client is never sent an event it cannot make sense of, what the          *)
(* converter takes for open is what the client has open (toAnthropic.ts:    *)
(* "the skeleton is always complete"), and the message is over for the      *)
(* client exactly when the stream ended well.                               *)
WellFormed ==
    /\ ~client.broken
    /\ (client.stage = "over") = (loop = "done")
    /\ loop = "reading" =>
          OpenBlocks(client) =
             (Range(conv.tools) \cup (IF conv.text = NoBlock THEN {} ELSE {conv.text.index})) \ conv.hidden

TextInOrder(c) ==
    \A i, j \in TextBlocks(c) :
       /\ InOrder(c.blocks[i].pieces)
       /\ i < j => \A p \in Range(c.blocks[i].pieces), q \in Range(c.blocks[j].pieces) : p.n < q.n

(* The text reaches the client in order and once.  While the stream goes on *)
(* what it has not got is kept back, and no tag gets through unless the text *)
(* is too long to keep.  At the end it has all of it, but for runs that     *)
(* begin at a tag: a plain answer is never cut, and nothing before a tag.   *)
TextKept ==
    LET shown == Words(client) IN
    /\ TextInOrder(client)
    /\ shown \subseteq Range(texts)
    /\ loop = "reading" => Range(texts) = shown \cup Range(conv.buffer)
    /\ loop # "done" /\ conv.mode # "abandoned" => \A p \in shown : p.mark # "tag"
    /\ loop = "done" => \A p \in Range(texts) \ shown : TakenOut(p, shown, Range(texts))

(* Each call has one block, which gets its fragments in order and once; a   *)
(* fragment is lost only where the `continue` of the text branch leaves its *)
(* chunk.                                                                   *)
CallsKept ==
    /\ \A c \in DOMAIN conv.tools : conv.tools[c] \in DOMAIN client.blocks =>
          LET got == client.blocks[conv.tools[c]].pieces IN
          /\ InOrder(got)
          /\ \A p \in Range(got) : [n |-> p.n, call |-> c] \in calls
    /\ loop = "done" =>
          \A f \in calls : f.n \notin dropped =>
             /\ f.call \in DOMAIN conv.tools
             /\ \E p \in Range(client.blocks[conv.tools[f.call]].pieces) : p.n = f.n

(* Both: what the model says and calls reaches the client in order and once, *)
(* and all that is lost of it is text from a leaked tag on (dsml.ts), and   *)
(* the calls of a chunk whose text was passed on at once (toAnthropic.ts,   *)
(* :292 and :321).                                                          *)
NothingLost == TextKept /\ CallsKept

(* toAnthropic.ts:152, "a block is opened when it appears, and on a switch  *)
(* the last one is closed" (and :225, :326, blocks must not interleave).    *)
OneOpenBlock == Cardinality(OpenBlocks(client)) <= 1
=============================================================================
