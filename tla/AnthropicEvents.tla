-------------------------- MODULE AnthropicEvents --------------------------
(***************************************************************************)
(* The events of a streamed Anthropic message, and a client that puts the   *)
(* message together from them (src/types.ts, AnthropicStreamEvent).  It is   *)
(* the client that the comments of src/toAnthropic.ts and src/deepseek.ts   *)
(* describe, but for one thing: they say that it takes no block while       *)
(* another is open (toAnthropic.ts:157, 220, 335), and this one does, since *)
(* the converter opens two (OneOpenBlock of StreamBlocks).                  *)
(***************************************************************************)
EXTENDS Naturals, Sequences, Functions

MessageStart == [type |-> "message_start"]
MessageDelta == [type |-> "message_delta"]
MessageStop == [type |-> "message_stop"]
Start(i, kind) == [type |-> "start", index |-> i, kind |-> kind]
Delta(i, kind, pieces) == [type |-> "delta", index |-> i, kind |-> kind, pieces |-> pieces]
Stop(i) == [type |-> "stop", index |-> i]

(* A table with an entry more, or another one in its place. *)
Put(table, i, entry) == [j \in DOMAIN table \cup {i} |-> IF j = i THEN entry ELSE table[j]]

(* "broken": it was sent something it cannot make sense of. *)
NewClient == [blocks |-> <<>>, stage |-> "before", broken |-> FALSE]

OpenBlocks(c) == {i \in DOMAIN c.blocks : c.blocks[i].open}

(* What makes sense when: the message starts once and before anything else; *)
(* a block starts once, is added to while open, with what its kind allows,  *)
(* and is stopped once; the message ends when no block is open.             *)
Sensible(c, e) ==
    CASE e.type = "message_start" -> c.stage = "before"
      [] e.type = "start" -> c.stage = "open" /\ e.index \notin DOMAIN c.blocks
      [] e.type = "delta" -> /\ c.stage = "open" /\ e.index \in OpenBlocks(c)
                             /\ c.blocks[e.index].kind = e.kind
      [] e.type = "stop" -> c.stage = "open" /\ e.index \in OpenBlocks(c)
      [] e.type = "message_delta" -> c.stage = "open" /\ OpenBlocks(c) = {}
      [] e.type = "message_stop" -> c.stage = "closing"

Receive(c, e) ==
    IF ~Sensible(c, e) THEN [c EXCEPT !.broken = TRUE]
    ELSE CASE e.type = "message_start" -> [c EXCEPT !.stage = "open"]
           [] e.type = "start" ->
                [c EXCEPT !.blocks = Put(@, e.index, [kind |-> e.kind, open |-> TRUE, pieces |-> <<>>])]
           [] e.type = "delta" -> [c EXCEPT !.blocks[e.index].pieces = @ \o e.pieces]
           [] e.type = "stop" -> [c EXCEPT !.blocks[e.index].open = FALSE]
           [] e.type = "message_delta" -> [c EXCEPT !.stage = "closing"]
           [] e.type = "message_stop" -> [c EXCEPT !.stage = "over"]

TextBlocks(c) == {i \in DOMAIN c.blocks : c.blocks[i].kind = "text"}

(* The pieces of text it was sent. *)
Words(c) == UNION {Range(c.blocks[i].pieces) : i \in TextBlocks(c)}
=============================================================================
