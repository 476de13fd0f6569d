------------------------------- MODULE MCWire -------------------------------
(* What the client is sent: by the shield before the gateway, and by the    *)
(* gateway as an Anthropic stream.  They share no state: a behaviour is one  *)
(* of them, and the other rests.  All that two connections share is the      *)
(* slots and the settings: one is followed through all its waiting, and two   *)
(* through everything but that.                                             *)
(*                                                                          *)
(* Chunks of text, of two tool calls, or of both, chunks of reasoning, and   *)
(* chunks that hold all three.  With calls, a `<` is like a tag.            *)
EXTENDS MCShield, StreamBlocks

VARIABLE focus

Texts == {NoText, "plain", "angle", "tag"}
BothCalls == <<1, 0>>

MCChunks ==
    [reasoning : {FALSE}, text : Texts, calls : {<<>>}]
      \cup [reasoning : {FALSE}, text : Texts \ {"angle"}, calls : {BothCalls}]
      \cup [reasoning : {TRUE}, text : {NoText}, calls : {<<>>}]
      \cup [reasoning : {TRUE}, text : {"tag"}, calls : {<<0>>}]

MCInit ==
    /\ ShieldInit /\ StreamInit /\ focus \in {"one", "two", "stream"}
    /\ focus = "stream" => conf = Long

MCNext ==
    /\ \/ /\ focus \in {"one", "two"} /\ ShieldNext /\ UNCHANGED streamVars
          /\ focus = "one" => \A c, d \in Conns : c = d \/ Fresh \in {conn'[c], conn'[d]}
          /\ focus = "two" => \A c \in Conns : conn'[c].pc # "sleeping"
       \/ focus = "stream" /\ StreamNext /\ UNCHANGED shieldVars
    /\ UNCHANGED focus

MCSpec == MCInit /\ [][MCNext]_<<shieldVars, streamVars, focus>>
=============================================================================
