----------------------------- MODULE ChatAggregate -----------------------------
(***************************************************************************)
(* The buffered counterpart of ChatConverter: aggregate_chat_sse of        *)
(* rust/src/sse.rs rebuilds one Chat Completions message from the deltas,  *)
(* and transform_chat_json_response_with_tool_names of                     *)
(* rust/src/transform/response.rs makes an Anthropic message of it, as it  *)
(* does of a message that the upstream sent as JSON.                       *)
(*                                                                         *)
(* Content arrays, thinking_blocks and audio are left out: they become     *)
(* text or thinking as content and reasoning_content do.                   *)
(***************************************************************************)
EXTENDS ChatConverter

\* The message under construction; blocks is output_blocks, legacy the
\* superseded function_call member.
NewAggregate ==
    [blocks |-> <<>>, thinking |-> <<>>, signature |-> "none", text |-> <<>>,
     attached |-> <<>>, refusal |-> <<>>, tools |-> [i \in Indices |-> NoTool], legacy |-> NoTool,
     reason |-> "", failed |-> FALSE]

Placed(kind, pieces, signature, index) ==
    [kind |-> kind, pieces |-> pieces, signature |-> signature, index |-> index]

\* Equal kinds in a row are one block.
AppendPiece(a, kind, piece) ==
    LET n == Len(a.blocks)
    IN  IF n > 0 /\ a.blocks[n].kind = kind
        THEN [a EXCEPT !.blocks[n].pieces = Append(@, piece)]
        ELSE [a EXCEPT !.blocks = Append(@, Placed(kind, <<piece>>, "none", 0))]

AddThinking(a, piece) ==
    [AppendPiece(a, "thinking", piece) EXCEPT !.thinking = Append(@, piece)]

\* The last thinking block is signed, wherever it is.
AddSignature(a, signature) ==
    LET IsThinking(block) == block.kind = "thinking"
        n == SelectLastInSeq(a.blocks, IsThinking)
    IN  IF n > 0 THEN [a EXCEPT !.blocks[n].signature = signature]
        ELSE [a EXCEPT !.blocks = Append(@, Placed("thinking", <<>>, signature, 0))]

AddText(a, piece) == [AppendPiece(a, "text", piece) EXCEPT !.text = Append(@, piece)]

\* Citations, and a block of a kind that Chat does not know.
AddAttachment(a, piece) ==
    [AppendPiece(a, "text", piece) EXCEPT !.attached = Append(@, piece)]

AddRefusal(a, piece) == [AppendPiece(a, "text", piece) EXCEPT !.refusal = Append(@, piece)]

\* Mutant: a call has no place among the blocks until it has a name.
FirstSeenNamed(a, i, fragment) == a.tools[i].piece = 0 /\ fragment.named

FirstSeen(a, i, fragment) == a.tools[i].piece = 0

AddToolCall(a, i, fragment, piece) ==
    LET p == IF FirstSeen(a, i, fragment)
             THEN [a EXCEPT !.blocks = Append(@, Placed("tool", <<>>, "none", i))] ELSE a
        t == [p EXCEPT !.tools[i].piece = IF @ = 0 THEN piece ELSE @]
    IN  IF t.tools[i].id \notin {"", fragment.id} /\ fragment.id # ""
        THEN [t EXCEPT !.failed = TRUE]
        ELSE [t EXCEPT !.tools[i].id = IF fragment.id = "" THEN @ ELSE fragment.id,
                       !.tools[i].named = @ \/ fragment.named,
                       !.tools[i].args = ArgumentsWith(@, fragment.args)]

\* It takes no place among the blocks.
AddFunctionCall(a, fragment, piece) ==
    [a EXCEPT !.legacy.piece = IF @ = 0 THEN piece ELSE @,
              !.legacy.named = @ \/ fragment.named,
              !.legacy.args = ArgumentsWith(@, fragment.args)]

-----------------------------------------------------------------------------
(* The end of the events.                                                   *)

CallsOf(a) == {i \in Indices : a.tools[i].piece # 0}

HasLegacy(a) == a.legacy.piece # 0

\* content, reasoning_content and refusal are empty when there are no blocks.
Empty(a) == a.blocks = <<>> /\ CallsOf(a) = {} /\ ~HasLegacy(a)

Aggregated(a, sawDone) ==
    IF a.reason # "" THEN a
    ELSE IF ~sawDone \/ Empty(a) THEN [a EXCEPT !.failed = TRUE]
    ELSE [a EXCEPT !.reason = IF CallsOf(a) = {} /\ ~HasLegacy(a) THEN "stop" ELSE "length"]

-----------------------------------------------------------------------------
(* The conversion of a whole message m.                                     *)

Declined(m) == m.reason = "content_filter" \/ m.refusal # <<>>

\* Mutant: a refusal does not keep the calls in front of it from running.
IncompleteIfCut(m) == m.reason = "length"

Incomplete(m) == m.reason = "length" \/ Declined(m)

\* A block of the Anthropic message: with omitted thinking what it shows is
\* empty and what a signature of the router's carries is the reasoning.
Shows(kind, pieces, signature, carries) ==
    [kind |-> kind, pieces |-> pieces, signature |-> signature, carries |-> carries]

TextOf(pieces) == Shows("text", pieces, "none", <<>>)

\* replay_safe_chat_signature: a foreign signature does not carry the text.
ThinkingOf(pieces, signature, omit) ==
    LET encoded == signature = "none" \/ (omit /\ pieces # <<>> /\ signature # "router")
    IN  Shows("thinking", IF omit THEN <<>> ELSE pieces,
              IF encoded THEN "encoded" ELSE signature,
              IF encoded THEN pieces ELSE <<>>)

\* A call of a message that is not complete becomes text.
CallOf(m, tool) ==
    IF Incomplete(m) THEN TextOf(<<tool.piece>>)
    ELSE Shows("tool", <<tool.piece>>, "none", <<>>)

\* parse_tool_input, unlike the stream, takes no arguments for invalid ones.
Rejected(m, tool) == ~Incomplete(m) /\ (tool.id = "" \/ ~tool.named \/ tool.args # "{}")

FromBlocks(m, omit) ==
    LET Converted(block) ==
          CASE block.kind = "thinking" -> ThinkingOf(block.pieces, block.signature, omit)
            [] block.kind = "text"     -> TextOf(block.pieces)
            [] block.kind = "tool"     -> CallOf(m, m.tools[block.index])
    IN  [n \in 1..Len(m.blocks) |-> Converted(m.blocks[n])]

Optional(present, block) == IF present THEN <<block>> ELSE <<>>

\* Mutant: the text of a refusal is not shown.
RefusalOfNone(m) == <<>>

RefusalOf(m) == Optional(m.refusal # <<>>, TextOf(m.refusal))

\* The calls in the order of the array; an id is made up for a legacy call.
PlainCalls(m) ==
    IF CallsOf(m) # {}
    THEN LET Ascends(calls) == \A j, k \in DOMAIN calls : j < k => calls[j] < calls[k]
             order == CHOOSE calls \in SetToSeqs(CallsOf(m)) : Ascends(calls)
         IN  [n \in 1..Len(order) |-> m.tools[order[n]]]
    ELSE Optional(HasLegacy(m), [m.legacy EXCEPT !.id = Generated])

FromMembers(m, omit) ==
    LET calls == PlainCalls(m)
    IN  Optional(m.thinking # <<>> \/ m.signature # "none",
                 ThinkingOf(m.thinking, m.signature, omit))
        \o Optional(m.text # <<>>, TextOf(m.text))
        \o Optional(m.attached # <<>>, TextOf(m.attached))
        \o RefusalOf(m)
        \o [n \in 1..Len(calls) |-> CallOf(m, calls[n])]

\* A message with output_blocks is converted from these alone.
ToolsUsed(m) ==
    IF m.blocks # <<>> THEN {m.tools[b.index] : b \in {b \in ToSet(m.blocks) : b.kind = "tool"}}
    ELSE ToSet(PlainCalls(m))

Unsupported(m) == ~Declined(m) /\ m.reason \notin {"stop", "length", "tool_calls"}

StopReasonOf(m) ==
    IF Declined(m) THEN "refusal"
    ELSE CASE m.reason = "stop"       -> "end_turn"
           [] m.reason = "length"     -> "max_tokens"
           [] m.reason = "tool_calls" -> "tool_use"

NoMessage == [failed |-> TRUE, content |-> <<>>, stop |-> "none"]

Transformed(m, omit) ==
    IF m.failed \/ Unsupported(m) \/ \E tool \in ToolsUsed(m) : Rejected(m, tool)
    THEN NoMessage
    ELSE [failed |-> FALSE,
          content |-> IF m.blocks # <<>> THEN FromBlocks(m, omit) ELSE FromMembers(m, omit),
          stop |-> StopReasonOf(m)]
=============================================================================
