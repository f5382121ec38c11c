---------------------------- MODULE UnifiedRequest ----------------------------
(***************************************************************************)
(* transform_anthropic_request of rust/src/transform/request.rs: the       *)
(* request both upstream protocols are made from.  Its messages are those  *)
(* of Chat Completions, with the blocks of an assistant turn and its       *)
(* thinking kept beside the flat text and the calls.                       *)
(***************************************************************************)
EXTENDS MessagesRequest

\* One part of a unified message.  type: "text", "image_url" or "file"; says:
\* what a text is, the client's own or words of the router about a block;
\* id: the call a provenance marker names.
Unified(type, says, piece, source) ==
    [type |-> type, says |-> says, piece |-> piece, source |-> source, id |-> ""]

Own(p)      == Unified("text", "own", p.piece, "none")
Json(p)     == Unified("text", "json", p.piece, "none")
Metadata(p) == Unified("text", "metadata", p.piece, "none")
ErrorMarker == Unified("text", "error", <<>>, "none")

-----------------------------------------------------------------------------
(* Blocks of user and system messages.                                      *)

ConvertImage(p) ==
    IF p.source \in {"url", "base64"} THEN Unified("image_url", "own", p.piece, p.source)
    ELSE Json(p)

ConvertNested(p) ==
    CASE p.type = "text"  -> Own(p)
      [] p.type = "image" -> ConvertImage(p)
      [] OTHER            -> Json(p)

ConvertDocument(p) ==
    CASE p.source = "content" ->
             <<Metadata(p)>> \o [k \in DOMAIN p.inner |-> ConvertNested(p.inner[k])]
      [] p.source \in {"base64", "text", "url"} ->
             (IF p.context THEN <<Metadata(p)>> ELSE <<>>)
                 \o <<Unified("file", "own", p.piece, p.source)>>
      [] OTHER -> <<Json(p)>>

ConvertSearch(p) == <<Metadata(p)>> \o [k \in DOMAIN p.inner |-> Own(p.inner[k])]

ConvertPart(p) ==
    CASE p.type = "text"          -> <<Own(p)>>
      [] p.type = "image"         -> <<ConvertImage(p)>>
      [] p.type = "document"      -> ConvertDocument(p)
      [] p.type = "search_result" -> ConvertSearch(p)
      [] OTHER                    -> <<Json(p)>>

ConvertParts(parts) == FlattenSeq([k \in DOMAIN parts |-> ConvertPart(parts[k])])

IsReference(p) == p.type = "tool_reference"

ConvertResult(p) ==
    LET Visible(q) == ~IsReference(q)
    IN  (IF p.error THEN <<ErrorMarker>> ELSE <<>>) \o ConvertParts(SelectSeq(p.inner, Visible))

-----------------------------------------------------------------------------
(* Messages.                                                                *)

\* id: the call a tool message answers; blocks: output_blocks; calls: the
\* tool_calls; thinking: thinking_blocks.  (A thinking block also names the
\* call behind it, which only a message without output_blocks is asked for,
\* and there is none.)
Message(role, parts) ==
    [role |-> role, parts |-> parts, id |-> "", blocks |-> <<>>, calls |-> <<>>,
     thinking |-> <<>>]

IsResult(p) == p.type = "tool_result"

EmptyText(p) == p.type = "text" /\ p.piece = <<>>

TextOf(p) == IF p.type = "text" THEN Own(p) ELSE Json(p)

ToolMessage(p) == [Message("tool", ConvertResult(p)) EXCEPT !.id = p.id]

\* Mutant: a turn with results says nothing else.
UserMessagesResultsOnly(parts) ==
    LET Visible(p) == ~IsResult(p) /\ ~EmptyText(p)
        results    == SelectSeq(parts, IsResult)
        visible    == ConvertParts(SelectSeq(parts, Visible))
    IN  [k \in DOMAIN results |-> ToolMessage(results[k])]
            \o (IF results = <<>> THEN <<Message("user", visible)>> ELSE <<>>)

\* The results of a turn become messages of their own, before what else the
\* user says.
UserMessages(parts) ==
    LET Visible(p) == ~IsResult(p) /\ ~EmptyText(p)
        results    == SelectSeq(parts, IsResult)
        visible    == ConvertParts(SelectSeq(parts, Visible))
    IN  [k \in DOMAIN results |-> ToolMessage(results[k])]
            \o (IF visible # <<>> \/ results = <<>> THEN <<Message("user", visible)>> ELSE <<>>)

Expanded(parts) ==
    FlattenSeq([k \in DOMAIN parts |->
                   IF parts[k].type = "mid_conv_system" THEN parts[k].inner ELSE <<parts[k]>>])

IsToolChange(p) == p.type \in {"tool_addition", "tool_removal"}

SystemMessages(parts) ==
    LET Visible(p) == ~IsToolChange(p) /\ ~EmptyText(p)
        visible    == SelectSeq(parts, Visible)
    IN  IF visible = <<>> THEN <<>>
        ELSE <<Message("system", [k \in DOMAIN visible |-> TextOf(visible[k])])>>

\* A block of another type is shown as text.
AssistantMessage(parts) ==
    LET Block(p) == IF p.type \in {"text", "tool_use", "thinking"} THEN p
                    ELSE Part("text", p.piece)
        Shows(p) == p.type \notin {"tool_use", "thinking"} /\ ~EmptyText(p)
        shown    == SelectSeq(parts, Shows)
    IN  [Message("assistant", [k \in DOMAIN shown |-> TextOf(shown[k])]) EXCEPT
            !.blocks   = [k \in DOMAIN parts |-> Block(parts[k])],
            !.calls    = SelectSeq(parts, LAMBDA p : p.type = "tool_use"),
            !.thinking = SelectSeq(parts, LAMBDA p : p.type = "thinking")]

MessagesOf(message) ==
    CASE message.role = "system"    -> SystemMessages(Expanded(message.parts))
      [] message.role = "user"      -> UserMessages(message.parts)
      [] message.role = "assistant" -> <<AssistantMessage(message.parts)>>

UnifiedMessages(r) ==
    SystemMessages(r.system)
        \o FlattenSeq([i \in DOMAIN r.messages |-> MessagesOf(r.messages[i])])

-----------------------------------------------------------------------------
(* resolve_active_tools().                                                  *)

\* The changes a message makes, in order: an addition, a removal, or the
\* mention of a tool in the result of a call.
ChangesIn(message) ==
    CASE message.role = "system" -> SelectSeq(Expanded(message.parts), IsToolChange)
      [] message.role = "user"   ->
             LET results == SelectSeq(message.parts, IsResult)
             IN  FlattenSeq([k \in DOMAIN results |-> SelectSeq(results[k].inner, IsReference)])
      [] OTHER -> <<>>

Changes(messages) == FlattenSeq([i \in DOMAIN messages |-> ChangesIn(messages[i])])

Declared(tools) == {t.name : t \in ToSet(tools)}

ChangesResolve(r) == \A c \in ToSet(Changes(r.messages)) : c.name \in Declared(r.tools)

\* Mutant: every addition is applied before the removals.
ActiveNamesUnordered(r) ==
    LET Named(types) == {c.name : c \in {d \in ToSet(Changes(r.messages)) : d.type \in types}}
    IN  ({t.name : t \in {u \in ToSet(r.tools) : ~u.deferred}}
            \cup Named({"tool_addition", "tool_reference"})) \ Named({"tool_removal"})

ActiveNames(r) ==
    FoldLeft(LAMBDA active, c : IF c.type = "tool_removal" THEN active \ {c.name}
                                ELSE active \cup {c.name},
             {t.name : t \in {u \in ToSet(r.tools) : ~u.deferred}}, Changes(r.messages))

ActiveTools(r) == SelectSeq(r.tools, LAMBDA t : t.name \in ActiveNames(r))

ChoiceResolves(r) ==
    /\ r.choice.type = "tool" => r.choice.name \in ActiveNames(r)
    /\ r.choice.type = "any" => ActiveNames(r) # {}

-----------------------------------------------------------------------------
(* Parameters.                                                              *)

think_level(budget) ==
    CASE budget <= 1024 -> "low" [] budget <= 8192 -> "medium" [] OTHER -> "high"

Thinks(r) == r.thinking.type \in {"enabled", "adaptive"}

\* reasoning.effort, and reasoning_effort beside it.
ReasoningEffort(r) ==
    CASE ~Thinks(r)             -> "none"
      [] r.effort # "unsaid"    -> r.effort
      [] r.thinking.budget # 0  -> think_level(r.thinking.budget)
      [] OTHER                  -> "none"

Transforms(r) == Valid(r) /\ ChangesResolve(r) /\ ChoiceResolves(r)

\* choice: "required" stands for any, the name for a function.
Transformed(r) ==
    [messages |-> UnifiedMessages(r),
     tools    |-> ActiveTools(r),
     choice   |-> IF r.choice.type = "any" THEN [r.choice EXCEPT !.type = "required"] ELSE r.choice,
     enabled  |-> Thinks(r),
     display  |-> r.thinking.display,
     effort   |-> [explicit |-> r.effort, reasoning |-> ReasoningEffort(r)],
     format   |-> r.format,
     limit    |-> r.limit,
     stream   |-> r.stream]
=============================================================================
