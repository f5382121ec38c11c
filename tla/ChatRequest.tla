----------------------------- MODULE ChatRequest -----------------------------
(***************************************************************************)
(* prepare_chat_request_with_tool_names of rust/src/transform/request.rs:  *)
(* the unified request as Chat Completions takes it.  A tool message holds *)
(* text only, so images and files of tool results go into a user message,  *)
(* the sidecar, behind the whole group of results.                         *)
(***************************************************************************)
EXTENDS UnifiedRequest, AliasMap

\* tool_index: the number of the result among those of the request.
Marker(id, tool_index) ==
    [Unified("text", "marker", <<tool_index>>, "none") EXCEPT !.id = id]
MovedText == Unified("text", "moved", <<>>, "none")

-----------------------------------------------------------------------------
(* Tool names.                                                              *)

ToolNames(u) ==
    {t.name : t \in ToSet(u.tools)}
        \cup (IF u.choice.type = "tool" THEN {u.choice.name} ELSE {})
        \cup UNION {{c.name : c \in ToSet(m.calls)} : m \in ToSet(u.messages)}

WithToolNames(u, names) ==
    LET Renamed(seq) == [k \in DOMAIN seq |-> [seq[k] EXCEPT !.name = wire_name(names, @)]]
    IN  [u EXCEPT !.tools = Renamed(@),
                  !.choice.name = wire_name(names, @),
                  !.messages = [i \in DOMAIN @ |-> [@[i] EXCEPT !.calls = Renamed(@)]]]

-----------------------------------------------------------------------------
(* Thinking.                                                                *)

\* What the signature of this router carries from the answer.
decode_chat_signature(signature) ==
    IF signature.by = "chat" THEN signature.item ELSE <<>>

\* Mutant: the signature is not looked into.
RecalledShownOnly(thought) == thought.piece

Recalled(thought) ==
    IF thought.piece # <<>> THEN thought.piece ELSE decode_chat_signature(thought.signature)

\* given: reasoning_content is there, perhaps an empty string.  Thinking
\* blocks are joined by a line feed.
ReasoningContent(m, enabled) ==
    LET pieces == SelectSeq([k \in DOMAIN m.thinking |-> Recalled(m.thinking[k])],
                            LAMBDA piece : piece # <<>>)
    IN  [given  |-> pieces # <<>> \/ (enabled /\ m.calls # <<>>), pieces |-> pieces]

-----------------------------------------------------------------------------
(* Files, images and the results of tools.                                  *)

\* Chat has no file_url: a file known by its URL is a text with that URL.
NormalizeFile(part) ==
    IF part.type = "file" /\ part.source = "url"
    THEN Unified("text", "fallback", part.piece, "none") ELSE part

IsText(part) == part.type = "text"
IsMedia(part) == part.type \in {"image_url", "file"}

ToolContent(parts) ==
    LET texts == SelectSeq(parts, IsText)
    IN  CASE texts # <<>>                      -> texts
          [] SelectSeq(parts, IsMedia) # <<>>  -> <<MovedText>>
          [] OTHER                             -> <<>>

\* Mutant: the marker is left out whatever is pending.
SidecarUnmarked(pending) == FlattenSeq([k \in DOMAIN pending |-> pending[k].media])

\* pending: the media of each result, and the result they belong to.  A
\* marker follows the media of each when there are several.
Sidecar(pending) ==
    FlattenSeq([k \in DOMAIN pending |->
        IF Len(pending) > 1
        THEN Append(pending[k].media, Marker(pending[k].id, pending[k].tool_index))
        ELSE pending[k].media])

\* Mutant: the media of a result follow it at once.
OverMessageEager(s, m) ==
    LET parts == [k \in DOMAIN m.parts |-> NormalizeFile(m.parts[k])]
        media == SelectSeq(parts, IsMedia)
    IN  IF m.role = "tool"
        THEN [s EXCEPT !.out = (@ \o <<[m EXCEPT !.parts = ToolContent(parts)]>>)
                                  \o (IF media = <<>> THEN <<>> ELSE <<Message("user", media)>>),
                       !.tool_index = @ + 1]
        ELSE [s EXCEPT !.out = Append(@, [m EXCEPT !.parts = parts])]

\* The locals of normalize_multimodal_tool_results: what is waiting joins a
\* user message that follows, or becomes one.
OverMessage(s, m) ==
    LET parts == [k \in DOMAIN m.parts |-> NormalizeFile(m.parts[k])]
        media == SelectSeq(parts, IsMedia)
        side  == Sidecar(s.pending)
    IN  CASE m.role = "tool" ->
               [out        |-> Append(s.out, [m EXCEPT !.parts = ToolContent(parts)]),
                tool_index |-> s.tool_index + 1,
                pending    |-> IF media = <<>> THEN s.pending
                               ELSE Append(s.pending, [media |-> media, id |-> m.id,
                                                       tool_index |-> s.tool_index + 1])]
          [] m.role = "user" ->
               [s EXCEPT !.out = Append(@, [m EXCEPT !.parts = side \o parts]), !.pending = <<>>]
          [] OTHER ->
               [s EXCEPT !.out = (IF side = <<>> THEN @ ELSE Append(@, Message("user", side)))
                                     \o <<[m EXCEPT !.parts = parts]>>,
                         !.pending = <<>>]

NormalizedResults(messages) ==
    LET end == FoldLeft(OverMessage, [out |-> <<>>, pending |-> <<>>, tool_index |-> 0], messages)
    IN  IF end.pending = <<>> THEN end.out
        ELSE Append(end.out, Message("user", Sidecar(end.pending)))

-----------------------------------------------------------------------------

\* The message on the wire: reasoning is reasoning_content, and the blocks
\* are gone.
WireMessage(m, enabled) ==
    [role |-> m.role, parts |-> m.parts, id |-> m.id, calls |-> m.calls,
     reasoning |-> IF m.role = "assistant" THEN ReasoningContent(m, enabled)
                   ELSE [given |-> FALSE, pieces |-> <<>>]]

ChatNames(u) == AliasesFor(ToolNames(u))

\* reasoning_effort alone says how much to think: Chat has no reasoning
\* object.
Chat(u) ==
    LET named == WithToolNames(u, ChatNames(u))
        wire  == NormalizedResults(named.messages)
    IN  [messages |-> [i \in DOMAIN wire |-> WireMessage(wire[i], u.enabled)],
         tools    |-> named.tools,
         choice   |-> named.choice,
         effort   |-> u.effort.explicit]
=============================================================================
