---------------------------- MODULE ChatConverter ----------------------------
(***************************************************************************)
(* ChatStreamState of rust/src/streaming.rs: the conversion of Chat        *)
(* Completions deltas into Anthropic frames, as operators on a state       *)
(* record.  Every operator returns the next record, with the frames the    *)
(* code's function returns appended to field frames, and failed set where  *)
(* the code returns Err.                                                   *)
(*                                                                         *)
(* A piece of model output (a text or reasoning fragment, a tool call) is  *)
(* the position at which the upstream sent it; a frame carries a sequence  *)
(* of pieces.  Tool arguments are abstracted to what JSON parsing tells    *)
(* apart: "" (sent as {}), "{" (cut short), "{}" (an object), "bad".       *)
(***************************************************************************)
EXTENDS AnthropicClient, FiniteSets, SequencesExt

CONSTANTS Indices,    \* the tool call indexes the upstream uses, 0 among them
          Ids,        \* the tool call ids the upstream uses
          Fragments   \* the tool call fragments the upstream sends

ASSUME ConverterAssumption ==
    /\ 0 \in Indices /\ Indices \subseteq Nat
    /\ Fragments \subseteq [id : Ids \cup {""}, named : BOOLEAN,
                             args : {"", "{", "}", "{}"}]

NoTool == [id |-> "", named |-> FALSE, args |-> "", piece |-> 0]

Generated == "generated"   \* an id the router invents

Signatures == {"none", "provider", "router"}

Fresh(omitThinking) ==
    [omit |-> omitThinking, started |-> FALSE, next |-> 0,
     open |-> "none", at |-> 0,          \* open: Option<(BlockKind, usize)>
     replay |-> <<>>, signature |-> "none",
     tools |-> [i \in Indices |-> NoTool], deferred |-> <<>>, deferring |-> FALSE,
     reason |-> "", refused |-> FALSE, semantic |-> FALSE,
     frames |-> <<>>, failed |-> FALSE]

Push(s, frame) == [s EXCEPT !.frames = Append(@, frame)]

Fail(s) == [s EXCEPT !.failed = TRUE]

-----------------------------------------------------------------------------
EnsureStarted(s) ==
    IF s.started THEN s
    ELSE Push([s EXCEPT !.started = TRUE], Frame("message_start", "none", 0, <<>>))

\* With omit_thinking the client has not seen the reasoning: the signature
\* must carry it, unless the upstream's own signature already does.
SignatureOf(s) ==
    IF s.signature = "none" \/ (s.omit /\ s.replay # <<>> /\ s.signature # "router")
    THEN Frame("signature", "encoded", s.at, s.replay)
    ELSE Frame("signature", s.signature, s.at, <<>>)

CloseOpen(s) ==
    LET signed == IF s.open # "thinking" THEN s
                  ELSE [Push(s, SignatureOf(s)) EXCEPT !.signature = "none", !.replay = <<>>]
    IN  IF s.open = "none" THEN s
        ELSE Push([signed EXCEPT !.open = "none"], Frame("stop", s.open, s.at, <<>>))

StartBlock(s, kind) ==
    Push([s EXCEPT !.next = @ + 1, !.at = s.next], Frame("start", kind, s.next, <<>>))

\* Mutant: the new block starts before the open one is closed.
EnsureBlockUnclosed(s, kind) ==
    IF s.open = kind THEN s ELSE [StartBlock(s, kind) EXCEPT !.open = kind]

EnsureBlock(s, kind) ==
    IF s.open = kind THEN s ELSE [StartBlock(CloseOpen(s), kind) EXCEPT !.open = kind]

\* From the first tool call on, output waits in deferred for finish(); equal
\* kinds in a row are merged.
Defer(s, kind, pieces) ==
    LET n == Len(s.deferred)
    IN  IF n > 0 /\ s.deferred[n].kind = kind
        THEN [s EXCEPT !.deferred[n].pieces = @ \o pieces]
        ELSE [s EXCEPT !.deferred = Append(@,
                 [kind |-> kind, pieces |-> pieces, signature |-> "none", index |-> 0])]

\* Mutant: text does not wait for the tool calls before it.
EmitTextAtOnce(s, pieces) ==
    LET b == EnsureBlock(s, "text")
    IN  Push(b, Frame("delta", "text", b.at, pieces))

EmitText(s, pieces) ==
    IF s.deferring THEN Defer(CloseOpen(s), "text", pieces)
    ELSE LET b == EnsureBlock(s, "text")
         IN  Push(b, Frame("delta", "text", b.at, pieces))

EmitThinking(s, pieces) ==
    IF s.deferring THEN Defer(CloseOpen(s), "thinking", pieces)
    ELSE LET b == [EnsureBlock(s, "thinking") EXCEPT !.replay = @ \o pieces]
         IN  IF s.omit \/ pieces = <<>> THEN b
             ELSE Push(b, Frame("delta", "thinking", b.at, pieces))

-----------------------------------------------------------------------------
(* on_raw_event, one operator for each member of a delta.                   *)

Semantic(s) == [s EXCEPT !.semantic = TRUE]

OnThinking(s, piece) == EmitThinking(Semantic(s), <<piece>>)

OnSignature(s, signature) ==
    LET t == Semantic(s)
        d == IF t.deferred # <<>> /\ Last(t.deferred).kind = "thinking"
             THEN t ELSE [t EXCEPT !.deferred = Append(@,
                      [kind |-> "thinking", pieces |-> <<>>, signature |-> "none", index |-> 0])]
    IN  IF t.deferring
        THEN [d EXCEPT !.deferred[Len(d.deferred)].signature = signature]
        ELSE [(IF t.open = "none" THEN EmitThinking(t, <<>>) ELSE t)
                 EXCEPT !.signature = signature]

OnText(s, piece) == EmitText(Semantic(s), <<piece>>)

OnRefusal(s, piece) == EmitText([Semantic(s) EXCEPT !.refused = TRUE], <<piece>>)

\* What appending more makes of the arguments.
ArgumentsWith(args, more) ==
    CASE more = ""                              -> args
      [] args = "" /\ more \in {"{", "{}"}    -> more
      [] args = "{" /\ more = "}"             -> "{}"
      [] OTHER                                  -> "bad"

\* The first fragment of index i takes its place in the order of output.
Called(s, i, piece) ==
    LET t == [Semantic(s) EXCEPT !.deferring = TRUE]
    IN  IF s.tools[i].piece # 0 THEN t
        ELSE [t EXCEPT !.tools[i].piece = piece,
                       !.deferred = Append(@, [kind |-> "tool", pieces |-> <<>>,
                                               signature |-> "none", index |-> i])]

Merged(s, i, fragment) ==
    [s EXCEPT !.tools[i].named = @ \/ fragment.named,
              !.tools[i].args = ArgumentsWith(@, fragment.args)]

OnToolCall(s, i, fragment, piece) ==
    LET t == Called(s, i, piece)
    IN  IF fragment.id = "" THEN Merged(t, i, fragment)
        ELSE IF t.tools[i].id \notin {"", fragment.id} THEN Fail(t)
        ELSE Merged([t EXCEPT !.tools[i].id = fragment.id], i, fragment)

\* The superseded function_call member has no id: call 0 is given one.
OnFunctionCall(s, fragment, piece) ==
    LET t == Called(s, 0, piece)
    IN  Merged([t EXCEPT !.tools[0].id = IF @ = "" THEN Generated ELSE @], 0, fragment)

-----------------------------------------------------------------------------
(* finish().                                                                *)

Calls(s) == {i \in Indices : s.tools[i].piece # 0}

IsRefusal(s, reason) == reason = "content_filter" \/ s.refused

\* function_call is treated as tool_calls.
CompleteTools(s, reason) == reason = "tool_calls" /\ ~IsRefusal(s, reason)

\* Mutant: the arguments are parsed as the block is written.
UnusableUnparsed(tool) == tool.id = "" \/ ~tool.named

Unusable(tool) == tool.id = "" \/ ~tool.named \/ tool.args \in {"{", "bad"}

WriteTool(s, i) ==
    LET b == StartBlock(s, "tool")
    IN  Push(Push(b, Frame("delta", "tool", b.at, <<s.tools[i].piece>>)),
             Frame("stop", "tool", b.at, <<>>))

\* One deferred item; a tool that is not complete becomes text.
Replay(s, item) ==
    CASE item.kind = "text"     -> EmitText(s, item.pieces)
      [] item.kind = "thinking" ->
           [EmitThinking(s, item.pieces) EXCEPT !.signature = item.signature]
      [] item.kind = "tool"     ->
           IF CompleteTools(s, s.reason) THEN WriteTool(CloseOpen(s), item.index)
           ELSE EmitText(CloseOpen(s), <<s.tools[item.index].piece>>)

\* The deferred items in their order.
Replayed(s) ==
    LET after[n \in 0..Len(s.deferred)] ==
            IF n = 0 THEN s ELSE Replay(after[n - 1], s.deferred[n])
    IN  after[Len(s.deferred)]

StopReason(s, reason) ==
    IF IsRefusal(s, reason) THEN "refusal"
    ELSE CASE reason = "stop"       -> "end_turn"
           [] reason = "length"     -> "max_tokens"
           [] reason = "tool_calls" -> "tool_use"

\* The reason finish() goes by: a stream that only says [DONE] is taken to
\* have stopped, but never to have completed its tool calls.
EffectiveReason(s) ==
    IF s.reason = "" THEN (IF Calls(s) = {} THEN "stop" ELSE "length") ELSE s.reason

CutOff(s, sawDone) == s.reason = "" /\ ~sawDone

Finish(s, sawDone) ==
    LET empty  == s.reason = "" /\ ~s.semantic /\ Calls(s) = {}
        reason == EffectiveReason(s)
        t == [CloseOpen(EnsureStarted(s)) EXCEPT !.reason = reason, !.deferring = FALSE]
        u == CloseOpen(Replayed(t))
    IN  IF \/ empty
           \/ CutOff(s, sawDone)
           \/ reason = "other"
           \/ CompleteTools(s, reason) /\ \E i \in Calls(s) : Unusable(s.tools[i])
        THEN Fail(s)
        ELSE Push(Push(u, Frame("message_delta", StopReason(s, reason), 0, <<>>)),
                  Frame("message_stop", "none", 0, <<>>))
=============================================================================
