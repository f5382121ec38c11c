----------------------------- MODULE BufferedChat -----------------------------
(***************************************************************************)
(* One Chat Completions answer on its three ways through the router: its   *)
(* events streamed (ChatConverter), the same events aggregated for a       *)
(* client that did not ask for a stream, and for the lens, which restores  *)
(* every recorded answer that way (ChatAggregate), and the same answer     *)
(* sent by the upstream as one JSON message.                               *)
(*                                                                         *)
(* An event of the model carries one member of a delta.  (Of an event with *)
(* calls and attachments the stream takes the calls first, the aggregate   *)
(* the attachments.)                                                       *)
(***************************************************************************)
EXTENDS ChatAggregate

CONSTANT MaxPieces   \* bound: pieces of output in one answer

VARIABLES
    conv,    \* the ChatStreamState
    agg,     \* the locals of aggregate_chat_sse
    sent,    \* history: the member that brought each piece
    signed,  \* history: the last signature
    ended    \* "no", "done" or "cut": how the events ended

vars == <<conv, agg, sent, signed, ended>>

Init ==
    /\ \E omitThinking \in BOOLEAN : conv = Fresh(omitThinking)
    /\ agg = NewAggregate
    /\ sent = <<>>
    /\ signed = "none"
    /\ ended = "no"

Going == ended = "no" /\ ~conv.failed /\ ~agg.failed

\* Behind the finish reason both look at error and usage only.
Delta == Going /\ conv.reason = ""

Piece == Len(sent) + 1

Send(member) ==
    /\ Len(sent) < MaxPieces
    /\ sent' = Append(sent, member)

Think ==
    /\ Delta
    /\ Send("thinking")
    /\ conv' = OnThinking(EnsureStarted(conv), Piece)
    /\ agg' = AddThinking(agg, Piece)
    /\ UNCHANGED <<signed, ended>>

\* An upstream signs the reasoning it has just sent, or reasoning it hides.
Sign ==
    /\ Delta
    /\ sent # <<>> => Last(sent) = "thinking"
    /\ \E signature \in Signatures \ {"none"} :
           /\ conv' = OnSignature(EnsureStarted(conv), signature)
           /\ agg' = AddSignature(agg, signature)
           /\ signed' = signature
    /\ UNCHANGED <<sent, ended>>

Say ==
    /\ Delta
    /\ Send("text")
    /\ conv' = OnText(EnsureStarted(conv), Piece)
    /\ agg' = AddText(agg, Piece)
    /\ UNCHANGED <<signed, ended>>

Attach ==
    /\ Delta
    /\ Send("attachment")
    /\ conv' = OnText(EnsureStarted(conv), Piece)
    /\ agg' = AddAttachment(agg, Piece)
    /\ UNCHANGED <<signed, ended>>

Decline ==
    /\ Delta
    /\ Send("refusal")
    /\ conv' = OnRefusal(EnsureStarted(conv), Piece)
    /\ agg' = AddRefusal(agg, Piece)
    /\ UNCHANGED <<signed, ended>>

\* An upstream uses tool_calls or the superseded function_call, not both.
Call ==
    /\ Delta /\ ~HasLegacy(agg)
    /\ \E i \in Indices, fragment \in Fragments :
           /\ IF i \in CallsOf(agg) THEN UNCHANGED sent ELSE Send("call")
           /\ conv' = OnToolCall(EnsureStarted(conv), i, fragment, Piece)
           /\ agg' = AddToolCall(agg, i, fragment, Piece)
    /\ UNCHANGED <<signed, ended>>

LegacyCall ==
    /\ Delta /\ CallsOf(agg) = {}
    /\ IF HasLegacy(agg) THEN UNCHANGED sent ELSE Send("function_call")
    /\ \E fragment \in Fragments :
           /\ conv' = OnFunctionCall(EnsureStarted(conv), fragment, Piece)
           /\ agg' = AddFunctionCall(agg, fragment, Piece)
    /\ UNCHANGED <<signed, ended>>

FinishReason ==
    /\ Delta
    /\ \E reason \in {"stop", "length", "tool_calls", "content_filter", "other"} :
           /\ conv' = [EnsureStarted(conv) EXCEPT !.reason = reason]
           /\ agg' = [agg EXCEPT !.reason = reason]
    /\ UNCHANGED <<sent, signed, ended>>

\* An event with an error member: the conversion of the payload fails too.
ErrorEvent ==
    /\ Going
    /\ conv' = Fail(conv)
    /\ agg' = [agg EXCEPT !.failed = TRUE]
    /\ UNCHANGED <<sent, signed, ended>>

\* [DONE], or the end of the body without it.
End ==
    /\ Going
    /\ ended' \in {"done", "cut"}
    /\ UNCHANGED <<conv, agg, sent, signed>>

Next ==
    \/ Think \/ Sign \/ Say \/ Attach \/ Decline \/ Call \/ LegacyCall
    \/ FinishReason \/ ErrorEvent \/ End

Spec == Init /\ [][Next]_vars

-----------------------------------------------------------------------------
(* The three messages, when the events have ended.                          *)

\* What a client reassembles from frames.
Assembled(frames) ==
    LET Block(content, f) ==
          LET last == Len(content)
          IN  CASE f.type = "start" -> Append(content, Shows(f.kind, <<>>, "none", <<>>))
                [] f.type = "delta" -> [content EXCEPT ![last].pieces = @ \o f.pieces]
                [] f.type = "signature" ->
                     [content EXCEPT ![last].signature = f.kind, ![last].carries = f.pieces]
                [] OTHER -> content
    IN  FoldLeft(Block, <<>>, frames)

Streamed ==
    LET finished == Finish(conv, ended = "done")
    IN  IF conv.failed \/ finished.failed THEN NoMessage
        ELSE [failed |-> FALSE, content |-> Assembled(finished.frames),
              stop |-> finished.frames[Len(finished.frames) - 1].kind]

Buffered == Transformed(Aggregated(agg, ended = "done"), conv.omit)

\* The same answer, had the upstream sent it as JSON.
Json == Transformed([agg EXCEPT !.blocks = <<>>, !.signature = signed], conv.omit)

\* Adjacent text is the same text, however it is divided into blocks.
Joined(message) ==
    LET Join(content, block) ==
          IF content # <<>> /\ block.kind = "text" /\ Last(content).kind = "text"
          THEN [content EXCEPT ![Len(content)].pieces = @ \o block.pieces]
          ELSE Append(content, block)
    IN  [message EXCEPT !.content = FoldLeft(Join, <<>>, @)]

LegacyAlone == HasLegacy(agg) => agg.blocks = <<>>

\* Answers on which the two conversions are known to differ (README).
Known ==
    \/ ~LegacyAlone
    \/ agg.reason = "stop" /\ (CallsOf(agg) # {} \/ HasLegacy(agg))
    \/ agg.reason = "other" /\ agg.refusal # <<>>
    \/ \E tool \in {agg.tools[i] : i \in CallsOf(agg)} \cup {agg.legacy} :
           tool.piece # 0 /\ tool.args = ""

(* A client gets the same message, the same blocks in the same order with   *)
(* the same reasoning in their signatures and the same stop reason, or an   *)
(* error in both cases, whether it asked for a stream or not.               *)
AggregateAgrees ==
    /\ conv.failed = agg.failed
    /\ ended # "no" /\ ~Known => Joined(Streamed) = Joined(Buffered)

\* The order in which an Anthropic message made of JSON shows the members.
Rank(member) == CASE member = "thinking" -> 1 [] member = "text" -> 2
                  [] member = "attachment" -> 3 [] member = "refusal" -> 4
                  [] OTHER -> 5

InJsonOrder ==
    /\ \A p, q \in 1..Len(sent) : p < q => Rank(sent[p]) <= Rank(sent[q])
    /\ \A i, j \in CallsOf(agg) : i < j => agg.tools[i].piece < agg.tools[j].piece

(* It makes no difference whether an upstream sends an answer as one JSON   *)
(* message or as events in the same order.                                  *)
JsonAgrees ==
    ended # "no" /\ agg.reason # "" /\ InJsonOrder /\ LegacyAlone =>
        Joined(Json) = Joined(Buffered)
=============================================================================
