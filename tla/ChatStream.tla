----------------------------- MODULE ChatStream -----------------------------
(***************************************************************************)
(* One streamed Chat Completions response, from the upstream body to the   *)
(* client: convert_chat_sse_stream_with_tool_names of                      *)
(* rust/src/streaming.rs around the ChatConverter, the SSE decoder in      *)
(* front of it and the StreamingCapture of rust/src/model_log.rs beside    *)
(* it.                                                                     *)
(*                                                                         *)
(* The body stream is a generator: it runs from one await or yield to the  *)
(* next, and can be dropped, with everything it owns, only where it is     *)
(* suspended.  A chunk the decoder rejects yields none of the events in    *)
(* front of the fault; an event the converter rejects yields none of its   *)
(* frames.                                                                 *)
(***************************************************************************)
EXTENDS ChatConverter

CONSTANTS Members,    \* the members of a delta this upstream uses
          MaxPieces   \* bound: pieces of output in one message

VARIABLES
    pc,       \* "await", "chunk", "event", "yield", "suspended", "tail",
              \* "finish", "end" or "closed"
    next,     \* where the generator continues when out is empty
    member,   \* the member of the event's delta that may be read next
    conv,     \* the ChatStreamState
    out,      \* frames still to be yielded
    sent,     \* history: the kinds of the pieces the upstream sent
    stopped,  \* stopped_at_done
    eof,      \* history: the body was read to its end
    said,     \* history: the terminals the upstream gave, [DONE] or a reason
    capture,  \* protocol_complete and body_read_error
    record,   \* what the capture recorded, or NoRecord
    client,   \* what the client has seen
    gone      \* the client has disconnected

vars == <<pc, next, member, conv, out, sent, stopped, eof, said, capture,
          record, client, gone>>

NoRecord == [complete |-> FALSE, protocol |-> FALSE, cause |-> "unrecorded"]

Init ==
    /\ pc = "await"
    /\ next = "await"
    /\ member = 1
    /\ \E omitThinking \in BOOLEAN : conv = Fresh(omitThinking)
    /\ out = <<>>
    /\ sent = <<>>
    /\ stopped = FALSE
    /\ eof = FALSE
    /\ said = {}
    /\ capture = [protocol |-> FALSE, readError |-> FALSE]
    /\ record = NoRecord
    /\ client = NewClient
    /\ gone = FALSE

upstreamVars == <<sent, eof, said>>
captureVars  == <<capture, record>>
clientVars   == <<client, gone>>

\* yield these frames, then continue there.
Yield(frames, there) ==
    /\ out' = frames
    /\ next' = there
    /\ pc' = "yield"

\* Nothing reads the converter after finish() or a return.
Discard == conv' = Fresh(conv.omit)

YieldErrorAndReturn == Yield(<<ErrorFrame>>, "closed") /\ Discard

-----------------------------------------------------------------------------
(* upstream.next().await and decoder.push().                                *)

Chunk ==
    /\ pc = "await"
    /\ pc' = "chunk"
    /\ UNCHANGED <<next, member, conv, out, stopped, upstreamVars, captureVars, clientVars>>

Undecodable ==
    /\ pc \in {"await", "tail"}
    /\ YieldErrorAndReturn
    /\ UNCHANGED <<member, stopped, upstreamVars, captureVars, clientVars>>

ReadError ==
    /\ pc = "await"
    /\ capture' = [capture EXCEPT !.readError = TRUE]
    /\ YieldErrorAndReturn
    /\ UNCHANGED <<member, stopped, upstreamVars, record, clientVars>>

Eof ==
    /\ pc = "await"
    /\ eof' = TRUE
    /\ pc' = "tail"
    /\ UNCHANGED <<next, member, conv, out, sent, said, stopped, captureVars, clientVars>>

-----------------------------------------------------------------------------
(* The events of a chunk; decoder.finish() can yield one more event.        *)

ChunkEnds ==
    /\ pc \in {"chunk", "tail"}
    /\ pc' = IF pc = "chunk" THEN "await" ELSE "finish"
    /\ UNCHANGED <<next, member, conv, out, stopped, upstreamVars, captureVars, clientVars>>

\* The decoder stops at [DONE], and the loop with it.
Done ==
    /\ pc \in {"chunk", "tail"}
    /\ said' = said \cup {"done"}
    /\ stopped' = TRUE
    /\ pc' = "finish"
    /\ UNCHANGED <<next, member, conv, out, sent, eof, captureVars, clientVars>>

\* Malformed JSON, or an error member.
BadEvent ==
    /\ pc \in {"chunk", "tail"}
    /\ YieldErrorAndReturn
    /\ UNCHANGED <<member, stopped, upstreamVars, captureVars, clientVars>>

\* An event with a choice.  One without a choice, or after the finish
\* reason, changes nothing but the usage.
Event ==
    /\ pc \in {"chunk", "tail"}
    /\ conv.reason = ""
    /\ next' = IF pc = "chunk" THEN "chunk" ELSE "finish"
    /\ pc' = "event"
    /\ conv' = EnsureStarted(conv)
    /\ UNCHANGED <<member, out, stopped, upstreamVars, captureVars, clientVars>>

\* The members of a delta are read in one fixed order; content may be an
\* array of parts and tool_calls of calls.
Order == <<"reasoning_content", "signature", "content", "refusal", "tool_calls",
           "function_call", "annotations", "response_output_block">>

Read(name) ==
    /\ pc = "event"
    /\ name \in Members
    /\ \E position \in member..Len(Order) :
           /\ Order[position] = name
           /\ member' = IF name \in {"content", "tool_calls"} THEN position ELSE position + 1

Send(kind) ==
    /\ Len(sent) < MaxPieces
    /\ sent' = Append(sent, kind)

NextPiece == Len(sent) + 1

ReadThinking ==
    /\ Read("reasoning_content")
    /\ Send("thinking")
    /\ conv' = OnThinking(conv, NextPiece)

ReadSignature ==
    /\ Read("signature")
    /\ \E signature \in Signatures \ {"none"} : conv' = OnSignature(conv, signature)
    /\ UNCHANGED sent

ReadContent ==
    /\ Read("content")
    /\ Send("text")
    /\ conv' = OnText(conv, NextPiece)

ReadRefusal ==
    /\ Read("refusal")
    /\ Send("text")
    /\ conv' = OnRefusal(conv, NextPiece)

SendCall(i) == IF i \in Calls(conv) THEN UNCHANGED sent ELSE Send("tool")

ReadToolCall ==
    /\ Read("tool_calls")
    /\ \E i \in Indices, fragment \in Fragments :
           /\ SendCall(i)
           /\ conv' = OnToolCall(conv, i, fragment, NextPiece)

ReadFunctionCall ==
    /\ Read("function_call")
    /\ SendCall(0)
    /\ \E fragment \in Fragments : conv' = OnFunctionCall(conv, fragment, NextPiece)

\* Both become text.
ReadAttachment ==
    /\ Read("annotations") \/ Read("response_output_block")
    /\ Send("text")
    /\ conv' = OnText(conv, NextPiece)

ReadMember ==
    /\ \/ ReadThinking \/ ReadSignature \/ ReadContent \/ ReadRefusal
       \/ ReadToolCall \/ ReadFunctionCall \/ ReadAttachment
    /\ ~conv.failed
    /\ UNCHANGED <<pc, next, out, stopped, eof, said, captureVars, clientVars>>

\* The event's frames, with its finish reason noted; or an error instead.  An
\* upstream's own "length" is "stop" under another name and is left out.
EventEnds ==
    /\ pc = "event"
    /\ \/ /\ ~conv.failed
          /\ \E reason \in {"", "stop", "tool_calls", "content_filter", "other"} :
                 /\ conv' = [conv EXCEPT !.reason = reason, !.frames = <<>>]
                 /\ said' = said \cup (IF reason = "" THEN {} ELSE {"reason"})
          /\ Yield(conv.frames, next)
       \/ /\ conv.failed
          /\ YieldErrorAndReturn
          /\ UNCHANGED said
    /\ member' = 1
    /\ UNCHANGED <<stopped, sent, eof, captureVars, clientVars>>

-----------------------------------------------------------------------------
(* After the loop.                                                          *)

\* Mutant: an Err of finish() ends the stream without a word.
MarkAndFinishSilently ==
    /\ pc = "finish"
    /\ capture' = [capture EXCEPT !.protocol = stopped]
    /\ LET finished == Finish(conv, stopped)
       IN  Yield(IF finished.failed THEN <<>> ELSE finished.frames, "end")
    /\ Discard
    /\ UNCHANGED <<member, stopped, upstreamVars, record, clientVars>>

MarkAndFinish ==
    /\ pc = "finish"
    /\ capture' = [capture EXCEPT !.protocol = stopped]
    /\ LET finished == Finish(conv, stopped)
       IN  Yield(IF finished.failed THEN <<ErrorFrame>> ELSE finished.frames, "end")
    /\ Discard
    /\ UNCHANGED <<member, stopped, upstreamVars, record, clientVars>>

\* The generator ends or is dropped: so are the converter and its frames,
\* and the capture makes its record.
Close(complete) ==
    /\ pc' = "closed"
    /\ next' = "closed"
    /\ Discard
    /\ out' = <<>>
    /\ record' = [complete |-> complete, protocol |-> capture.protocol,
                  cause |-> CASE complete -> "none"
                              [] ~complete /\ capture.readError -> "read_error"
                              [] OTHER -> "body_cancelled"]

ShouldMarkComplete == ~stopped

End ==
    /\ pc = "end"
    /\ Close(ShouldMarkComplete)
    /\ UNCHANGED <<member, stopped, upstreamVars, capture, clientVars>>

-----------------------------------------------------------------------------
(* The client's side of a yield.                                            *)

Receive ==
    /\ pc \in {"yield", "suspended"}
    /\ out # <<>>
    /\ client' = Shown(client, Head(out), conv.omit)
    /\ out' = Tail(out)
    /\ pc' = "suspended"
    /\ UNCHANGED <<next, member, conv, stopped, upstreamVars, captureVars, gone>>

\* Every frame is out; a return drops the capture unfinished.
Resume ==
    /\ pc \in {"yield", "suspended"}
    /\ out = <<>>
    /\ \/ /\ next = "closed"
          /\ Close(FALSE)
       \/ /\ next # "closed"
          /\ pc' = next
          /\ next' = "await"
          /\ UNCHANGED <<conv, out, record>>
    /\ UNCHANGED <<member, stopped, upstreamVars, capture, clientVars>>

ClientGone ==
    /\ pc \in {"await", "suspended"}
    /\ gone' = TRUE
    /\ Close(FALSE)
    /\ UNCHANGED <<member, stopped, upstreamVars, capture, client>>

-----------------------------------------------------------------------------
Next ==
    \/ Chunk \/ Undecodable \/ ReadError \/ Eof
    \/ ChunkEnds \/ Done \/ BadEvent \/ Event \/ ReadMember \/ EventEnds
    \/ MarkAndFinish \/ End \/ Receive \/ Resume \/ ClientGone

Spec == Init /\ [][Next]_vars

-----------------------------------------------------------------------------
(* What a client sees of any upstream stream, however it is cut up, ends    *)
(* or breaks, is a prefix of a well-formed Anthropic message; in particular *)
(* no error follows an executable tool_use block.                           *)
Wire == INSTANCE AnthropicWire WITH
            stage <- client.stage, open <- client.open, blocks <- client.blocks,
            stop <- client.stop, tooled <- client.tooled

ImplementsWire == Wire!WireSpec

(* The client gets the pieces of output in the order the upstream sent      *)
(* them, each once, although output behind a tool call waits for the end of *)
(* the stream and reasoning may travel in a signature only; and a message   *)
(* that stops has delivered all of them, but for reasoning that a foreign   *)
(* router signature stands for.                                             *)
Fidelity ==
    LET got == client.got
    IN  /\ \A i \in 2..Len(got) : got[i - 1] < got[i]
        /\ client.stage = "stopped" =>
               \A p \in 1..Len(sent) :
                   \/ \E i \in 1..Len(got) : got[i] = p
                   \/ conv.omit /\ client.foreign /\ sent[p] = "thinking"

(* A client is handed tool_use blocks to execute only if the upstream       *)
(* finished its calls, refused nothing, and every call of the message has   *)
(* an id, a name and arguments that are an object.                          *)
ToolsExecutable ==
    [][(\E i \in 1..Len(out') : out'[i].kind = "tool") /\ pc' = "yield" =>
          /\ conv.reason = "tool_calls" /\ ~conv.refused
          /\ \A i \in Calls(conv) :
                 /\ conv.tools[i].id # "" /\ conv.tools[i].named
                 /\ conv.tools[i].args \in {"", "{}"}]_vars

(* What the audit record of the body may be relied on for: complete only    *)
(* after EOF, protocol_complete only after [DONE], a client that gets a     *)
(* whole message is not reported as an upstream read error, and a read      *)
(* error is not reported as a disconnect.  Of a message delivered whole it  *)
(* says whether [DONE] was recognised, twice: protocol_complete if it was,  *)
(* complete if it was not.  It does not say whether the body was read to    *)
(* its end; that is ReadToEndIsComplete, below.                             *)
CaptureTruth ==
    pc = "closed" =>
        /\ record.complete => eof
        /\ record.protocol => "done" \in said
        /\ client.stage = "stopped" /\ ~gone =>
               /\ record.protocol <=> "done" \in said
               /\ record.complete <=> ~record.protocol
        /\ record.cause = "read_error" => client.stage \notin {"stopped", "ending"}
        /\ capture.readError <=> record.cause = "read_error"

(* A client that stays is told how the message ended, whichever of the ways *)
(* out of the generator is taken.                                           *)
NeverSilent == pc = "closed" /\ ~gone => client.stage \in {"stopped", "failed"}

(* A stream that breaks off is not passed off as a message that ended: a    *)
(* client sees a stop reason only if the upstream gave a terminal.          *)
CutOffFails == client.stage \in {"ending", "stopped"} => said # {}

(* The client is told how the message ended, and the audit record says of   *)
(* it what CaptureTruth lists.                                              *)
EndsTruthfully == CaptureTruth /\ NeverSilent /\ CutOffFails

(* What the README says of the audit log: "complete" tells whether the HTTP *)
(* body was read to EOF.  The code does not keep it, even for a message     *)
(* delivered whole: a [DONE] that decoder.finish() recognises, behind the   *)
(* end of the body, is recorded as one that cut the body short.             *)
ReadToEndIsComplete ==
    pc = "closed" /\ eof /\ client.stage = "stopped" /\ ~gone => record.complete
=============================================================================
