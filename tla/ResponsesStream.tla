--------------------------- MODULE ResponsesStream ---------------------------
(***************************************************************************)
(* One streamed OpenAI response, from the upstream body to the client:     *)
(* convert_responses_sse_stream of rust/src/streaming.rs around the        *)
(* ResponsesConverter, with the StreamingCapture of rust/src/model_log.rs  *)
(* beside it.  Suspension, drop and errors are those of ChatStream, but    *)
(* the capture is finished before the last frames are yielded.             *)
(*                                                                         *)
(* The upstream is in the middle of producing a response; each event tells *)
(* of it.  It may also contradict itself or send a delta behind the        *)
(* snapshot that closes a part: then it is not honest any more.            *)
(***************************************************************************)
EXTENDS ResponsesConverter

CONSTANT MaxPieces   \* bound: pieces of text and arguments in one response

VARIABLES
    pc,       \* "await", "chunk", "yield", "suspended", "tail", "finish", "end"
              \* or "closed"
    next,     \* where the generator continues when out is empty
    omit,     \* omit_thinking, chosen when it is first looked at
    agg,      \* the ResponsesSseAggregator
    prog,     \* the ResponsesProgressiveState
    out,      \* frames still to be yielded
    truth,    \* history: the response the upstream has produced so far
    honest,   \* history: the upstream has never contradicted it
    stopped,  \* stopped_at_done
    eof,      \* history: the body was read to its end
    capture,  \* protocol_complete and body_read_error
    record,   \* what the capture recorded, or NoRecord
    client,   \* what the client has seen
    gone      \* the client has disconnected

vars == <<pc, next, omit, agg, prog, out, truth, honest, stopped, eof, capture,
          record, client, gone>>

upstreamVars  == <<truth, honest>>
converterVars == <<agg, prog>>
captureVars   == <<capture, record>>
clientVars    == <<client, gone>>

NoRecord == [complete |-> FALSE, protocol |-> FALSE, cause |-> "unrecorded"]

NoTruth == [i \in Slots |-> NoItem]

Init ==
    /\ pc = "await"
    /\ next = "await"
    /\ omit = FALSE
    /\ agg = NewAggregator
    /\ prog = NewProgressive
    /\ out = <<>>
    /\ truth = NoTruth
    /\ honest = TRUE
    /\ stopped = FALSE
    /\ eof = FALSE
    /\ capture = [protocol |-> FALSE, readError |-> FALSE]
    /\ record = NoRecord
    /\ client = NewClient
    /\ gone = FALSE

\* yield these frames, if any, then continue there.
Yield(frames, there) ==
    /\ out' = frames
    /\ next' = there
    /\ pc' = IF frames = <<>> THEN there ELSE "yield"

YieldErrorAndReturn == Yield(<<ErrorFrame>>, "closed")

\* What the converter has gathered, and what is remembered of the upstream,
\* matters no more.
Forget ==
    /\ agg' = NewAggregator
    /\ prog' = NewProgressive
    /\ truth' = NoTruth
    /\ honest' = TRUE

-----------------------------------------------------------------------------
(* The body: chunks, and what goes wrong with them.                         *)

Chunk ==
    /\ pc = "await"
    /\ pc' = "chunk"
    /\ UNCHANGED <<next, omit, out, stopped, eof, converterVars, upstreamVars, captureVars, clientVars>>

ChunkEnds ==
    /\ pc \in {"chunk", "tail"}
    /\ pc' = IF pc = "chunk" THEN "await" ELSE "finish"
    /\ UNCHANGED <<next, omit, out, stopped, eof, converterVars, upstreamVars, captureVars, clientVars>>

\* The decoder rejects a chunk, or an event is malformed.
Malformed ==
    /\ pc \in {"await", "chunk", "tail"}
    /\ YieldErrorAndReturn
    /\ Forget
    /\ UNCHANGED <<omit, stopped, eof, captureVars, clientVars>>

ReadError ==
    /\ pc = "await"
    /\ capture' = [capture EXCEPT !.readError = TRUE]
    /\ YieldErrorAndReturn
    /\ Forget
    /\ UNCHANGED <<omit, stopped, eof, record, clientVars>>

Eof ==
    /\ pc = "await"
    /\ eof' = TRUE
    /\ pc' = "tail"
    /\ UNCHANGED <<next, omit, out, stopped, converterVars, upstreamVars, captureVars, clientVars>>

\* [DONE] ends the loop; behind the end of the body nobody asks for it.
Done ==
    /\ pc \in {"chunk", "tail"}
    /\ stopped' = (stopped \/ pc = "chunk")
    /\ pc' = "finish"
    /\ UNCHANGED <<next, omit, out, eof, converterVars, upstreamVars, captureVars, clientVars>>

-----------------------------------------------------------------------------
(* The events.  Each goes to the aggregator, then to the progressive state; *)
(* behind a terminal event both ignore it.                                  *)

Open == pc \in {"chunk", "tail"} /\ agg.terminal = NoTerminal

\* Bound: nothing but the terminal event follows a contradiction.
Producing == Open /\ honest

Process(a, p, produced, still) ==
    /\ IF a.failed THEN YieldErrorAndReturn /\ Forget
       ELSE /\ agg' = a
            /\ prog' = [p EXCEPT !.frames = <<>>]
            /\ truth' = produced
            /\ honest' = still
            /\ Yield(p.frames, IF pc = "chunk" THEN "chunk" ELSE "finish")
    /\ UNCHANGED <<omit, stopped, eof, captureVars, clientVars>>

Produced == FoldSet(LAMBDA i, n : n + FoldSet(LAMBDA c, m : m + Len(truth[i].parts[c].text),
                                              0, Parts), 0, Slots)

\* An item has one type and a part one kind; only messages have several
\* parts; whether reasoning is sealed and a call is cut short shows later.
MayBe(i, c, kind) ==
    /\ truth[i].type \in {"none", TypeOf(kind)}
    /\ truth[i].parts[c].kind \in {"none", kind}
    /\ TypeOf(kind) # "message" => c = 0

Grown(item, i, c, kind) ==
    WithText(item, c, kind,
             Append(item.parts[c].text, <<i, c, Len(item.parts[c].text) + 1>>))

\* An item of which nothing has been told: its fate is known to the upstream.
Fresh(type, fate) ==
    [NoItem EXCEPT !.type = type, !.named = type = "function_call",
                   !.sealed = fate /\ type = "reasoning",
                   !.cut = fate /\ type = "function_call"]

Nature(i, type) ==
    IF truth[i].type # "none" THEN {truth[i]}
    ELSE {Fresh(type, fate) : fate \in BOOLEAN}

Sees(i, c, kind, piece) ==
    IF TypeOf(kind) = "message" THEN SeesText(prog, i, c, piece)
    ELSE SeesType(prog, TypeOf(kind))

\* The item after one more piece of the part, which no event has told yet.
OneMore(i, c, kind) ==
    IF Produced < MaxPieces /\ MayBe(i, c, kind)
    THEN {Grown(item, i, c, kind) : item \in Nature(i, TypeOf(kind))}
    ELSE {}

Delta(i, c, kind) ==
    /\ Producing
    /\ \E grown \in OneMore(i, c, kind) :
           LET piece == Last(grown.parts[c].text)
           IN  Process(AddDelta(agg, i, c, kind, piece), Sees(i, c, kind, piece),
                       [truth EXCEPT ![i] = grown], ~Final(agg, i, c))

Wrong(i, c) == <<<<i, c, 0>>>>

\* A .done event: the whole text of the part, perhaps with a piece that no
\* delta told, or a wrong one.
PartDone(i, c, kind) ==
    /\ Producing
    /\ \/ /\ truth[i].parts[c].kind = kind
          /\ \E text \in {truth[i].parts[c].text, Wrong(i, c)} :
                 Process(AddDone(agg, i, c, kind, text), SeesType(prog, TypeOf(kind)),
                         truth, text # Wrong(i, c))
       \/ \E grown \in OneMore(i, c, kind) :
              Process(AddDone(agg, i, c, kind, grown.parts[c].text),
                      SeesType(prog, TypeOf(kind)),
                      [truth EXCEPT ![i] = grown], ~Final(agg, i, c))

\* output_item.added: the item without its text.
ItemAdded(i, type) ==
    /\ Producing
    /\ truth[i].type = "none"
    /\ \E item \in Nature(i, type) :
           Process(AddItem(agg, i, [item EXCEPT !.sealed = FALSE, !.cut = FALSE]),
                   SeesType(prog, type), [truth EXCEPT ![i] = item], TRUE)

Bare(item) == [NoItem EXCEPT !.type = item.type]

Garbled(item, i) ==
    [item EXCEPT !.parts[0] = [kind |-> IF @.kind # "none" THEN @.kind
                                        ELSE IF item.type = "message" THEN "text"
                                        ELSE IF item.type = "reasoning" THEN "reasoning"
                                        ELSE "arguments",
                               text |-> Wrong(i, 0)]]

Contiguous(S) == \A n \in S : 0..n \subseteq S

Complete(i) == truth[i].type # "none" /\ Contiguous(Given(truth[i]))

\* output_item.done: all of the item, perhaps with a piece that no delta told,
\* none of its text, or a wrong one.
ItemDone(i) ==
    /\ Producing
    /\ \/ /\ Complete(i)
          /\ \E snapshot \in {truth[i], Bare(truth[i]), Garbled(truth[i], i)} :
                 Process(AddItem(agg, i, snapshot), SeesType(prog, truth[i].type),
                         truth, snapshot # Garbled(truth[i], i))
       \/ \E kind \in Kinds : \E grown \in OneMore(i, 0, kind) :
              /\ Contiguous(Given(grown))
              /\ Process(AddItem(agg, i, grown), SeesType(prog, grown.type),
                         [truth EXCEPT ![i] = grown], ~Final(agg, i, 0))

\* "failed" stands for "cancelled" too: both are handled and refused alike.
Statuses == {"completed", "incomplete", "filtered", "failed"}

\* The response as it is, its items bare or garbled, some of it, or none.
Terminal(status) ==
    LET used == {i \in Slots : truth[i].type # "none"}
        full == [k \in 1..Cardinality(used) |-> truth[k - 1]]
    IN  /\ Open
        /\ Contiguous(used) /\ \A i \in used : Complete(i)
        /\ \E output \in {full, [k \in 1..Len(full) |-> Bare(full[k])],
                          [k \in 1..Len(full) |-> Garbled(full[k], k - 1)]} :
           \E listed \in 0..Len(full) :
               Process(AddTerminal(agg, [status |-> status,
                                         output |-> SubSeq(output, 1, listed)]),
                       prog, truth,
                       /\ honest /\ listed \in {0, Len(full)}
                       /\ \A k \in 1..listed : output[k] # Garbled(full[k], k - 1))

Event ==
    \/ \E i \in Slots, c \in Parts, kind \in Kinds : Delta(i, c, kind) \/ PartDone(i, c, kind)
    \/ \E i \in Slots, type \in {"message", "reasoning", "function_call"} : ItemAdded(i, type)
    \/ \E i \in Slots : ItemDone(i)
    \/ \E status \in Statuses : Terminal(status)

-----------------------------------------------------------------------------
(* After the loop.                                                          *)

Recorded(complete, now) ==
    [complete |-> complete, protocol |-> now.protocol,
     cause |-> CASE complete                        -> "none"
                 [] ~complete /\ now.readError  -> "read_error"
                 [] ~complete /\ ~now.readError -> "body_cancelled"]

\* Mutant: [DONE] counts as the end of the body.
ShouldMarkCompleteAlways == TRUE

ShouldMarkComplete == ~stopped

LastFrames(ok, message, hidden) ==
    IF ok THEN FinishFrames(prog, message, hidden) ELSE <<ErrorFrame>>

\* They are one chunk, of which the client may only get a beginning.
Finish ==
    /\ pc = "finish"
    /\ omit' \in BOOLEAN
    /\ LET message == Message(agg, omit')
           ok      == message.ok /\ (prog.started => Continues(prog, message.content))
       IN  /\ capture' = [capture EXCEPT !.protocol = ok]
           /\ record' = IF ShouldMarkComplete THEN Recorded(TRUE, capture') ELSE record
           /\ Yield(LastFrames(ok, message, omit'), "end")
    /\ UNCHANGED <<stopped, eof, converterVars, upstreamVars, clientVars>>

\* The generator returns or is dropped, and so is the capture.
Close ==
    /\ pc' = "closed"
    /\ next' = "closed"
    /\ out' = <<>>
    /\ record' = IF record = NoRecord THEN Recorded(FALSE, capture) ELSE record

Receive ==
    /\ pc \in {"yield", "suspended"}
    /\ out # <<>>
    /\ client' = Shown(client, Head(out), omit)
    /\ out' = Tail(out)
    /\ pc' = "suspended"
    /\ UNCHANGED <<next, omit, stopped, eof, gone, converterVars, upstreamVars, captureVars>>

Resume ==
    /\ pc \in {"suspended", "end"} /\ out = <<>>
    /\ \/ /\ next \in {"closed", "end"}
          /\ Close
       \/ /\ next \notin {"closed", "end"}
          /\ pc' = next
          /\ UNCHANGED <<next, out, record>>
    /\ UNCHANGED <<omit, stopped, eof, capture, converterVars, upstreamVars, clientVars>>

ClientGone ==
    /\ pc \in {"await", "suspended"}
    /\ gone' = TRUE
    /\ Close
    /\ IF next = "end" THEN UNCHANGED <<converterVars, upstreamVars>> ELSE Forget
    /\ UNCHANGED <<omit, stopped, eof, capture, client>>

-----------------------------------------------------------------------------
Next ==
    \/ Chunk \/ ChunkEnds \/ Malformed \/ ReadError \/ Eof \/ Done
    \/ Event \/ Finish \/ Receive \/ Resume \/ ClientGone

Spec == Init /\ [][Next]_vars

-----------------------------------------------------------------------------
(* As for a Chat upstream, the client sees a beginning of a well-formed     *)
(* Anthropic message, whether its text was forwarded at once or rebuilt,    *)
(* and no executable tool call in a message that fails or is cut short.     *)
Wire == INSTANCE AnthropicWire WITH
            stage <- client.stage, open <- client.open, blocks <- client.blocks,
            stop <- client.stop, tooled <- client.tooled

ImplementsWire == Wire!WireSpec

TextOf(item) == FlattenSeq([k \in 1..(LastPart + 1) |-> item.parts[k - 1].text])

WholeText == FlattenSeq([k \in 1..(LastSlot + 1) |-> TextOf(truth[k - 1])])

(* A message that stops has delivered the response of an honest upstream:   *)
(* every piece of it once and in the order of its items and parts, in       *)
(* whatever order, by delta or by snapshot, the pieces arrived.             *)
Fidelity ==
    client.stage = "stopped" /\ honest => client.got = WholeText

(* Text forwarded at first-token latency never turns out to be wrong: if    *)
(* the events of an honest upstream convert to a message at all, the text   *)
(* already sent is a beginning of it, so that the stream fails only where   *)
(* the buffered conversion of the same events would.                        *)
ProgressiveAgrees ==
    pc = "finish" /\ honest /\ prog.started =>
        \A hidden \in BOOLEAN :
            LET message == Message(agg, hidden)
            IN  message.ok => Continues(prog, message.content)

(* A call is handed to the client for execution only if the response is     *)
(* complete, refuses nothing and cuts none of its calls short.              *)
ToolsExecutable ==
    client.tooled =>
        /\ agg.terminal.status = "completed"
        /\ ~HasRefusal(Output(agg))
        /\ honest => \A i \in Slots :
               truth[i].type = "function_call" =>
                   Whole(truth[i].parts[0].text) /\ ~(Output(agg)[i + 1]).cut

(* The audit record of the body: complete only if the body was read to its  *)
(* end, and of a message that stopped complete exactly then, and protocol-  *)
(* complete as well; a read error is not taken for a disconnect.  (When an  *)
(* event behind the end of the body cannot be converted, the record is not  *)
(* complete although the body was read.)                                    *)
CaptureTruth ==
    pc = "closed" =>
        /\ record.complete => eof
        /\ client.stage = "stopped" => record.protocol /\ record.complete = eof
        /\ capture.readError <=> record.cause = "read_error"

(* A client that stays is told how the message ended.                       *)
NeverSilent == pc = "closed" /\ ~gone => client.stage \in {"stopped", "failed"}

(* Both sides are told truthfully how the exchange ended.                   *)
EndsTruthfully == CaptureTruth /\ NeverSilent
=============================================================================
