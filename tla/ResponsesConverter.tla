-------------------------- MODULE ResponsesConverter --------------------------
(***************************************************************************)
(* The conversion of a streamed OpenAI response, as operators on two state *)
(* records that see the same events: ResponsesSseAggregator (rust/src/     *)
(* sse.rs), which rebuilds the whole response from deltas and snapshots,   *)
(* and ResponsesProgressiveState (rust/src/streaming.rs), which forwards   *)
(* the first text at once.  At the end the rebuilt response becomes an     *)
(* Anthropic message (transform/responses.rs) and the client is sent what  *)
(* it has not seen of it.                                                  *)
(*                                                                         *)
(* A text is a sequence of pieces <<slot, part, n>>: the n-th piece of a   *)
(* part of an output item.  The arguments of a call are a text of one      *)
(* piece, without which they are not JSON.  Audio and reasoning summaries  *)
(* are left out, and an event names its item by output_index.              *)
(***************************************************************************)
EXTENDS AnthropicClient, FiniteSets, SequencesExt

CONSTANTS LastSlot,   \* output items have indexes 0..LastSlot
          LastPart    \* and their parts 0..LastPart

ASSUME SlotAssumption == LastSlot \in Nat /\ LastPart \in Nat

Slots == 0..LastSlot
Parts == 0..LastPart

Kinds == {"text", "refusal", "reasoning", "arguments"}

TypeOf(kind) == CASE kind \in {"text", "refusal"} -> "message"
                  [] kind = "reasoning"           -> "reasoning"
                  [] kind = "arguments"           -> "function_call"

NoPart == [kind |-> "none", text |-> <<>>]

\* named: the id and the name of a call are there; sealed: reasoning comes
\* with its encrypted content; cut: a call has status incomplete.
NoItem == [type |-> "none", parts |-> [c \in Parts |-> NoPart],
           named |-> FALSE, sealed |-> FALSE, cut |-> FALSE]

Whole(text) == text # <<>> /\ text[1][3] = 1

\* What f has at the indexes of S, in their order.
Filled(f, S, last) ==
    FlattenSeq([k \in 1..(last + 1) |-> IF k - 1 \in S THEN <<f[k - 1]>> ELSE <<>>])

-----------------------------------------------------------------------------
(* ResponsesSseAggregator.                                                  *)

NoTerminal == [status |-> "none", output |-> <<>>]

NewAggregator ==
    [items |-> [i \in Slots |-> NoItem], final |-> {}, terminal |-> NoTerminal,
     failed |-> FALSE]

WithText(item, c, kind, text) ==
    [item EXCEPT !.type = TypeOf(kind), !.parts[c] = [kind |-> kind, text |-> text]]

\* A snapshot has closed the part; arguments are never closed.
Final(a, i, c) == <<i, c>> \in a.final

AddDelta(a, i, c, kind, piece) ==
    IF Final(a, i, c) THEN a
    ELSE [a EXCEPT !.items[i] = WithText(@, c, kind, Append(@.parts[c].text, piece))]

\* A .done event must extend what the deltas said.
AddDone(a, i, c, kind, text) ==
    IF ~IsPrefix(a.items[i].parts[c].text, text) THEN [a EXCEPT !.failed = TRUE]
    ELSE [a EXCEPT !.items[i] = WithText(@, c, kind, text),
                   !.final = IF kind = "arguments" THEN @ ELSE @ \cup {<<i, c>>}]

Agree(s, t) == IsPrefix(s, t) \/ IsPrefix(t, s)

Longer(s, t) == IF Len(t) > Len(s) THEN t ELSE s

Given(item) == {c \in Parts : item.parts[c].kind # "none"}

\* A snapshot may say less or more than the stream, but nothing else; and if
\* it lists parts it lists those the stream has.
Fit(item, snapshot) ==
    /\ item.type = snapshot.type
    /\ Given(snapshot) = {} \/ Given(item) \subseteq Given(snapshot)
    /\ \A c \in Given(item) \cap Given(snapshot) :
           /\ item.parts[c].kind = snapshot.parts[c].kind
           /\ Agree(item.parts[c].text, snapshot.parts[c].text)

Merge(item, snapshot) ==
    [item EXCEPT
        !.parts  = [c \in Parts |->
                       IF snapshot.parts[c].kind = "none" THEN item.parts[c]
                       ELSE [kind |-> snapshot.parts[c].kind,
                             text |-> Longer(item.parts[c].text, snapshot.parts[c].text)]],
        !.named  = @ \/ snapshot.named,
        !.sealed = @ \/ snapshot.sealed,
        !.cut    = @ \/ snapshot.cut]

AddItem(a, i, snapshot) ==
    IF a.items[i] # NoItem /\ ~Fit(a.items[i], snapshot) THEN [a EXCEPT !.failed = TRUE]
    ELSE [a EXCEPT
             !.items[i] = IF @ = NoItem THEN snapshot ELSE Merge(@, snapshot),
             !.final = @ \cup {<<i, c>> : c \in {d \in Parts :
                                  /\ snapshot.parts[d].kind \in Kinds \ {"arguments"}
                                  /\ snapshot.parts[d].text # <<>>}}]

AddTerminal(a, terminal) == [a EXCEPT !.terminal = terminal]

-----------------------------------------------------------------------------
(* ResponsesSseAggregator::finish().                                        *)

Streamed(a) == {i \in Slots : a.items[i] # NoItem}

Listed(output, i) == i < Len(output)

\* A call the stream has named must be in the terminal output, named again or
\* as a bare skeleton.
CallsConfirmed(a) ==
    LET output == a.terminal.output
    IN  \A i \in Slots :
            a.items[i].type = "function_call" /\ a.items[i].named =>
                /\ Listed(output, i)
                /\ output[i + 1].type = "function_call"
                /\ output[i + 1].named \/ output[i + 1] = [NoItem EXCEPT !.type = "function_call"]

\* Streamed items behind the terminal output are taken in turn; a gap is an
\* error.
OutputFits(a) ==
    LET output == a.terminal.output
    IN  output # <<>> =>
            \A i \in Streamed(a) :
                IF Listed(output, i) THEN Fit(a.items[i], output[i + 1])
                ELSE \A j \in Len(output)..i : j \in Streamed(a)

Output(a) ==
    LET output == a.terminal.output
    IN  [k \in 1..Len(output) |->
            IF k - 1 \in Streamed(a) THEN Merge(a.items[k - 1], output[k]) ELSE output[k]]
        \o Filled(a.items, {i \in Streamed(a) : ~Listed(output, i)}, LastSlot)

-----------------------------------------------------------------------------
(* transform_responses_json().                                              *)

HasRefusal(output) ==
    \E k \in 1..Len(output) : \E c \in Parts :
        output[k].parts[c].kind = "refusal" /\ output[k].parts[c].text # <<>>

Refused(output, status) == HasRefusal(output) \/ status = "filtered"

Incomplete(status) == status \in {"incomplete", "filtered"}

CutCall(item, status) == item.type = "function_call" /\ (Incomplete(status) \/ item.cut)

\* Mutant: only the call that was cut short becomes text.
ExecutableAlone(output, status, k) ==
    ~Refused(output, status) /\ ~CutCall(output[k], status)

\* One call cut short, or a refusal, and every call becomes text.
Executable(output, status, k) ==
    ~Refused(output, status) /\ \A j \in 1..Len(output) : ~CutCall(output[j], status)

Convertible(output, status, omit) ==
    /\ status # "failed"
    /\ \A k \in 1..Len(output) :
           LET item == output[k]
               text == item.parts[0].text
           IN  /\ omit /\ item.type = "reasoning" /\ text # <<>> => item.sealed
               /\ item.type = "function_call"
                     /\ ~Refused(output, status) /\ ~CutCall(item, status)
                  => item.named /\ Whole(text)

Block(kind, pieces) == [kind |-> kind, pieces |-> pieces]

BlocksOf(output, status, k, omit) ==
    LET item == output[k]
        text == item.parts[0].text
    IN  CASE item.type = "reasoning" ->
                 IF omit /\ ~item.sealed THEN <<>> ELSE <<Block("thinking", text)>>
          [] item.type = "function_call" ->
                 <<Block(IF Executable(output, status, k) THEN "tool" ELSE "text", text)>>
          [] item.type = "message" ->
                 LET parts == Filled(item.parts, Given(item), LastPart)
                 IN  [n \in 1..Len(parts) |-> Block("text", parts[n].text)]

Joined(done, block) ==
    IF done # <<>> /\ block.kind = "text" /\ Last(done).kind = "text"
    THEN [done EXCEPT ![Len(done)].pieces = @ \o block.pieces]
    ELSE Append(done, block)

Coalesced(blocks) ==
    LET done[n \in 0..Len(blocks)] ==
            IF n = 0 THEN <<>> ELSE Joined(done[n - 1], blocks[n])
    IN  done[Len(blocks)]

Content(output, status, omit) ==
    Coalesced(FlattenSeq([k \in 1..Len(output) |-> BlocksOf(output, status, k, omit)]))

StopReason(output, status) ==
    IF Refused(output, status) THEN "refusal"
    ELSE IF Incomplete(status) \/ \E k \in 1..Len(output) : CutCall(output[k], status)
    THEN "max_tokens"
    ELSE IF \E k \in 1..Len(output) : output[k].type = "function_call" THEN "tool_use"
    ELSE "end_turn"

\* aggregator.finish().and_then(transform_responses_json)
Message(a, omit) ==
    LET output == Output(a)
        status == a.terminal.status
        ok     == /\ status # "none"
                  /\ CallsConfirmed(a) /\ OutputFits(a)
                  /\ Convertible(output, status, omit)
    IN  IF ok THEN [ok |-> TRUE, content |-> Content(output, status, omit),
                    stop |-> StopReason(output, status)]
        ELSE [ok |-> FALSE, content |-> <<>>, stop |-> "none"]

-----------------------------------------------------------------------------
(* ResponsesProgressiveState.                                               *)

NewProgressive == [blocked |-> FALSE, started |-> FALSE, emitted |-> <<>>, frames |-> <<>>]

\* Anything but a message, before the first text: the client must have it in
\* order, so all text waits.
SeesType(p, type) ==
    IF p.started \/ type = "message" THEN p ELSE [p EXCEPT !.blocked = TRUE]

\* Mutant: the part is not looked at.
FirstItem(i, c) == i = 0

FirstPart(i, c) == i = 0 /\ c = 0

SeesText(p, i, c, piece) ==
    IF p.blocked \/ ~FirstPart(i, c) THEN [p EXCEPT !.blocked = TRUE]
    ELSE [p EXCEPT !.started = TRUE,
                   !.emitted = Append(@, piece),
                   !.frames = (IF p.started THEN <<>>
                               ELSE <<Frame("message_start", "none", 0, <<>>),
                                      Frame("start", "text", 0, <<>>)>>)
                              \o <<Frame("delta", "text", 0, <<piece>>)>>]

BlockFrames(block, index, omit) ==
    LET hidden == block.pieces = <<>> \/ (omit /\ block.kind = "thinking")
    IN  <<Frame("start", block.kind, index, <<>>)>>
        \o (IF hidden THEN <<>> ELSE <<Frame("delta", block.kind, index, block.pieces)>>)
        \o (IF block.kind # "thinking" THEN <<>>
            ELSE <<Frame("signature", "encoded", index, block.pieces)>>)
        \o <<Frame("stop", block.kind, index, <<>>)>>

BlocksFrom(content, first, omit) ==
    FlattenSeq([k \in 1..(Len(content) - first + 1) |->
                   BlockFrames(content[first + k - 1], first + k - 2, omit)])

EndFrames(stop) == <<Frame("message_delta", stop, 0, <<>>), Frame("message_stop", "none", 0, <<>>)>>

\* Is the text the client has seen a beginning of the message?
Continues(p, content) ==
    /\ content # <<>> /\ content[1].kind = "text"
    /\ IsPrefix(p.emitted, content[1].pieces)

\* Mutant: only the blocks after the first are sent.
RestNothing(p, content) == <<>>

\* What the client has not seen of the text block that is open.
Rest(p, content) ==
    LET seen == Len(p.emitted)
        text == content[1].pieces
    IN  IF seen = Len(text) THEN <<>>
        ELSE <<Frame("delta", "text", 0, SubSeq(text, seen + 1, Len(text)))>>

\* Mutant: the text block that is open is not closed.
FinishFramesUnclosed(p, message, omit) ==
    (IF p.started THEN Rest(p, message.content)
     ELSE <<Frame("message_start", "none", 0, <<>>)>>)
    \o BlocksFrom(message.content, IF p.started THEN 2 ELSE 1, omit)
    \o EndFrames(message.stop)

FinishFrames(p, message, omit) ==
    IF ~p.started
    THEN <<Frame("message_start", "none", 0, <<>>)>>
         \o BlocksFrom(message.content, 1, omit) \o EndFrames(message.stop)
    ELSE Rest(p, message.content) \o <<Frame("stop", "text", 0, <<>>)>>
         \o BlocksFrom(message.content, 2, omit) \o EndFrames(message.stop)
=============================================================================
