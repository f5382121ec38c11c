------------------------------ MODULE SseDecoder ------------------------------
(***************************************************************************)
(* rust/src/sse.rs: the two readers of a text/event-stream.  A body that   *)
(* is streamed on goes through IncrementalSseDecoder, in whatever chunks   *)
(* the network cuts it into; one that is to be answered whole goes through *)
(* parse_sse_bytes.                                                        *)
(*                                                                         *)
(* A body is a sequence of tokens that stand for its bytes.  Each counts   *)
(* as one byte against the bounds; where a token is more than one byte a   *)
(* cut within it is a cut behind the token before, the decoder does not    *)
(* look at a line before its end.                                          *)
(***************************************************************************)
EXTENDS Integers, FiniteSets, SequencesExt

CONSTANTS MaxEventBytes, MaxEventLines,  \* MAX_EVENT_BYTES, MAX_EVENT_LINES
          MaxBytes                       \* bound: the length of the body

ASSUME DecoderAssumption == {MaxEventBytes, MaxEventLines, MaxBytes} \subseteq Nat \ {0}

CR == "CR"
LF == "LF"
Field == "data:"
Done == "[DONE]"
Invalid == "invalid"     \* a byte that makes no UTF-8
Tokens == {CR, LF, Field, Done, "x", Invalid}

IsEnd(token) == token \in {CR, LF}

-----------------------------------------------------------------------------
(* Lines and events, which both readers take alike.                         *)

\* An event in progress: its data lines, and what it has cost.
NoEvent == [data_lines |-> <<>>, event_size |-> 0, event_lines |-> 0]

Costs(e, line) ==
    [e EXCEPT !.event_size  = @ + Len(line) + 1,
              !.event_lines = IF line = <<>> THEN @ ELSE @ + 1]

TooLarge(e) == e.event_size > MaxEventBytes \/ e.event_lines > MaxEventLines

\* Only data counts: a comment and any other field are passed over.
Takes(e, line) ==
    IF line # <<>> /\ Head(line) = Field THEN [e EXCEPT !.data_lines = Append(@, Tail(line))] ELSE e

\* Line feeds between data lines are white space to trim().
IsDone(data_lines) == FlattenSeq(data_lines) = <<Done>>

\* What an empty line, or the end, makes of the event in progress.
Dispatched(data_lines) == IF data_lines = <<>> \/ IsDone(data_lines) THEN <<>> ELSE <<data_lines>>

-----------------------------------------------------------------------------
(* parse_sse_bytes().                                                       *)

\* A line ends with LF, CR or both; what is behind the last end is a line
\* unless it is empty.
AfterToken(s, token) ==
    CASE token = LF /\ s.cr -> [s EXCEPT !.cr = FALSE]
      [] IsEnd(token) /\ ~(token = LF /\ s.cr) ->
             [lines |-> Append(s.lines, s.line), line |-> <<>>, cr |-> token = CR]
      [] OTHER -> [s EXCEPT !.line = Append(@, token), !.cr = FALSE]

AfterTokens(bytes) ==
    LET after[n \in 0..Len(bytes)] ==
            IF n = 0 THEN [lines |-> <<>>, line |-> <<>>, cr |-> FALSE]
            ELSE AfterToken(after[n - 1], bytes[n])
    IN  after[Len(bytes)]

split_sse_lines(bytes) ==
    LET end == AfterTokens(bytes)
    IN  [ended |-> end.lines, rest |-> IF end.line = <<>> THEN <<>> ELSE <<end.line>>]

\* The locals of the loop; status: "reading", "done" or "failed".
OverLine(s, line) ==
    LET e == Costs(s.event, line)
    IN  CASE s.status # "reading" -> s
          [] s.status = "reading" /\ TooLarge(e) -> [s EXCEPT !.status = "failed"]
          [] s.status = "reading" /\ ~TooLarge(e) /\ line = <<>> ->
                 [events |-> s.events \o Dispatched(e.data_lines), event |-> NoEvent,
                  status |-> IF IsDone(e.data_lines) THEN "done" ELSE "reading"]
          [] OTHER -> [s EXCEPT !.event = Takes(e, line)]

OverLines(lines) ==
    LET after[n \in 0..Len(lines)] ==
            IF n = 0 THEN [events |-> <<>>, event |-> NoEvent, status |-> "reading"]
            ELSE OverLine(after[n - 1], lines[n])
    IN  after[Len(lines)]

\* ... of a text; the bytes are checked for being one before.
Parsed(bytes) ==
    LET split == split_sse_lines(bytes)
        s     == OverLines(split.ended \o split.rest)
    IN  IF s.status # "reading" THEN s
        ELSE [s EXCEPT !.events = @ \o Dispatched(s.event.data_lines),
                       !.status = IF IsDone(s.event.data_lines) THEN "done" ELSE "reading"]

-----------------------------------------------------------------------------
(* IncrementalSseDecoder.                                                   *)

VARIABLES
    received,  \* the body so far
    decoder,   \* the members of the decoder
    events,    \* what the driver got from it
    ended      \* how the driver's loop ended, or "no"

vars == <<received, decoder, events, ended>>

Idle == [buffer |-> <<>>, scan_offset |-> 0, event |-> NoEvent, status |-> "reading", out |-> <<>>]

dispatch(d) ==
    [d EXCEPT !.out = @ \o Dispatched(d.event.data_lines),
              !.status = IF IsDone(d.event.data_lines) THEN "done" ELSE @,
              !.event = NoEvent]

process_line(d, line) ==
    LET e == Costs(d.event, line)
    IN  CASE Invalid \in ToSet(line) \/ TooLarge(e) -> [d EXCEPT !.status = "failed"]
          [] OTHER -> IF line = <<>> THEN dispatch([d EXCEPT !.event = e])
                      ELSE [d EXCEPT !.event = Takes(e, line)]

\* Mutant: what is behind the line is taken for searched already.
DrainedUnsearched(d, consume) ==
    [d EXCEPT !.buffer = SubSeq(@, consume + 1, Len(@)), !.scan_offset = Len(d.buffer) - consume]

Drained(d, consume) ==
    [d EXCEPT !.buffer = SubSeq(@, consume + 1, Len(@)), !.scan_offset = 0]

\* Mutant: a carriage return ends its line at once.
WaitsNever(d, index, eof) == FALSE

\* A carriage return at the end of the buffer may be half of a line end.
Waits(d, index, eof) == d.buffer[index] = CR /\ index = Len(d.buffer) /\ ~eof

\* A round of the loop of scan(): the next line in the buffer that has its
\* end, or, when there is none, where to search on.
NextLine(d, eof) ==
    LET ends  == {i \in (d.scan_offset + 1)..Len(d.buffer) : IsEnd(d.buffer[i])}
        index == CHOOSE i \in ends : \A j \in ends : i <= j
        both  == /\ d.buffer[index] = CR
                 /\ index < Len(d.buffer) /\ d.buffer[index + 1] = LF
        line  == SubSeq(d.buffer, 1, index - 1)
    IN  CASE d.status # "reading" -> d
          [] d.status = "reading" /\ ends = {} -> [d EXCEPT !.scan_offset = Len(d.buffer)]
          [] OTHER -> IF Waits(d, index, eof) THEN [d EXCEPT !.scan_offset = index - 1]
                      ELSE Drained(process_line(d, line), IF both THEN index + 1 ELSE index)

\* The loop: no more rounds than there are bytes, each takes one at least.
Lines(d, eof) ==
    LET after[n \in 0..Len(d.buffer)] ==
            IF n = 0 THEN d ELSE NextLine(after[n - 1], eof)
    IN  after[Len(d.buffer)]

Bounded(d) ==
    IF d.status = "reading" /\ d.event.event_size + Len(d.buffer) > MaxEventBytes
    THEN [d EXCEPT !.status = "failed"] ELSE d

\* What is left at the end is a line and ends an event.
AtEnd(d) ==
    LET last == IF d.buffer = <<>> THEN d
                ELSE [process_line(d, d.buffer) EXCEPT !.buffer = <<>>, !.scan_offset = 0]
    IN  IF d.status # "reading" THEN d
        ELSE IF last.status = "reading" THEN dispatch(last) ELSE last

scan(d, eof) ==
    LET searched == Bounded(Lines([d EXCEPT !.out = <<>>], eof))
        cleared  == IF searched.status = "done" THEN [searched EXCEPT !.buffer = <<>>, !.scan_offset = 0]
                    ELSE searched
    IN  IF eof THEN AtEnd(cleared) ELSE cleared

-----------------------------------------------------------------------------
(* The driver: the loop of both converters in rust/src/streaming.rs.        *)

Init == received = <<>> /\ decoder = Idle /\ events = <<>> /\ ended = "no"

\* The events of a chunk with an error in it are lost with it.
Get(d) ==
    /\ decoder' = d
    /\ events' = IF d.status = "failed" THEN events ELSE events \o d.out

Chunks == UNION {[1..n -> Tokens] : n \in 1..3}

Push ==
    /\ ended = "no"
    /\ \E chunk \in Chunks :
           /\ Len(received) + Len(chunk) <= MaxBytes
           /\ received' = received \o chunk
           /\ Get(scan([decoder EXCEPT !.buffer = @ \o chunk], FALSE))
    /\ ended' = IF decoder'.status = "reading" THEN "no" ELSE decoder'.status

Finish ==
    /\ ended = "no"
    /\ Get(scan(decoder, TRUE))
    /\ ended' = IF decoder'.status = "reading" THEN "closed" ELSE decoder'.status
    /\ UNCHANGED received

Next == Push \/ Finish

Spec == Init /\ [][Next]_vars

-----------------------------------------------------------------------------

(* However a body is cut, the streamed events are those that parse_sse_bytes *)
(* finds in it, it ends with [DONE] in both or in neither, and fails in      *)
(* neither or in both; an error only takes events away, from the end.  What  *)
(* is behind [DONE] is of no account to the stream, be it a text or not.     *)
ChunkingIrrelevant ==
    LET whole == Parsed(received)
    IN  CASE ended = "no"     -> TRUE
          [] ended = "failed" -> /\ whole.status = "failed" \/ Invalid \in ToSet(received)
                                 /\ IsPrefix(events, whole.events)
          [] ended = "closed" -> /\ whole.status = "reading" /\ Invalid \notin ToSet(received)
                                 /\ events = whole.events
          [] ended = "done"   -> whole.status = "done" /\ events = whole.events

(* An event is passed on with the chunk that ends it, not with a later one:  *)
(* nothing that is whole is left waiting, but for a carriage return whose    *)
(* line feed may follow.                                                     *)
Prompt ==
    ended = "no" /\ received # <<>> /\ Last(received) # CR =>
        events = OverLines(split_sse_lines(received).ended).events
=============================================================================
