# open-claude-router: a TLA+ model

The repository holds two Rust programs and a script that runs them.

* The **router** (`rust/`, port 3457) takes Anthropic Messages requests, turns
  them into OpenAI Chat Completions or Responses requests, and turns the answer,
  streamed or buffered, back. It keeps an **audit log**: NDJSON, one file per
  UTC day, at most 512 entries queued, and never in the way of forwarding.
* The **lens** (`lens/`, port 3458) tails that log into SQLite and serves a
  dashboard from it.
* `docker-entrypoint.sh` supervises both.

This directory models the parts in which order, failure and concurrency decide
whether the system is right. Data that no property looks at (texts, names, token
counts, JSON layout) is abstracted to model values.

## Components

| component | source | state | operations | what makes it correct | modules |
|---|---|---|---|---|---|
| audit log writer | `rust/src/model_log.rs` | `pending_writes`, the write lock, `Notify`, the file | `append`, writer task, `append_entry`, `flush`; also `log_io_error`, `cleanup_expired` | bounded, loses nothing silently, `flush` returns exactly when no task is left | `BoundedSink`, `LogWriter` |
| exchange lifecycle | `rust/src/model_log.rs`, `router.rs`, `main.rs` | `Exchange.terminal_recorded`, `StreamingCapture`, phase of `forward()` | `begin`, upstream call, record, two `Drop`s, shutdown | one terminal per exchange, on every way out | `ModelLog` over `BoundedSink` |
| Chat stream converter | `rust/src/streaming.rs` | `ChatStreamState`, the generator's position | `on_raw_event`, `finish`, yield, drop | a well-formed Anthropic stream with every piece of output in order | `ChatConverter`, `ChatStream`, `AnthropicWire`, `AnthropicClient` |
| Responses stream converter | `rust/src/streaming.rs`, `sse.rs`, `transform/responses.rs` | `ResponsesProgressiveState`, `ResponsesSseAggregator` | `on_raw_event`, `push_raw`, `finish` | the same, and text forwarded early never contradicts the rebuilt response | `ResponsesConverter`, `ResponsesStream` |
| buffered conversion | `rust/src/sse.rs`, `transform/response.rs` | none between calls | `aggregate_chat_sse`, the JSON conversion | the same message, streamed, aggregated or sent as JSON | `ChatAggregate`, `BufferedChat` |
| SSE decoder | `rust/src/sse.rs` | buffered bytes, the event's data | `push`, `finish`, `scan`; `parse_sse_bytes` | events do not depend on how the body is cut, and are not held back | `SseDecoder` |
| request conversion | `rust/src/transform/request.rs`, `responses.rs`, `mod.rs` | none: the client sends the whole history each time | `validate_request`, `transform_anthropic_request`, the Chat and the Responses request | a model reads the history that the client has, whichever upstream is asked | `MessagesRequest`, `UnifiedRequest`, `ChatRequest`, `ResponsesRequest`, composed in `Conversation` |
| identity maps | `rust/src/transform/identity.rs` | one map a request | `new`, `to_wire`, `from_wire` | no two names or ids share an alias | `AliasMap` |
| configuration, access control | `rust/src/auth.rs`, `upstream.rs`, `error.rs` | none | effort controls; header and key handling | the nearest effort a model supports | `RequestControls` |
| lens ingester | `lens/src/ingest.rs`, `db.rs` | tables `exchanges`, `exchange_bodies`, `ingest_state` | sweep, tail, apply an entry; also migrate | the tables, but for the time of a row, depend on the log's entries alone; retention holds | `LensIngest` |
| lens pricing, derivation, sessions | `lens/src/pricing.rs`, `derive.rs`, `session.rs` | a price list | `matched`, `estimate_usd_for_context` | a sum costs what its parts cost | `Pricing` |
| lens API and dashboard | `lens/src/api.rs`, `static/` | one cursor a connection; a cache of the overview | overview, sessions, list, change stream | the stream leaves nothing out; all views agree | `LensOverview`, `LensApi` |
| supervisor | `docker-entrypoint.sh` | two child processes, a failure count | wait, restart, terminate | the dashboard never takes forwarding down | `Entrypoint` |

How they interact: handlers call `append()` from any thread; writer tasks take
one async mutex in any order; the body of an upstream goes through `SseDecoder`
(or `parse_sse_bytes`) to a converter; a response body outlives its handler and
owns the `StreamingCapture`, which owns the `Exchange`, so that dropping the
body writes the terminal entry; the lens sees nothing of the router but the
file, and restores what the client saw with the router's own buffered
conversion.

What is hard: futures dropped at any `await` or `yield`; a `Notify` that stores
no permit; tokio's `File`, which reports a buffer written before it is; lines in
the file in another order than the events; a process killed between two SQLite
commits; output that must wait for a tool call to be complete while later output
is already there; the end of the protocol (`[DONE]`) and the end of the body,
which come in either order; two converters that must agree; a history that is
taken apart and put together again by a dozen passes; stamps of whole seconds; a
shell that learns of its children's deaths at its own pace. `PROJECT.json` lists
these hazards at their lines, with the properties that guard them.

## How the modules correspond to the code

**`BoundedSink`** is what the log promises its callers: an entry is accepted or
refused at once, at most `MaxPending` are outstanding, and a barrier (`flush()`)
passes only when none is. **`LogWriter`** is the code: `Enqueue` is `append()`'s
`fetch_update` and spawn, `TakeLock` ... `Notify` the writer task between its
awaits, `FlushCall` ... `FlushWake` the loop of `flush()`. tokio's `File` is
external: it hands buffers of 2 MiB to the blocking pool one at a time, and
`write_all` returns when the last is handed over, for `append_entry` calls no
`File::flush`. `LogWriter` refines `BoundedSink` (`ImplementsSink`,
`ImplementsFairSink`). It does not keep lines whole on file: `LinesWhole` fails.

**`ModelLog`** composes every exchange with the abstract sink: `forward()` up to
each early return, cancellation at each await, the two `Drop` implementations in
Rust's drop order, graceful shutdown. A client may stop reading or sending
(`Stall`) and go on (`Resume`) or leave (`Cancel`) whenever it likes. Logging is
enabled; without it there is nothing to model.

**`MessagesRequest`** is an Anthropic request and `validate_request`;
**`UnifiedRequest`** is `transform_anthropic_request`; **`ChatRequest`** and
**`ResponsesRequest`** are the two requests made from it, **`AliasMap`** the
names and call ids in them and **`RequestControls`** what stands between. A
payload (a text, an input, an image) is the number of the block it came with, so
that one that is lost, doubled or moved is seen; texts of the router's own
(markers, notices) keep what they say as a tag. These modules are operators
only. **`Conversation`** drives them with a client: it says things, asks either
upstream, stores the answer block by block, returns results, instructs, and
imports turns of another vendor. The answers of a Responses upstream go through
the part of `transform_responses_json` that decides what a client stores. The
answers of a Chat upstream bring thinking signed by the router, by the upstream
or with an empty signature (`Signatures`), and blocks of the upstream's own
tools (`Hosted`), which the router passes on as they are. The properties compare
what is sent with the history, never with the code's own intermediate values.
The user of the API behaves as the clients of the README do: every call gets its
result.

**`SseDecoder`** is the incremental decoder and the parser of whole bodies over
tokens (line ends, a field, a text, `[DONE]`, a bad byte), each of which counts
as a byte. A round of the loop of `scan` is `NextLine`; `Lines` repeats it over
the buffer.

**`ChatConverter`** holds the functions of `ChatStreamState` as operators on a
record; **`ChatStream`** is the generator around it. A generator can be dropped
only where it awaits or has yielded, which is what `ClientGone` allows. A piece
of output is the number of its arrival, so that order, loss and duplication are
visible; arguments of tool calls are abstracted to what `serde_json` tells
apart. **`AnthropicWire`** is the client's protocol as a state machine of its
own and **`AnthropicClient`** the mapping from frames to it: both stream drivers
refine `AnthropicWire` (`ImplementsWire`).

**`ResponsesConverter`** and **`ResponsesStream`** do the same for the Responses
protocol. There the same event goes to the aggregator and to the progressive
state, and `finish()` compares the two. A text is a sequence of pieces, each
named by item, part and number. The upstream (external) keeps a true response
and tells it by deltas, part snapshots, item snapshots and the terminal, each of
which may be missing, or be wrong; after a wrong one it says nothing but its
terminal. Audio, reasoning summaries and items named by `item_id` alone are left
out, a call always names its arguments, and `omit_thinking` is chosen where it
is first read, in `finish()`.

**`ChatAggregate`** is `aggregate_chat_sse` and the conversion of a whole Chat
message; **`BufferedChat`** feeds it the events that it feeds `ChatConverter`,
and compares the messages. Content arrays, audio and `thinking_blocks` are left
out.

**`LensIngest`** has an action for each statement of the ingester, since each
commits by itself: `Crash` may come between any two. A file is a sequence of
whole lines, one of them perhaps under way; byte offsets are counts of lines.
Beside the ingester the router writes in any order, days pass, and files are
removed or replaced. A row keeps the time (`ts`) of the entry that created it;
the statement's other columns are the same in every entry of an exchange, and of
what the later statements set, the outcome and the session key stand for the
rest. A `model_response` whose status is not 2xx is an event of its own, since
it gives another outcome. `updated_at` is left out, and so is what is derived
from a response, which depends on that response alone: it asks for the stored
requests but never gets them (see below).

**`Pricing`** and **`LensOverview`** are operators: `estimate_usd_for_context`
in whole numbers, and the one-pass and the multi-query overview, sessions and
list as they fold a table. **`LensApi`** is that table under the ingester,
reduced to what it leaves there, and one connection of the change stream: `Poll`
is the query with its limit (rows of one second come in any order), `Deliver` a
row sent.

**`Entrypoint`** has an action for each command of the script. What bash 5.2
makes of a child that dies, or of a signal that arrives, while the script is in
`wait`, in `sleep` or between commands is external; it was written down from the
shell of the base image (debian:bookworm-slim, bash 5.2.15). `Serves` is a
dashboard that has come up again and works; nothing in the script looks at it.

## What the runs show

| run | bounds | what it answers |
|---|---|---|
| `shutdown` | 3 entries, one of two buffers, queue of 2 (13,223 states); 2 restarts, 2 SIGTERMs (8,102) | the counter equals the entries unsettled and no entry vanishes (`EntriesAccounted`); the writer implements the sink, with its liveness; a crash loop of the dashboard ends, neither late nor early, with one dashboard at a time (`DashboardBounded`); the dashboard never stops the router (`RouterSpared`); a router that exits ends the container; SIGTERM ends it; a dashboard that exits comes back |
| `model_log` | 2 exchanges, queue of 2 (209,820) | one terminal per exchange; after shutdown every exchange sent has its entries settled or refused; nothing is appended after `flush()`; shutdown completes once no client stalls |
| `chat_stream` | 3 pieces: reasoning, text, two whole calls; or refusals, attachments, calls from fragments (1,311,908) | the stream is well formed, complete and in order, however it is cut; executable calls only when whole; no silent end, a stream cut off does not look finished, and the capture record tells it from a whole one (`EndsTruthfully`) |
| `responses_stream` | 2 items of 2 parts, 2 pieces (2,449,128) | as above, and early text agrees with the rebuilt response |
| `buffered_chat` | 3 pieces, 2 calls from fragments, 2 ids (522,672) | streamed, aggregated and JSON answers give the same message or all fail |
| `conversation` | 4 blocks on top of a question or of a turn with two calls whose aliases collide (468,748) | each upstream reads the whole history (`HistoryRead`), reasoning items come back as they were, calls stay paired and grouped, images are attributed, tool changes apply, and a history is refused for its known causes only |
| `sse_decoder` | every body of 7 tokens in chunks of up to 3 (410,365) | how a body is cut decides nothing; an event is passed on with the chunk that ends it |
| `lens_ingest` | 1 exchange, 2 days, 1 fault, batch of 2 (1,167,692) | the tables follow from the set of entries applied, but for the time of a row and what an entry given up half way adds; nothing is skipped; what has expired goes for good |
| `lens_api` | 3 exchanges, 4 seconds, at most 2 rows stamped in two seconds, polls of 3 (230,993) | the client catches up; the two overviews agree; costs add up over overview, sessions and pages |
| `stream_starves`, `torn_lines`, `done_at_eof` | as `lens_api` with 3 rows in two seconds and polls of 2; as `shutdown` without disk errors; as `chat_stream` | violations, see below |

Two instances hold systems that do not meet, one at a time, so that their states
add up and do not multiply. In `MCShutdown` the log writer runs beside a script
that has ended, or the script beside a writer without entries; they share no
state. `MCChatStream` has two upstreams, one with much to say in whole calls and
one that halts in the middle of calls, of which either is there.

The bounds are the least at which the interesting cases meet. Three log entries
are enough for a full queue, two tasks racing for the lock and a short line
between the halves of a long one (`LinesWhole`). Three pieces are enough for
output before, between and behind two calls. Two items of two parts are enough
for text behind a second part or another item. One exchange suffices for the
lens, since nothing in its tables relates two, and its requests and one of four
ends come in any order over two files. Four blocks are enough for an answer,
results with images and a question, or for a change of tools taken back; the
history that is given has the longest ids and the collision that no short
session reaches. Seven tokens hold two events with a line end of two bytes
between, and either bound is crossed within them. Three exchanges are enough to
cross the threshold between the overviews and the limit of a page. The
supervisor repeats itself after one restart; with two, giving up too early and
too late differ. `MaxFailures`, `MaxFaults`, `MaxPieces` and `MaxTerms` bound
what the environment does, never what the code does.

Deadlock is not checked: each of these systems stops (a server that has drained,
a body that is closed, a container that has ended).

### Fairness

* `LogWriter`: the runtime polls every runnable task, tokio's mutex is FIFO and
  the pool runs its jobs. Nothing is asked of the callers of `append()` and
  `flush()`.
* `ModelLog`: the runtime runs what can run, the writer gets on (`LogWriter`
  shows it), and an upstream call ends within the hour that `main.rs:30` gives
  it, its body included. Nothing is asked of an upstream, of arrivals or of the
  signal, nor of a client: it need not answer, read or leave. The hour is
  noticed only when the body is polled, and nothing polls it for a client that
  has stopped reading; no other timeout of the router ends such a connection. So
  `ShutdownCompletes` promises an end if from some time on no client stalls,
  and a client that stalls for ever holds the shutdown up.
* `LensIngest`: the ingester's thread runs, and an hour passes in the end.
* `LensApi`: the stream polls as long as its client is there, and the client
  reads. `Rate` is the load: below `Limit` the stream catches up, above it
  `stream_starves` shows that it need not.
* `Entrypoint`: the shell is scheduled, and a child that was told to stop does.
* The stream drivers have safety properties only.

### Disagreements found

Three runs end in a violation of what a line of the repository says, which
`PROJECT.json` quotes.

* `stream_starves`: the change stream asks for rows stamped from one second
  before its cursor on, oldest first, 200 at most, and moves the cursor to the
  newest it has read. With 200 rows or more in two seconds (the ingester working
  off a backlog) every poll returns the same rows, and the client never hears of
  the others, although `api.rs:278-280` says that it gets each of them. The
  page's own refresh, every 15 seconds (`index.html:1163`), softens this.
* `torn_lines`: the lock is released while the last buffer of a line longer than
  2 MiB is under way (`model_log.rs:622`), so that another line can land in it;
  the test `concurrent_appends_remain_valid_ndjson` has short entries. Bodies of
  up to 32 MiB are logged by the official image (README:440).
* `done_at_eof`: a `[DONE]` that is recognised only behind the end of the body
  is recorded as a body not read to its end (README:467). `EndsTruthfully` says
  of a whole message that `complete` and `protocol_complete` exclude each other,
  and nothing about the end of the body.

Others have no run of their own. Where a property of the runs meets one, its
comment says so and the property is stated on the side of the code, or leaves
the case out:

* `flush()` can return before the last buffer of a line is on file
  (`model_log.rs:391`, against its comment at 385). The runtime finishes a write
  that has begun, so that an orderly exit loses nothing by it; an error of that
  write is reported by nobody. `EntriesAccounted` allows a buffer in flight.
* `lens_failures` counts over the container's life although the comment
  (`docker-entrypoint.sh:20`) and README:447 say in a row. `DashboardBounded`
  speaks of failures in a row only (the history `streak`, set back by `Serves`).
* A router killed by a signal while the script sleeps before a restart is
  dropped from bash's job table; `wait -n` then waits for the dashboard alone,
  and the container stays up without a router (`docker-entrypoint.sh:6`,
  README:92). `RouterExitEndsContainer` and `StopsWhenTold` leave it out.
* An upstream's empty signature is taken for one, and the thinking, shown to the
  client with an empty signature, is refused when it comes back
  (`streaming.rs:555-579`, `request.rs:717`, README:327): a cause in
  `RefusedForCause`. So are the `server_tool_use` blocks of a Chat upstream
  (`response.rs:117`, `request.rs:586`), of which no document says anything.
* Citations of a text inside `mid_conv_system` are dropped (`request.rs:635`),
  though README:329 has them refused: no cause in `RefusedForCause`.
* A file that is replaced by one at least as long is read from the old offset
  (`ingest.rs:170`). `NothingSkipped` leaves replaced files out.
* Stored request bodies are looked for in a table without these columns
  (`ingest.rs:712`, `db.rs:57-70`), the error is taken for an absent row, and
  every response is derived with the default context. Were it mended, what is
  derived would depend on whether the requests came first on disk.
* The two overviews clamp cached tokens per row and on sums (`api.rs:654-660`,
  914-927), and differ for usage in which more is cached than sent; the finals
  of `MCLensApi` have none.

`buffered_chat` states agreement for the answers on which the two conversions
are meant to agree; `Known` in `BufferedChat` names the others, each of which
TLC shows to be a real difference: the `function_call` that `aggregate_chat_sse`
loses beside any other output (`sse.rs:420`, against README:337); calls under
`finish_reason: "stop"`, executable when aggregated, text when streamed; a call
whose arguments are never sent, `{}` when streamed, an error when aggregated; an
unknown finish reason behind a refusal, an error when streamed. A signature that
comes apart from its reasoning also ends up on different blocks; the model's
upstream does not send one.

Met while reading, outside the models:

* Audit log. A log directory that cannot be created at startup leaves the hourly
  cleaner unspawned; a retention beyond `chrono`'s range overflows
  (`model_log.rs:439`).
* Supervisor. A dashboard that dies during shutdown is started again.
* Answers. Events of a chunk in which a later line fails are lost with it; bytes
  behind `[DONE]` are checked for UTF-8 by `parse_sse_bytes` only.
* Requests. A single multimodal result among several has no marker, and
  README:320 relies on its place. Reasoning split over several thinking blocks
  is replayed joined by a line break. The branch for paired reasoning
  (`responses.rs:141-216`) is never reached.
* Lens. The cache of the overview is not single-flight once a client has
  disconnected: its handler's lock is released while the query runs. The
  migration drops a column default.

## What is proved

For every value of the constants, by TLAPS:

* `Shutdown_proofs` has the two ends of a shutdown, which share no state: the
  log writer and the supervisor.
  `WriterInvariant`: types, `PendingCounts` and `Places`
  (where entries can be: a task is not the lock's owner, nothing refused is
  under way, and a returned `flush()` has seen an empty queue) are inductive;
  `PendingCounts` alone is not, since the counter's decrement needs to know that
  the owner is counted once. From it `PendingCorrect`, `NothingVanishes` (each
  step keeps the place of an entry or moves it forward: `VanishStep`) and
  `WriterImplementsSink`, step by step under the mapping `SinkFate`,
  `SinkBarrier`. Assumed: `WriterAssumption` (entries are a set that does not
  contain `NoEntry`, the bounds are naturals). `WriterAccounts` states both as
  the property the run checks.
  `SupervisorInvariant`: `Counting` ties failures to
  launches at every command, `Relaunching` says the dashboard is down between
  sleep and launch, `Causes` and `Draining` trace the router's SIGTERM back to
  the container's. From it `RestartsAreBounded` (of dashboards that fail in a
  row) and `RouterProtected`.
* `ModelLog_proofs`. `LifeInvariant`: `Flags` gives the number of appends by the
  phase and by the flag that the `Drop` implementations go by, `Trail` says that
  the n-th append is the only n-th entry and which event it is, `Quiet` that
  nothing is left to append when `flush()` is called. `OneTerminal` alone is not
  inductive: that a terminal is always the third append is what excludes a
  second. From it `OneTerminalEach`, `TrailKept` and `NothingAppendedLate`.
  Assumed: `EntriesAssumption` (what entries are).
* `LensIngest_proofs`. `IngestInvariant`: `Attached` (between the statements of
  a sweep what has expired has no body, between those of an entry its row is
  there) and `Covered` (what was read was tried, but for the entry in hand), for
  which `InFile` keeps the entry where it was read while the file grows. From it
  `BodiesAttached` and `OffsetsTruthful`. `SumInvariant` adds what `Converges`
  rests on: outcome and key of a row sum up *some* set of events, all that were
  applied and of those given up half way as many as their first statement
  reached, and its time is that of one of them (`Summed`, and `Stored` for the
  bodies). Which set cannot be said: the row does not
  remember whether a failed entry got that far. One more event only widens the
  set (`UpdatedSums`) because an exchange ends once (`Written`, `EndedOnce`): a
  late cancellation would otherwise overwrite a response. From it
  `TablesConverge`. Assumed: `IngestAssumption`.
* `Algorithms_proofs`. A map of names or call ids is sound after `new()` and
  after each alias (`NewMapIsSound`, `AliasKeepsSound`), and in a sound map
  nothing shares a wire name (`NamesStayApart`), for any hash: one of the first
  n+1 probes is free when n names are used, by a pigeonhole argument on finite
  sets. Assumed: two probes of one name differ (the probe number is XORed into
  the hash). `ClampNearest`, `ClampMonotone`: an effort becomes the nearest the
  model has, and more never becomes less. `DecoderInvariant`, for every body,
  every way to cut it and every limit on an event: what the decoder has consumed
  reads as the parser of whole bodies reads it (`Read`, which follows
  `parse_sse_bytes` byte by byte), its buffer is the rest of what has arrived,
  and no ended line waits in it (`Settled`). Each `NextLine` moves this by one
  line and its end (`LineTaken`); a cut of the body could matter only between a
  CR and its LF, and a CR at the end of the buffer waits. When the decoder gives
  up on an event that is too long, so does the parser, sooner or later
  (`TooLong`). From it `ChunkingIsIrrelevant` and `DecoderIsPrompt`. Assumed
  (`DecoderAssumption`): the limits are positive.
* `ChatStream_proofs`. `ChatInvariant`, from which follow `OutputIsFaithful`,
  `EndsAreTold`, `ToolsAreWhole` and `StreamIsWire`: every property of the run
  `chat_stream`. `EndsAreTold` says of the audit record what `CaptureTruth`
  lists, which is not that the body was read to its end. What the client has
  seen is not inductive, since frames are yielded one by one; a *path* leads it
  over the frames still to be yielded, each of which the protocol allows, to a
  client that agrees with the converter's record (`Reaches`, `Live`, `Holds`).
  Each operator of the converter lengthens a path, `Receive` shortens it. Beside
  it the pieces are counted: a sent piece is told, waits in the open reasoning,
  or is deferred behind a call (`Spans`), and the replay of the deferred output
  preserves the order.
* `BufferedChat_proofs`. `AggregateIsLaidOut`: in `Ordered` a member has only
  what was sent, a call's place in the answer is one that was reached
  (`Brought`), and if the events came in the order of a message the blocks are
  the reasoning with its last signature, one text, and the calls, ascending
  (`LaidOut`). That the two messages agree is said of ended answers only and so
  is not inductive; the layout is, because an event in order comes behind
  members of its rank and lower only, which leaves the higher ones empty
  (`NotYet`). From it `JsonAlwaysAgrees`. The text of the blocks is one where
  the members have three; joined they are the same (`TextsGlued`), and what
  joins alike joins alike in front of the calls (`GluedConcat`). The fold of
  `Joined` is unfolded into a step for each block (`GluedRun`); the aggregate
  lists the calls in the order of their coming, the message in that of their
  indexes, and a set has one ascending sequence (`OrderFound`).
  `ConversionsStayInStep`: the blocks of the aggregate are those a client would
  have assembled from the frames so far, were the open block closed now
  (`View`), followed by what waits behind the first call (`Tracks`); both know
  the same calls, refusal and reason (`Agree`). What a client sees is not
  inductive, the open reasoning is signed only when its block is closed; `View`
  says what it will be. A signature goes to the last block in the one and to the
  last reasoning in the other, which are the same because it comes behind
  reasoning or at the beginning (`Knows`). A superseded `function_call` has no
  place among the aggregate's blocks and is the converter's call 0 (`Alone`).
  From it `AggregateAlwaysAgrees`, over the answers outside `Known`: `finish()`
  shows the deferred items as the blocks are converted (`ItemAlike`,
  `FinishShows`), and both fail, or end for the same reason (`EndsAlike`).
  Assumed of both: `ConverterAssumption`.
* `ResponsesStream_proofs`. `ResponsesInvariant`, from which follow
  `OutputIsFaithful`, `ForwardedAgrees`, `CallsAreExecutable`, `EndsAreTold` and
  `StreamIsWire`: every property of the run `responses_stream`. `Faithful` says
  that the aggregator's items are those of an honest upstream in type and parts,
  whichever of deltas, part and item snapshots came, and that what was forwarded
  is a beginning of the first part and all of it while nothing came between;
  this last clause is what makes the forwarded text extendable by the next
  delta. At the end the merged output is the upstream's (`HonestOutput`), its
  blocks hold its text (`WholeIs`), joining adjacent text blocks keeps it
  (`CoalescedSound`), and the last frames deliver what is missing
  (`FinishLeads`). Assumed of both drivers: only that the indexes and bounds are
  naturals.
* `LensApi_proofs`. `StreamInvariant` and `CursorLeavesNothing`: whatever the
  limit and the load, what the client has not been told of is still asked for
  (`CursorCovers`); that it is also sent needs the load to be below the limit,
  and is liveness. `OverviewsAlwaysAgree`: the loop and the queries give one
  overview, for any table, window, client and price list. The loop keeps of the
  rows it has met what the queries would say of them (`KeptGrows`: a sum, a
  count and a `GROUP BY` each grow by one row as the loop's entry does); the
  sums, in whatever order, exist by induction over finite sets (`SumExists`,
  `SumGrows`). `CostsAlwaysAddUp`: overview, sessions and pages give one cost. A
  price is linear in the tokens of a tier (`EstimateAdds`), so tokens may be
  summed up first (`TierCost`); a sum is that of the sums of its groups
  (`SumOfGroups`, for models and for sessions) and does not depend on the
  numbering (`SumOfImage`); the list is in a total order and so holds each row
  once (`ListingIs`), and its pages in a row are the list (`PagesAre`). Assumed
  (`FinalsAssumption`): an upstream does not report more tokens cached than sent
  nor more spent on reasoning than answered, and reports none where it reports
  neither input nor output. The code does not check it. Without the first the
  overviews differ, as said above; without the second a request without a
  price in the list has one in the overview.

The library's induction theorems take an operator as a parameter and cannot be
used; induction goes through sets instead: the least element of a set of
naturals exists by well-foundedness (`LeastNatural`), and a recursive function
exists because a longest approximation does (`ReplayDefined`,
`CoalescedDefined`, `ChoosingExists`). The converters write their recursions as
functions (`Replayed`, `Coalesced`) or with `FlattenSeq` (`Filled`) so that this
is possible.

Only model-checked: the liveness properties (`ImplementsFairSink`,
`ShutdownCompletes`, `ExpiredGone`, `CaughtUp`, the last three of `shutdown`),
because liveness under fairness and `ENABLED` are out of the prover's reach; and
`Conversation`. Its request conversions select with
`SelectSeq`, which tlapm takes for a primitive of `Sequences` that it cannot
expand, so nothing of what they select can be proved.

## What is not modelled, and the plan

Left out: token counting, stop sequences, `cache_control`, files by reference
and the parsing of headers and keys (string handling without state); what
`derive.rs` and `session.rs` read from one record; single records and static
files of the lens, and the cut of its sessions to the latest 200; audio and
reasoning summaries of the Responses protocol; the one-time backfills.

Planned, in this order:

1. `ErrorThrottle` (`log_io_error`: a report a minute, every error reported or
   counted) and `LogRetention` (`cleanup_expired`, the cleaner's start, large
   retentions), beside `LogWriter`, whose pool failures feed the one and whose
   files the other removes.
2. `LensMigrate` (one transaction, then `VACUUM`, re-entered on every open) and
   `OverviewCache`.
3. Proofs: `Conversation`, once its selections are written without `SelectSeq`.
4. `SseDecoder` in front of both drivers, which now model what it hands them.
