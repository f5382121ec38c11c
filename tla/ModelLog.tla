------------------------------ MODULE ModelLog ------------------------------
(***************************************************************************)
(* The life of every exchange in the router and the audit trail it leaves: *)
(* forward() in rust/src/router.rs drives an Exchange of                   *)
(* rust/src/model_log.rs through begin, the upstream call and either a     *)
(* buffered or a streamed response, and Rust's drop order decides which    *)
(* terminal entry is written when the client goes away.  The entries go to *)
(* the BoundedSink, which LogWriter implements; main() shuts both down.    *)
(*                                                                         *)
(* A handler future can be cancelled (its client has disconnected) only at *)
(* an await; each action below is the code between two awaits, except that *)
(* begin's two appends are two actions, because writer tasks on other      *)
(* threads run between them, and that drops are actions of their own.      *)
(***************************************************************************)
EXTENDS BoundedSink

CONSTANT Exchanges   \* the requests the router will ever accept

Requests  == {"client_request", "model_request"}
Terminals == {"model_response", "model_transport_error", "model_cancelled"}

\* An exchange never makes four appends; the fourth number is there so that
\* a superfluous append would be a new entry.
Calls == 1..4

ASSUME EntriesAssumption ==
    Entries = [x : Exchanges, ev : Requests \cup Terminals, n : Calls]

VARIABLES
    phase,      \* how far forward() and the response body have come
    recorded,   \* Exchange.terminal_recorded
    finished,   \* StreamingCapture.finished
    calls,      \* history: how many appends the exchange has made
    stalled,    \* exchanges whose client is connected but sends or reads no more
    server      \* "running", or "draining" after the shutdown signal

lifeVars == <<phase, recorded, finished, calls, stalled, server>>
vars == <<sinkVars, lifeVars>>

Phases == {"idle", "accepted", "rejected", "begun", "waiting", "reading",
           "streaming", "dropCapture", "dropExchange", "closed"}

Init ==
    /\ SinkInit
    /\ phase = [x \in Exchanges |-> "idle"]
    /\ recorded = [x \in Exchanges |-> FALSE]
    /\ finished = [x \in Exchanges |-> FALSE]
    /\ calls = [x \in Exchanges |-> 0]
    /\ stalled = {}
    /\ server = "running"

Goto(x, from, to) ==
    /\ phase[x] = from
    /\ phase' = [phase EXCEPT ![x] = to]

Log(x, ev) ==
    /\ calls' = [calls EXCEPT ![x] = @ + 1]
    /\ LET e == [x |-> x, ev |-> ev, n |-> calls[x] + 1]
       IN  Accept(e) \/ Refuse(e)

NoLog == UNCHANGED <<sinkVars, calls>>

-----------------------------------------------------------------------------
(* The handler, up to the upstream call.                                    *)

Arrive(x) ==
    /\ server = "running"
    /\ Goto(x, "idle", "accepted")
    /\ NoLog
    /\ UNCHANGED <<recorded, finished, stalled, server>>

\* The handler is called with the whole request body: it waits for a client
\* that stalls while sending it.  A guard of the handler or of forward()
\* refuses the request: no Exchange exists yet and nothing is logged.
Reject(x) ==
    /\ x \notin stalled
    /\ Goto(x, "accepted", "rejected")
    /\ NoLog
    /\ UNCHANGED <<recorded, finished, stalled, server>>

BeginClientRequest(x) ==
    /\ x \notin stalled
    /\ Goto(x, "accepted", "begun")
    /\ Log(x, "client_request")
    /\ UNCHANGED <<recorded, finished, stalled, server>>

BeginModelRequest(x) ==
    /\ Goto(x, "begun", "waiting")
    /\ Log(x, "model_request")
    /\ UNCHANGED <<recorded, finished, stalled, server>>

-----------------------------------------------------------------------------
(* The upstream call and its response.                                      *)

TransportError(x) ==
    /\ Goto(x, "waiting", "dropExchange")
    /\ Log(x, "model_transport_error")
    /\ recorded' = [recorded EXCEPT ![x] = TRUE]
    /\ UNCHANGED <<finished, stalled, server>>

\* mark_upstream_response_started, then either the body is read to its end,
\* or the Exchange moves into a StreamingCapture.
ResponseStarts(x) ==
    /\ Goto(x, "waiting", "reading") \/ Goto(x, "waiting", "streaming")
    /\ NoLog
    /\ UNCHANGED <<recorded, finished, stalled, server>>

\* Mutant: the terminal is appended but not noted in the Exchange.
ResponseUnnoted(x) ==
    /\ Goto(x, "reading", "dropExchange")
    /\ Log(x, "model_response")
    /\ UNCHANGED <<recorded, finished, stalled, server>>

\* response or response_read_error: recorded before the status is looked at
\* and before anything is converted.
Response(x) ==
    /\ Goto(x, "reading", "dropExchange")
    /\ Log(x, "model_response")
    /\ recorded' = [recorded EXCEPT ![x] = TRUE]
    /\ UNCHANGED <<finished, stalled, server>>

-----------------------------------------------------------------------------
(* StreamingCapture: finish() consumes it; every other way out of the body  *)
(* stream (a converter error, [DONE], the client gone) just drops it.  A    *)
(* client that stalls does not stop the stream at once: the buffers below   *)
(* it take what they have room for.                                         *)

CaptureFinish(x) ==
    /\ Goto(x, "streaming", "dropCapture")
    /\ Log(x, "model_response")
    /\ recorded' = [recorded EXCEPT ![x] = TRUE]
    /\ finished' = [finished EXCEPT ![x] = TRUE]
    /\ UNCHANGED <<stalled, server>>

CaptureAbandon(x) ==
    /\ Goto(x, "streaming", "dropCapture")
    /\ NoLog
    /\ UNCHANGED <<recorded, finished, stalled, server>>

DropCapture(x) ==
    /\ Goto(x, "dropCapture", "dropExchange")
    /\ \/ finished[x] /\ NoLog /\ UNCHANGED recorded
       \/ /\ ~finished[x]
          /\ Log(x, "model_response")
          /\ recorded' = [recorded EXCEPT ![x] = TRUE]
    /\ UNCHANGED <<finished, stalled, server>>

-----------------------------------------------------------------------------
(* The client: it stops sending or reading, goes on, or disconnects while   *)
(* the server awaits it or the upstream.                                    *)

Stall(x) ==
    /\ phase[x] \in {"accepted", "waiting", "reading", "streaming"}
    /\ stalled' = stalled \cup {x}
    /\ UNCHANGED <<sinkVars, phase, recorded, finished, calls, server>>

Resume(x) ==
    /\ x \in stalled
    /\ stalled' = stalled \ {x}
    /\ UNCHANGED <<sinkVars, phase, recorded, finished, calls, server>>

Cancel(x) ==
    /\ \/ Goto(x, "accepted", "rejected")
       \/ Goto(x, "waiting", "dropExchange")
       \/ Goto(x, "reading", "dropExchange")
       \/ Goto(x, "streaming", "dropCapture")
    /\ stalled' = stalled \ {x}
    /\ NoLog
    /\ UNCHANGED <<recorded, finished, server>>

\* Mutant: no Drop implementation.
DropExchangeSilently(x) ==
    /\ Goto(x, "dropExchange", "closed")
    /\ NoLog
    /\ UNCHANGED <<recorded, finished, stalled, server>>

DropExchange(x) ==
    /\ Goto(x, "dropExchange", "closed")
    /\ \/ recorded[x] /\ NoLog /\ UNCHANGED recorded
       \/ /\ ~recorded[x]
          /\ Log(x, "model_cancelled")
          /\ recorded' = [recorded EXCEPT ![x] = TRUE]
    /\ UNCHANGED <<finished, stalled, server>>

-----------------------------------------------------------------------------
(* main(): the signal, the graceful shutdown, flush().                      *)

ShutdownSignal ==
    /\ server = "running"
    /\ server' = "draining"
    /\ UNCHANGED <<sinkVars, phase, recorded, finished, calls, stalled>>

\* Mutant: the shutdown does not wait for response bodies.
DrainedHandlersOnly ==
    \A x \in Exchanges :
        phase[x] \in {"idle", "rejected", "streaming", "dropCapture", "closed"}

\* serve() returns when every connection is done, and with it every future:
\* the exchanges are over and the clients have read what was left for them.
Drained ==
    \A x \in Exchanges :
        phase[x] \in {"idle", "rejected", "closed"} /\ x \notin stalled

ServeReturns ==
    /\ server = "draining"
    /\ Drained
    /\ CallBarrier
    /\ UNCHANGED lifeVars

-----------------------------------------------------------------------------
\* What the router does by itself.
Proceed(x) ==
    \/ Reject(x) \/ BeginClientRequest(x) \/ BeginModelRequest(x)
    \/ DropCapture(x) \/ DropExchange(x)

\* The upstream call fails, at any point of it.
CallEnds(x) == TransportError(x) \/ Response(x) \/ CaptureAbandon(x)

Handle(x) ==
    \/ Proceed(x) \/ CallEnds(x)
    \/ ResponseStarts(x) \/ CaptureFinish(x)
    \/ Cancel(x)

\* The writer is through with an entry.
Written(e) == Settle(e) /\ UNCHANGED lifeVars

FlushReturns == PassBarrier /\ UNCHANGED lifeVars

Next ==
    \/ \E x \in Exchanges : Arrive(x) \/ Handle(x) \/ Stall(x) \/ Resume(x)
    \/ \E e \in Queued : Written(e)
    \/ ShutdownSignal
    \/ ServeReturns
    \/ FlushReturns

\* Mutant: the reqwest client is built without a timeout.
CallUnbounded == FALSE

\* The reqwest client bounds a call, its body included, by one hour.
CallBounded == TRUE

\* The bound runs out.  It is noticed by whoever awaits the call, which for a
\* streamed body is nobody while the client reads none of it.
TimesOut(x) ==
    /\ CallBounded
    /\ phase[x] = "streaming" => x \notin stalled
    /\ CallEnds(x)

\* The runtime runs what can run, the writer gets on, and a call times out.
\* Nothing is assumed of the upstream or of the clients: neither has to answer,
\* to read or to leave.
Fairness ==
    /\ \A x \in Exchanges : WF_vars(Proceed(x)) /\ WF_vars(TimesOut(x))
    /\ WF_vars(ServeReturns)
    /\ \A e \in Entries : WF_vars(Written(e))
    /\ WF_vars(FlushReturns)

Spec == Init /\ [][Next]_vars /\ Fairness

-----------------------------------------------------------------------------
TypeOK ==
    /\ fate \in [Entries -> Fates]
    /\ barrier \in {"idle", "waiting", "passed"}
    /\ phase \in [Exchanges -> Phases]
    /\ recorded \in [Exchanges -> BOOLEAN]
    /\ finished \in [Exchanges -> BOOLEAN]
    /\ calls \in [Exchanges -> 0..3]
    /\ stalled \in SUBSET Exchanges
    /\ server \in {"running", "draining"}

Logged(x, evs) == {e \in Entries : e.x = x /\ e.ev \in evs /\ fate[e] # "new"}

Sent(x) == phase[x] \notin {"idle", "accepted", "rejected", "begun"}

(* Whichever way an exchange ends (transport error, buffered response, body *)
(* finished or abandoned, client gone at any await), it logs one terminal   *)
(* and only one, although two Drop implementations and four recorders could *)
(* each write it.                                                           *)
OneTerminal ==
    \A x \in Exchanges :
        /\ \A d, e \in Logged(x, Terminals) : d = e
        /\ phase[x] = "closed" => Logged(x, Terminals) # {}

(* README: every model_request sent upstream leaves a terminal that can be  *)
(* related to it, unless the log was full or the disk failed.  After a      *)
(* graceful shutdown the writer is through with every entry of every        *)
(* exchange that was sent, or has refused it.                               *)
AuditTrail ==
    barrier = "passed" =>
        \A x \in Exchanges : Sent(x) =>
            \A evs \in {{"client_request"}, {"model_request"}, Terminals} :
                \E e \in Logged(x, evs) : fate[e] \in {"dropped", "settled"}

(* main.rs relies on it: once flush() has been called no exchange appends   *)
(* any more, although response bodies outlive their handlers.               *)
NoLateAppend ==
    [][barrier # "idle" => \A e \in Entries : fate[e] = "new" => fate'[e] = "new"]_vars

(* A shutdown completes, whatever the upstreams do, as soon as no client    *)
(* stalls any more: a silent upstream is cut off, the handlers end, the     *)
(* queue drains and flush() wakes up.  The condition is needed: no timeout  *)
(* of the router ends a connection whose client stops reading.              *)
ShutdownCompletes ==
    <>[](stalled = {}) => (server = "draining" ~> barrier = "passed")
=============================================================================
