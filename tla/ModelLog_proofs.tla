--------------------------- MODULE ModelLog_proofs ---------------------------
(***************************************************************************)
(* The audit trail, for any set of exchanges and any bound of the log: one *)
(* terminal each, nothing appended once flush() is called, and after it a  *)
(* whole trail for every exchange that was sent.                           *)
(*                                                                         *)
(* The n-th append of an exchange is its n-th entry, so that two terminals *)
(* would be its third and its fourth; what forward() has done so far, and  *)
(* whether a terminal was noted, says how many there are.                  *)
(***************************************************************************)
EXTENDS ModelLog, TLAPS

Early == {"idle", "accepted", "rejected", "begun", "waiting", "reading", "streaming"}

Made(x) ==
    IF phase[x] \in {"idle", "accepted", "rejected"} THEN 0
    ELSE IF phase[x] = "begun" THEN 1
    ELSE IF recorded[x] THEN 3 ELSE 2

\* The two flags, which two Drop implementations go by.
Flags(x) ==
    /\ calls[x] = Made(x)
    /\ phase[x] \in Early => ~recorded[x] /\ ~finished[x]
    /\ phase[x] = "dropCapture" => (recorded[x] <=> finished[x])
    /\ phase[x] = "closed" => recorded[x]

EventsAt(n) ==
    IF n = 1 THEN {"client_request"} ELSE IF n = 2 THEN {"model_request"} ELSE Terminals

Offered(x) == {e \in Entries : e.x = x /\ fate[e] # "new"}

Trail(x) ==
    /\ \A e \in Offered(x) : e.n <= calls[x] /\ e.ev \in EventsAt(e.n)
    /\ \A d, e \in Offered(x) : d.n = e.n => d = e
    /\ \A n \in 1..calls[x] : \E e \in Offered(x) : e.n = n

\* Nothing is left to append when flush() is called.
Quiet ==
    /\ barrier # "idle" => Drained /\ server = "draining"
    /\ barrier = "passed" => Queued = {}

IInv ==
    /\ TypeOK
    /\ \A x \in Exchanges : Flags(x) /\ Trail(x)
    /\ Quiet

-----------------------------------------------------------------------------

LEMMA InitIInv == Init => IInv
<1> SUFFICES ASSUME Init PROVE IInv
  OBVIOUS
<1>1. TypeOK
  BY DEF Init, SinkInit, TypeOK, Fates, Phases
<1>2. ASSUME NEW x \in Exchanges PROVE Flags(x) /\ Trail(x)
  <2>1. Flags(x)
    BY DEF Init, Flags, Made
  <2>2. Offered(x) = {} /\ calls[x] = 0
    BY DEF Init, SinkInit, Offered
  <2> QED BY <2>1, <2>2 DEF Trail
<1>3. Quiet
  BY DEF Init, SinkInit, Quiet
<1> QED BY <1>1, <1>2, <1>3 DEF IInv

\* An append is a new entry, the next of its exchange.
LEMMA LogEntry ==
    ASSUME TypeOK, NEW x \in Exchanges, NEW ev \in Requests \cup Terminals, Log(x, ev)
    PROVE  \E e \in Entries :
               /\ e.x = x /\ e.ev = ev /\ e.n = calls[x] + 1
               /\ fate[e] = "new" /\ fate'[e] # "new" /\ fate' \in [Entries -> Fates]
               /\ \A d \in Entries : d # e => fate'[d] = fate[d]
               /\ calls' = [calls EXCEPT ![x] = @ + 1]
               /\ barrier' = barrier
<1> DEFINE e == [x |-> x, ev |-> ev, n |-> calls[x] + 1]
<1>1. calls[x] + 1 \in Calls
  BY DEF TypeOK, Calls
<1>2. e \in Entries
  BY <1>1, EntriesAssumption
<1>3. Accept(e) \/ Refuse(e)
  BY DEF Log
<1>4. e.x = x /\ e.ev = ev /\ e.n = calls[x] + 1
  OBVIOUS
<1> HIDE DEF e
<1>5. \E f \in {"queued", "dropped"} : fate' = [fate EXCEPT ![e] = f]
  BY <1>3 DEF Accept, Refuse
<1>6. fate[e] = "new" /\ barrier' = barrier /\ calls' = [calls EXCEPT ![x] = @ + 1]
  BY <1>3 DEF Accept, Refuse, Log
<1> QED BY <1>2, <1>4, <1>5, <1>6 DEF TypeOK, Fates

\* It keeps every trail, if it comes at its turn.
LEMMA LogTrail ==
    ASSUME TypeOK, \A y \in Exchanges : Trail(y), NEW x \in Exchanges,
           NEW ev \in Requests \cup Terminals, ev \in EventsAt(calls[x] + 1), Log(x, ev)
    PROVE  \A y \in Exchanges : Trail(y)'
<1>1. PICK e \in Entries :
          /\ e.x = x /\ e.ev = ev /\ e.n = calls[x] + 1
          /\ fate[e] = "new" /\ fate'[e] # "new" /\ fate' \in [Entries -> Fates]
          /\ \A d \in Entries : d # e => fate'[d] = fate[d]
          /\ calls' = [calls EXCEPT ![x] = @ + 1]
          /\ barrier' = barrier
  BY LogEntry
<1>2. calls'[x] = calls[x] + 1 /\ calls[x] \in Nat
      /\ \A y \in Exchanges : y # x => calls'[y] = calls[y]
  BY <1>1 DEF TypeOK
<1>3. Offered(x)' = Offered(x) \cup {e}
  BY <1>1 DEF Offered
<1>4. \A y \in Exchanges : y # x => Offered(y)' = Offered(y)
  BY <1>1 DEF Offered
<1>5. Trail(x)'
  <2>1. \A d \in Offered(x) : d.n \in Nat /\ d.n <= calls[x]
    <3>1. \A d \in Offered(x) : d.n \in Calls
      BY EntriesAssumption DEF Offered
    <3> QED BY <3>1 DEF Trail, Calls
  <2>2. \A d \in Offered(x)' : d.n <= calls'[x] /\ d.ev \in EventsAt(d.n)
    BY <1>1, <1>2, <1>3, <2>1 DEF Trail
  <2>3. \A c, d \in Offered(x)' : c.n = d.n => c = d
    BY <1>1, <1>2, <1>3, <2>1 DEF Trail
  <2>4. \A n \in 1..calls'[x] : \E d \in Offered(x)' : d.n = n
    BY <1>1, <1>2, <1>3 DEF Trail
  <2> QED BY <2>2, <2>3, <2>4 DEF Trail, EventsAt
<1>6. ASSUME NEW y \in Exchanges, y # x PROVE Trail(y)'
  BY <1>2, <1>4, <1>6 DEF Trail, EventsAt
<1> QED BY <1>5, <1>6

\* So does what appends nothing.
LEMMA SameTrail ==
    ASSUME \A y \in Exchanges : Trail(y), UNCHANGED calls,
           \A e \in Entries : fate'[e] = "new" <=> fate[e] = "new"
    PROVE  \A y \in Exchanges : Trail(y)'
<1>1. \A y : Offered(y)' = Offered(y)
  BY DEF Offered
<1> QED BY <1>1 DEF Trail, EventsAt

-----------------------------------------------------------------------------

\* Before the shutdown lets go of an exchange, flush() is not called.
LEMMA BusyIsIdle ==
    ASSUME IInv, NEW x \in Exchanges, phase[x] \notin {"idle", "rejected", "closed"}
    PROVE  barrier = "idle"
  BY DEF IInv, Quiet, Drained

\* A step of one exchange that keeps its flags keeps those of the others.
LEMMA FlagsOfOthers ==
    ASSUME TypeOK, \A y \in Exchanges : Flags(y), NEW x \in Exchanges,
           \E p \in Phases : phase' = [phase EXCEPT ![x] = p],
           recorded' = recorded \/ recorded' = [recorded EXCEPT ![x] = TRUE],
           finished' = finished \/ finished' = [finished EXCEPT ![x] = TRUE],
           calls' = calls \/ calls' = [calls EXCEPT ![x] = @ + 1],
           Flags(x)'
    PROVE  \A y \in Exchanges : Flags(y)'
<1> SUFFICES ASSUME NEW y \in Exchanges, y # x PROVE Flags(y)'
  OBVIOUS
<1>1. phase'[y] = phase[y] /\ recorded'[y] = recorded[y]
      /\ finished'[y] = finished[y] /\ calls'[y] = calls[y]
  BY DEF TypeOK
<1> QED BY <1>1 DEF Flags, Made, Early

\* What a step of a handler has in common with every other.
LEMMA HandlerStep ==
    ASSUME IInv, NEW x \in Exchanges, phase[x] \notin {"idle", "rejected", "closed"},
           NEW p \in Phases, phase' = [phase EXCEPT ![x] = p],
           recorded' = recorded \/ recorded' = [recorded EXCEPT ![x] = TRUE],
           finished' = finished \/ finished' = [finished EXCEPT ![x] = TRUE],
           server' = server, stalled' \in SUBSET Exchanges,
           \/ NoLog
           \/ \E ev \in EventsAt(calls[x] + 1) : ev \in Requests \cup Terminals /\ Log(x, ev),
           Flags(x)'
    PROVE  IInv'
<1>1. barrier = "idle"
  BY BusyIsIdle
<1>2. TypeOK /\ \A y \in Exchanges : Flags(y) /\ Trail(y)
  BY DEF IInv
<1>3. /\ \A y \in Exchanges : Trail(y)'
      /\ barrier' = barrier /\ fate' \in [Entries -> Fates]
      /\ calls' = calls \/ calls' = [calls EXCEPT ![x] = @ + 1]
  <2>1. CASE NoLog
    <3>1. fate' = fate /\ barrier' = barrier /\ calls' = calls
      BY <2>1 DEF NoLog, sinkVars
    <3> QED BY <1>2, <3>1, SameTrail DEF TypeOK
  <2>2. CASE \E ev \in EventsAt(calls[x] + 1) : ev \in Requests \cup Terminals /\ Log(x, ev)
    <3>1. PICK ev \in EventsAt(calls[x] + 1) : ev \in Requests \cup Terminals /\ Log(x, ev)
      BY <2>2
    <3> QED BY <1>2, <3>1, LogEntry, LogTrail
  <2> QED BY <2>1, <2>2
<1>4. \A y \in Exchanges : Flags(y)'
  BY <1>2, <1>3, FlagsOfOthers
<1>5. TypeOK'
  <2>1. /\ phase' \in [Exchanges -> Phases] /\ recorded' \in [Exchanges -> BOOLEAN]
        /\ finished' \in [Exchanges -> BOOLEAN]
    BY <1>2 DEF TypeOK
  <2>2. calls' \in [Exchanges -> 0..3]
    <3>1. \A y \in Exchanges : calls'[y] \in 0..3
      BY <1>4 DEF Flags, Made
    <3>2. DOMAIN calls' = Exchanges /\ calls' = [y \in Exchanges |-> calls'[y]]
      BY <1>2, <1>3 DEF TypeOK
    <3> QED BY <3>1, <3>2
  <2> QED BY <1>1, <1>2, <1>3, <2>1, <2>2 DEF TypeOK
<1>6. Quiet'
  BY <1>1, <1>3 DEF Quiet
<1> QED BY <1>3, <1>4, <1>5, <1>6 DEF IInv

\* How many appends an exchange has made, by the phase it is in.
LEMMA Counted ==
    ASSUME IInv, NEW x \in Exchanges
    PROVE  /\ phase[x] \in Phases /\ recorded[x] \in BOOLEAN /\ finished[x] \in BOOLEAN
           /\ Flags(x)
           /\ phase[x] = "accepted" => calls[x] = 0
           /\ phase[x] = "begun" => calls[x] = 1
           /\ phase[x] \in {"waiting", "reading", "streaming"} => calls[x] = 2 /\ ~recorded[x]
           /\ phase[x] \in {"dropCapture", "dropExchange"} /\ ~recorded[x] => calls[x] = 2
           /\ phase[x] \in {"dropCapture", "dropExchange"} /\ recorded[x] => calls[x] = 3
  BY DEF IInv, TypeOK, Flags, Made, Early

\* An append that comes at its turn.
LEMMA AtTurn ==
    ASSUME IInv, NEW x \in Exchanges, NEW ev, Log(x, ev),
           \/ ev = "client_request" /\ phase[x] = "accepted"
           \/ ev = "model_request" /\ phase[x] = "begun"
           \/ /\ ev \in Terminals /\ ~recorded[x]
              /\ phase[x] \in {"waiting", "reading", "streaming", "dropCapture", "dropExchange"}
    PROVE  \E e \in EventsAt(calls[x] + 1) : e \in Requests \cup Terminals /\ Log(x, e)
<1>1. ev \in EventsAt(calls[x] + 1)
  <2>1. CASE ev = "client_request" /\ phase[x] = "accepted"
    BY <2>1, Counted DEF EventsAt
  <2>2. CASE ev = "model_request" /\ phase[x] = "begun"
    BY <2>2, Counted DEF EventsAt
  <2>3. CASE /\ ev \in Terminals /\ ~recorded[x]
             /\ phase[x] \in {"waiting", "reading", "streaming", "dropCapture", "dropExchange"}
    <3>1. calls[x] = 2
      BY <2>3, Counted
    <3> QED BY <2>3, <3>1 DEF EventsAt
  <2> QED BY <2>1, <2>2, <2>3
<1>2. ev \in Requests \cup Terminals
  BY DEF Requests
<1> QED BY <1>1, <1>2

LEMMA HandleIInv ==
    ASSUME IInv, NEW x \in Exchanges, Handle(x)
    PROVE  IInv'
<1> DEFINE Turn == \E e \in EventsAt(calls[x] + 1) : e \in Requests \cup Terminals /\ Log(x, e)
<1> USE Counted DEF Goto, Phases
<1>1. TypeOK /\ stalled \in SUBSET Exchanges
  BY DEF IInv, TypeOK
<1>2. CASE Reject(x)
  <2>1. Flags(x)'
    BY <1>1, <1>2 DEF Reject, NoLog, TypeOK, Flags, Made, Early
  <2> QED BY <1>2, <2>1, <1>1, HandlerStep DEF Reject
<1>3. CASE BeginClientRequest(x)
  <2>1. Flags(x)'
    BY <1>1, <1>3 DEF BeginClientRequest, Log, TypeOK, Flags, Made, Early
  <2>2. Turn
    BY <1>3, AtTurn DEF BeginClientRequest, Terminals
  <2>3. /\ phase[x] = "accepted" /\ phase' = [phase EXCEPT ![x] = "begun"]
        /\ recorded' = recorded
        /\ finished' = finished
        /\ server' = server /\ stalled' = stalled
    BY <1>3 DEF BeginClientRequest
  <2> QED BY <1>1, <2>1, <2>2, <2>3, HandlerStep
<1>4. CASE BeginModelRequest(x)
  <2>1. Flags(x)'
    BY <1>1, <1>4 DEF BeginModelRequest, Log, TypeOK, Flags, Made, Early
  <2>2. Turn
    BY <1>4, AtTurn DEF BeginModelRequest, Terminals
  <2>3. /\ phase[x] = "begun" /\ phase' = [phase EXCEPT ![x] = "waiting"]
        /\ recorded' = recorded
        /\ finished' = finished
        /\ server' = server /\ stalled' = stalled
    BY <1>4 DEF BeginModelRequest
  <2> QED BY <1>1, <2>1, <2>2, <2>3, HandlerStep
<1>5. CASE TransportError(x)
  <2>1. Flags(x)'
    BY <1>1, <1>5 DEF TransportError, Log, TypeOK, Flags, Made, Early
  <2>2. Turn
    BY <1>5, AtTurn DEF TransportError, Terminals
  <2>3. /\ phase[x] = "waiting" /\ phase' = [phase EXCEPT ![x] = "dropExchange"]
        /\ recorded' = [recorded EXCEPT ![x] = TRUE]
        /\ finished' = finished
        /\ server' = server /\ stalled' = stalled
    BY <1>5 DEF TransportError
  <2> QED BY <1>1, <2>1, <2>2, <2>3, HandlerStep
<1>6. CASE ResponseStarts(x)
  <2>1. Flags(x)'
    BY <1>1, <1>6 DEF ResponseStarts, NoLog, TypeOK, Flags, Made, Early
  <2> QED BY <1>6, <2>1, <1>1, HandlerStep DEF ResponseStarts
<1>7. CASE Response(x)
  <2>1. Flags(x)'
    BY <1>1, <1>7 DEF Response, Log, TypeOK, Flags, Made, Early
  <2>2. Turn
    BY <1>7, AtTurn DEF Response, Terminals
  <2>3. /\ phase[x] = "reading" /\ phase' = [phase EXCEPT ![x] = "dropExchange"]
        /\ recorded' = [recorded EXCEPT ![x] = TRUE]
        /\ finished' = finished
        /\ server' = server /\ stalled' = stalled
    BY <1>7 DEF Response
  <2> QED BY <1>1, <2>1, <2>2, <2>3, HandlerStep
<1>8. CASE CaptureFinish(x)
  <2>1. Flags(x)'
    BY <1>1, <1>8 DEF CaptureFinish, Log, TypeOK, Flags, Made, Early
  <2>2. Turn
    BY <1>8, AtTurn DEF CaptureFinish, Terminals
  <2>3. /\ phase[x] = "streaming" /\ phase' = [phase EXCEPT ![x] = "dropCapture"]
        /\ recorded' = [recorded EXCEPT ![x] = TRUE]
        /\ finished' = [finished EXCEPT ![x] = TRUE]
        /\ server' = server /\ stalled' = stalled
    BY <1>8 DEF CaptureFinish
  <2> QED BY <1>1, <2>1, <2>2, <2>3, HandlerStep
<1>9. CASE CaptureAbandon(x)
  <2>1. Flags(x)'
    BY <1>1, <1>9 DEF CaptureAbandon, NoLog, TypeOK, Flags, Made, Early
  <2> QED BY <1>9, <2>1, <1>1, HandlerStep DEF CaptureAbandon
<1>10. CASE DropCapture(x)
  <2>1. /\ phase[x] = "dropCapture" /\ phase' = [phase EXCEPT ![x] = "dropExchange"]
        /\ finished' = finished /\ server' = server /\ stalled' = stalled
    BY <1>10 DEF DropCapture
  <2>2. CASE recorded[x]
    <3>1. NoLog /\ recorded' = recorded
      BY <1>10, <2>1, <2>2 DEF DropCapture, Flags
    <3>2. Flags(x)'
      BY <1>1, <2>1, <2>2, <3>1 DEF NoLog, TypeOK, Flags, Made, Early
    <3> QED BY <1>1, <2>1, <3>1, <3>2, HandlerStep
  <2>3. CASE ~recorded[x]
    <3>1. \E ev \in Terminals : Log(x, ev)
      BY <1>10, <2>1, <2>3 DEF DropCapture, Flags, Terminals
    <3>2. recorded' = [recorded EXCEPT ![x] = TRUE]
      BY <1>10, <2>1, <2>3 DEF DropCapture, Flags
    <3>3. Turn
      BY <2>1, <2>3, <3>1, AtTurn
    <3>4. Flags(x)'
      BY <1>1, <2>1, <2>3, <3>1, <3>2 DEF Log, TypeOK, Flags, Made, Early
    <3> QED BY <1>1, <2>1, <3>2, <3>3, <3>4, HandlerStep
  <2> QED BY <2>2, <2>3
<1>11. CASE Cancel(x)
  <2>1. PICK p \in {"rejected", "dropExchange", "dropCapture"} :
            /\ phase' = [phase EXCEPT ![x] = p]
            /\ p = "rejected" => phase[x] = "accepted"
            /\ p # "rejected" => phase[x] \in {"waiting", "reading", "streaming"}
    BY <1>11 DEF Cancel
  <2>2. NoLog /\ UNCHANGED <<recorded, finished, server>> /\ stalled' \in SUBSET Exchanges
    BY <1>1, <1>11 DEF Cancel
  <2>3. Flags(x)'
    BY <1>1, <2>1, <2>2 DEF NoLog, TypeOK, Flags, Made, Early
  <2> QED BY <2>1, <2>2, <2>3, HandlerStep
<1>12. CASE DropExchange(x)
  <2>1. /\ phase[x] = "dropExchange" /\ phase' = [phase EXCEPT ![x] = "closed"]
        /\ finished' = finished /\ server' = server /\ stalled' = stalled
    BY <1>12 DEF DropExchange
  <2>2. CASE recorded[x]
    <3>1. NoLog /\ recorded' = recorded
      BY <1>12, <2>1, <2>2 DEF DropExchange, Flags
    <3>2. Flags(x)'
      BY <1>1, <2>1, <2>2, <3>1 DEF NoLog, TypeOK, Flags, Made, Early
    <3> QED BY <1>1, <2>1, <3>1, <3>2, HandlerStep
  <2>3. CASE ~recorded[x]
    <3>1. \E ev \in Terminals : Log(x, ev)
      BY <1>12, <2>1, <2>3 DEF DropExchange, Flags, Terminals
    <3>2. recorded' = [recorded EXCEPT ![x] = TRUE]
      BY <1>12, <2>1, <2>3 DEF DropExchange, Flags
    <3>3. Turn
      BY <2>1, <2>3, <3>1, AtTurn
    <3>4. Flags(x)'
      BY <1>1, <2>1, <2>3, <3>1, <3>2 DEF Log, TypeOK, Flags, Made, Early
    <3> QED BY <1>1, <2>1, <3>2, <3>3, <3>4, HandlerStep
  <2> QED BY <2>2, <2>3
<1> QED BY <1>2, <1>3, <1>4, <1>5, <1>6, <1>7, <1>8, <1>9, <1>10, <1>11, <1>12
      DEF Handle, Proceed, CallEnds

\* The server, the writer and flush().
LEMMA ServerIInv ==
    ASSUME IInv,
           \/ \E x \in Exchanges : Arrive(x)
           \/ \E e \in Queued : Written(e)
           \/ \E x \in Exchanges : Stall(x) \/ Resume(x)
           \/ ShutdownSignal \/ ServeReturns \/ FlushReturns
           \/ UNCHANGED vars
    PROVE  IInv'
<1>1. CASE \E x \in Exchanges : Arrive(x)
  <2>1. PICK x \in Exchanges : Arrive(x)
    BY <1>1
  <2>2. /\ server = "running" /\ phase[x] = "idle" /\ phase' = [phase EXCEPT ![x] = "accepted"]
        /\ UNCHANGED <<fate, barrier, calls, recorded, finished, stalled, server>>
    BY <2>1 DEF Arrive, Goto, NoLog, sinkVars
  <2>3. \A y \in Exchanges : Trail(y)'
    BY <2>2, SameTrail DEF IInv
  <2>4. Flags(x)'
    BY <2>2, Counted DEF IInv, TypeOK, Flags, Made, Early
  <2>5. \A y \in Exchanges : Flags(y)'
    BY <2>2, <2>4, FlagsOfOthers DEF IInv, Phases
  <2>6. TypeOK'
    BY <2>2 DEF IInv, TypeOK, Phases
  <2>7. Quiet'
    BY <2>2 DEF IInv, Quiet
  <2> QED BY <2>3, <2>5, <2>6, <2>7 DEF IInv
<1>2. CASE \E e \in Queued : Written(e)
  <2>1. PICK e \in Queued : Written(e)
    BY <1>2
  <2>2. /\ e \in Entries /\ fate[e] = "queued" /\ fate' = [fate EXCEPT ![e] = "settled"]
        /\ UNCHANGED <<barrier, phase, recorded, finished, calls, stalled, server>>
    BY <2>1 DEF Written, Settle, lifeVars, Queued
  <2>3. TypeOK'
    BY <2>2 DEF IInv, TypeOK, Fates
  <2>4. \A y \in Exchanges : Trail(y)'
    BY <2>2, SameTrail DEF IInv, TypeOK
  <2>5. \A y \in Exchanges : Flags(y)'
    BY <2>2 DEF IInv, Flags, Made
  <2>6. Quiet'
    BY <2>1, <2>2 DEF IInv, Quiet, Drained
  <2> QED BY <2>3, <2>4, <2>5, <2>6 DEF IInv
<1>3. CASE ShutdownSignal \/ ServeReturns \/ FlushReturns \/ UNCHANGED vars
  <2>1. /\ UNCHANGED <<fate, phase, recorded, finished, calls, stalled>>
        /\ server' \in {"running", "draining"} /\ barrier' \in {"idle", "waiting", "passed"}
    BY <1>3 DEF ShutdownSignal, ServeReturns, FlushReturns, CallBarrier, PassBarrier, vars,
                lifeVars, sinkVars, IInv, TypeOK
  <2>2. TypeOK'
    BY <2>1 DEF IInv, TypeOK
  <2>3. \A y \in Exchanges : Trail(y)'
    BY <2>1, SameTrail DEF IInv
  <2>4. \A y \in Exchanges : Flags(y)'
    BY <2>1 DEF IInv, Flags, Made
  <2>5. Drained' = Drained /\ Queued' = Queued
    BY <2>1 DEF Drained, Queued
  <2>6. Quiet'
    BY <1>3, <2>5 DEF IInv, Quiet, ShutdownSignal, ServeReturns, FlushReturns, CallBarrier,
                      PassBarrier, vars, lifeVars, sinkVars
  <2> QED BY <2>2, <2>3, <2>4, <2>6 DEF IInv
<1>4. CASE \E x \in Exchanges : Stall(x) \/ Resume(x)
  <2>1. PICK x \in Exchanges : Stall(x) \/ Resume(x)
    BY <1>4
  <2>2. /\ UNCHANGED <<fate, barrier, phase, recorded, finished, calls, server>>
        /\ stalled' \in SUBSET Exchanges
    BY <2>1 DEF Stall, Resume, sinkVars, IInv, TypeOK
  <2>3. barrier = "idle"
    BY <2>1, BusyIsIdle DEF Stall, Resume, IInv, Quiet, Drained
  <2>4. TypeOK'
    BY <2>2 DEF IInv, TypeOK
  <2>5. \A y \in Exchanges : Trail(y)'
    BY <2>2, SameTrail DEF IInv
  <2>6. \A y \in Exchanges : Flags(y)'
    BY <2>2 DEF IInv, Flags, Made
  <2>7. Quiet'
    BY <2>2, <2>3 DEF Quiet
  <2> QED BY <2>4, <2>5, <2>6, <2>7 DEF IInv
<1> QED BY <1>1, <1>2, <1>3, <1>4

\* The inductive invariant of the exchanges.
THEOREM LifeInvariant == Spec => []IInv
<1>1. IInv /\ [Next]_vars => IInv'
  <2> SUFFICES ASSUME IInv, [Next]_vars PROVE IInv'
    OBVIOUS
  <2>1. CASE \E x \in Exchanges : Handle(x)
    BY <2>1, HandleIInv
  <2> QED BY <2>1, ServerIInv DEF Next
<1> QED BY InitIInv, <1>1, PTL DEF Spec

-----------------------------------------------------------------------------
(* What the invariant says of the audit trail.                              *)

\* An entry that was offered is its exchange's n-th, and a terminal is the third.
LEMMA Offers ==
    ASSUME IInv, NEW x \in Exchanges, NEW evs, NEW e \in Logged(x, evs)
    PROVE  /\ e \in Offered(x) /\ e.ev \in evs /\ e.n \in 1..3
           /\ e.ev \in Terminals => e.n = 3
<1>1. e \in Entries /\ e \in Offered(x) /\ e.ev \in evs
  BY DEF Logged, Offered
<1>2. e.n \in Calls /\ e.n <= calls[x] /\ e.ev \in EventsAt(e.n) /\ calls[x] \in 0..3
  BY <1>1, EntriesAssumption DEF IInv, TypeOK, Trail
<1>3. e.n \in 1..3
  BY <1>2 DEF Calls
<1> QED BY <1>1, <1>2, <1>3 DEF EventsAt, Terminals

\* What an exchange that was sent has offered.
LEMMA Sends ==
    ASSUME IInv, NEW x \in Exchanges, NEW n \in 1..calls[x]
    PROVE  \E e \in Entries : e.x = x /\ fate[e] # "new" /\ e.ev \in EventsAt(n)
<1>1. PICK e \in Offered(x) : e.n = n
  BY DEF IInv, Trail
<1>2. e.ev \in EventsAt(n)
  BY <1>1 DEF IInv, Trail
<1> QED BY <1>1, <1>2 DEF Offered

LEMMA TerminalFromInvariant == IInv => OneTerminal
<1> SUFFICES ASSUME IInv, NEW x \in Exchanges
             PROVE  /\ \A d, e \in Logged(x, Terminals) : d = e
                    /\ phase[x] = "closed" => Logged(x, Terminals) # {}
  BY DEF OneTerminal
<1>1. ASSUME NEW d \in Logged(x, Terminals), NEW e \in Logged(x, Terminals) PROVE d = e
  <2>1. d \in Offered(x) /\ e \in Offered(x) /\ d.n = 3 /\ e.n = 3
    BY Offers
  <2> QED BY <2>1 DEF IInv, Trail
<1>2. ASSUME phase[x] = "closed" PROVE Logged(x, Terminals) # {}
  <2>1. calls[x] = 3
    BY <1>2 DEF IInv, Flags, Made
  <2>2. \E e \in Entries : e.x = x /\ fate[e] # "new" /\ e.ev \in EventsAt(3)
    BY <2>1, Sends
  <2> QED BY <2>2 DEF Logged, EventsAt
<1> QED BY <1>1, <1>2

\* Each exchange logs one terminal, and none is closed without it.
THEOREM OneTerminalEach == Spec => []OneTerminal
  BY LifeInvariant, TerminalFromInvariant, PTL

LEMMA TrailFromInvariant == IInv => AuditTrail
<1> SUFFICES ASSUME IInv, barrier = "passed", NEW x \in Exchanges, Sent(x),
                    NEW evs \in {{"client_request"}, {"model_request"}, Terminals}
             PROVE  \E e \in Logged(x, evs) : fate[e] \in {"dropped", "settled"}
  BY DEF AuditTrail
<1>1. phase[x] = "closed" /\ Queued = {}
  BY DEF IInv, Quiet, Drained, Sent
<1>2. calls[x] = 3
  BY <1>1 DEF IInv, Flags, Made
<1>3. \E n \in 1..3 : EventsAt(n) = evs
  BY DEF EventsAt
<1>4. PICK e \in Entries : e.x = x /\ fate[e] # "new" /\ e.ev \in evs
  BY <1>2, <1>3, Sends
<1>5. e \in Logged(x, evs)
  BY <1>4 DEF Logged
<1>6. fate[e] \in Fates /\ fate[e] # "queued"
  BY <1>1, <1>4 DEF IInv, TypeOK, Queued
<1> QED BY <1>4, <1>5, <1>6 DEF Fates

\* After flush() every exchange that was sent has its three entries, each
\* written, given up or dropped, whatever the size of the queue.
THEOREM TrailKept == Spec => []AuditTrail
  BY LifeInvariant, TrailFromInvariant, PTL

LEMMA StepAppendsInTime ==
    IInv /\ [Next]_vars =>
        [barrier # "idle" => \A e \in Entries : fate[e] = "new" => fate'[e] = "new"]_vars
<1> SUFFICES ASSUME IInv, Next, barrier # "idle", NEW e \in Entries, fate[e] = "new"
             PROVE  fate'[e] = "new"
  BY DEF vars, sinkVars, lifeVars
<1>1. Drained /\ server = "draining"
  BY DEF IInv, Quiet
<1>2. ~ \E x \in Exchanges : Arrive(x) \/ Handle(x) \/ Stall(x) \/ Resume(x)
  BY <1>1 DEF Drained, Arrive, Stall, Resume, Handle, Proceed, CallEnds, Goto, Reject, BeginClientRequest, BeginModelRequest,
              TransportError, ResponseStarts, Response, CaptureFinish, CaptureAbandon,
              DropCapture, Cancel, DropExchange
<1>3. CASE \E d \in Queued : Written(d)
  BY <1>3 DEF Written, Settle, Queued, IInv, TypeOK
<1>4. CASE ShutdownSignal \/ ServeReturns \/ FlushReturns
  BY <1>4 DEF ShutdownSignal, ServeReturns, FlushReturns, CallBarrier, PassBarrier, sinkVars
<1> QED BY <1>2, <1>3, <1>4 DEF Next

\* Once flush() has been called, no exchange appends anything.
THEOREM NothingAppendedLate == Spec => NoLateAppend
<1>1. [][Next]_vars /\ []IInv => NoLateAppend
  BY StepAppendsInTime, PTL DEF NoLateAppend
<1> QED BY <1>1, LifeInvariant, PTL DEF Spec
=============================================================================
