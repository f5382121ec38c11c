----------------------------- MODULE LensIngest -----------------------------
(***************************************************************************)
(* The ingester of the lens (lens/src/ingest.rs over the tables of         *)
(* lens/src/db.rs): one thread that sweeps expired exchanges once an hour, *)
(* then tails every daily log file from the offset it saved, and sleeps.   *)
(*                                                                         *)
(* Every statement commits by itself, so the thread can be killed between  *)
(* any two of them; entries applied since the last saved offset are then   *)
(* applied again.  A statement that fails is logged and the line is passed *)
(* over.  Beside the ingester, the router appends lines in any order (its  *)
(* writer tasks race for the lock, see LogWriter), a new UTC day begins,   *)
(* the router removes old files and an operator may remove today's.        *)
(***************************************************************************)
EXTENDS Naturals, Sequences, FiniteSets

CONSTANTS Exchanges,  \* request ids
          Entries,    \* the log entries the router may write
          Days,       \* 1..n: the files, one for each day
          Batch,      \* INGEST_BATCH_LINES
          MaxFaults,  \* bound: crashes, failed statements, spoilt lines, lost files
          NoEntry

\* A model_response whose status is not 2xx counts as an event of its own.
Outcome == [model_response        |-> "ok",
            model_http_error      |-> "http_error",
            model_cancelled       |-> "cancelled",
            model_transport_error |-> "transport_error"]

Terminals == DOMAIN Outcome
Bodyless  == {"model_cancelled", "model_transport_error"}
Events    == {"client_request", "model_request"} \cup Terminals

ASSUME IngestAssumption ==
    /\ Entries \subseteq [x : Exchanges, ev : Events]
    /\ Cardinality(Days) \in Nat \ {0} /\ Days = 1..Cardinality(Days)
    /\ Batch \in Nat \ {0}
    /\ MaxFaults \in Nat
    /\ NoEntry \notin Entries

VARIABLES
    log,        \* the complete lines of each file; NoEntry is a malformed line
    partial,    \* the entry whose line is under way in today's file, or NoEntry
    offered,    \* history: entries the router has begun to write
    today,
    removed,    \* files removed for good
    replaced,   \* history: days whose file was removed while in use
    old,        \* exchanges older than LENS_RETENTION_DAYS
    saved,      \* table ingest_state
    rows,       \* table exchanges
    bodies,     \* table exchange_bodies: the columns that are set
    cutoff,     \* what the sweep under way takes for expired
    swept,      \* the last sweep is less than an hour ago
    lpc,        \* where the ingester is
    file,       \* the file it scans
    offset,     \* lines of it read so far
    batch,      \* lines since the offset was last saved
    applied,    \* history: entries whose statements have all succeeded
    lost,       \* history: entries whose last application stopped half way
    faults

routerVars == <<log, partial, offered, today, removed, replaced, old>>
tableVars  == <<saved, rows, bodies>>
threadVars == <<cutoff, swept, lpc, file, offset, batch>>
historyVars == <<applied, lost>>
vars == <<routerVars, tableVars, threadVars, historyVars, faults>>

\* ts is the entry whose time the row bears: every entry has a time of its own,
\* while the other columns the insert sets are the same in all of an exchange.
NoRow      == [outcome |-> "absent", key |-> "none", ts |-> "none"]
NewRow(ev) == [outcome |-> "pending", key |-> "none", ts |-> ev]

Init ==
    /\ log = [d \in Days |-> <<>>]
    /\ partial = NoEntry
    /\ offered = {}
    /\ today = 1
    /\ removed = {}
    /\ replaced = {}
    /\ old = {}
    /\ saved = [d \in Days |-> 0]
    /\ rows = [x \in Exchanges |-> NoRow]
    /\ bodies = [x \in Exchanges |-> {}]
    /\ cutoff = {}
    /\ swept = FALSE
    /\ lpc = "sweepBodies"
    /\ file = 1
    /\ offset = 0
    /\ batch = 0
    /\ applied = {}
    /\ lost = {}
    /\ faults = 0

Fault == faults < MaxFaults /\ faults' = faults + 1

-----------------------------------------------------------------------------
(* The router and the world.                                                *)

\* The line reaches the file in more than one write.
StartLine(e) ==
    /\ partial = NoEntry
    /\ e \notin offered /\ e.x \notin old
    /\ e.ev \in Terminals => \A f \in offered : f.x = e.x => f.ev \notin Terminals
    /\ partial' = e
    /\ offered' = offered \cup {e}
    /\ UNCHANGED <<log, today, removed, replaced, old, tableVars, threadVars, historyVars, faults>>

EndLine ==
    /\ partial # NoEntry
    /\ log' = [log EXCEPT ![today] = Append(@, partial)]
    /\ partial' = NoEntry
    /\ UNCHANGED <<offered, today, removed, replaced, old, tableVars, threadVars, historyVars, faults>>

\* A line the router tore (LogWriter): complete, but not JSON.
SpoilLine ==
    /\ partial = NoEntry
    /\ Fault
    /\ log' = [log EXCEPT ![today] = Append(@, NoEntry)]
    /\ UNCHANGED <<partial, offered, today, removed, replaced, old, tableVars, threadVars, historyVars>>

NewDay ==
    /\ today + 1 \in Days
    /\ partial = NoEntry
    /\ today' = today + 1
    /\ UNCHANGED <<log, partial, offered, removed, replaced, old, tableVars, threadVars, historyVars, faults>>

\* The router's own retention; a file being read stays readable.
RemoveFile(d) ==
    /\ d < today /\ d \notin removed
    /\ removed' = removed \cup {d}
    /\ UNCHANGED <<log, partial, offered, today, replaced, old, tableVars, threadVars, historyVars, faults>>

\* Today's file is removed between two polls and the router creates it anew.
ReplaceFile ==
    /\ lpc = "sleep" /\ partial = NoEntry
    /\ log[today] # <<>>
    /\ Fault
    /\ log' = [log EXCEPT ![today] = <<>>]
    /\ replaced' = replaced \cup {today}
    /\ UNCHANGED <<partial, offered, today, removed, old, tableVars, threadVars, historyVars>>

Age(x) ==
    /\ x \notin old
    /\ partial # NoEntry => partial.x # x
    /\ old' = old \cup {x}
    /\ UNCHANGED <<log, partial, offered, today, removed, replaced, tableVars, threadVars, historyVars, faults>>

HourPasses ==
    /\ swept
    /\ swept' = FALSE
    /\ UNCHANGED <<routerVars, tableVars, cutoff, lpc, file, offset, batch, historyVars, faults>>

-----------------------------------------------------------------------------
(* cleanup_expired(): bodies first, through exchanges, then exchanges, by   *)
(* one cutoff.                                                              *)

SweepBodies ==
    /\ lpc = "sweepBodies" /\ ~swept
    /\ swept' = TRUE
    /\ cutoff' = old
    /\ bodies' = [x \in Exchanges |->
                     IF x \in old /\ rows[x] # NoRow THEN {} ELSE bodies[x]]
    /\ lpc' = "sweepRows"
    /\ UNCHANGED <<routerVars, saved, rows, file, offset, batch, historyVars, faults>>

\* Mutant: the second statement takes the time anew.
ExpiredNow == old

\* Mutant: the second statement, too, goes through the other table.
ExpiredWithBodies == {x \in cutoff : bodies[x] # {}}

Expired == cutoff

SweepRows ==
    /\ lpc = "sweepRows"
    /\ rows' = [x \in Exchanges |-> IF x \in Expired THEN NoRow ELSE rows[x]]
    /\ cutoff' = {}
    /\ lpc' = "scan"
    /\ UNCHANGED <<routerVars, saved, bodies, swept, file, offset, batch, historyVars, faults>>

\* Not yet due; or a statement fails, and the next sweep is an hour away.
SkipSweep ==
    /\ \/ lpc = "sweepBodies" /\ swept /\ UNCHANGED <<swept, faults>>
       \/ lpc \in {"sweepBodies", "sweepRows"} /\ swept' = TRUE /\ Fault
    /\ cutoff' = {}
    /\ lpc' = "scan"
    /\ UNCHANGED <<routerVars, tableVars, file, offset, batch, historyVars>>

-----------------------------------------------------------------------------
(* ingest_file().                                                           *)

\* Files are taken in the order of their names, that is, of the days.
NextFile ==
    /\ file' = IF file + 1 \in Days THEN file + 1 ELSE 1
    /\ lpc' = IF file + 1 \in Days THEN "scan" ELSE "sleep"
    /\ offset' = 0
    /\ batch' = 0

\* A line under way counts in the size of the file, but is not read.
Size(d) == Len(log[d]) + (IF d = today /\ partial # NoEntry THEN 1 ELSE 0)

\* Truncated or replaced file: start over.
StartOffset(d) == IF Size(d) < saved[d] THEN 0 ELSE saved[d]

ReadFrom(n) ==
    /\ file \notin removed
    /\ offset' = n
    /\ batch' = 0
    /\ lpc' = "read"
    /\ UNCHANGED file

\* An offset that cannot be read is taken for 0.
OpenFile ==
    /\ lpc = "scan"
    /\ \/ /\ file \in removed \/ Size(file) = saved[file]
          /\ NextFile /\ UNCHANGED faults
       \/ /\ Size(file) # saved[file]
          /\ ReadFrom(StartOffset(file)) /\ UNCHANGED faults
       \/ /\ Size(file) # 0 /\ saved[file] # 0
          /\ ReadFrom(0) /\ Fault
    /\ UNCHANGED <<routerVars, tableVars, cutoff, swept, historyVars>>

Entry == log[file][offset]

\* read_until; a malformed line is passed over.
ReadLine ==
    /\ lpc = "read"
    /\ offset < Len(log[file])
    /\ offset' = offset + 1
    /\ batch' = batch + 1
    /\ lpc' = IF log[file][offset + 1] = NoEntry THEN "check" ELSE "insert"
    /\ UNCHANGED <<routerVars, tableVars, cutoff, swept, file, historyVars, faults>>

\* Mutant: the offset saved is the size of the file, a line under way included.
SavedOffsetOfSize == Size(file)

SavedOffset == offset

\* persist_offset, when a batch is full or the file is at its end.
SaveOffset ==
    /\ \/ lpc = "check" /\ batch >= Batch
       \/ lpc = "read" /\ offset = Len(log[file]) /\ batch > 0
    /\ \/ /\ saved' = [saved EXCEPT ![file] = SavedOffset]
          /\ batch' = 0
          /\ lpc' = "read"
          /\ UNCHANGED <<file, offset, faults>>
       \/ /\ Fault
          /\ NextFile
          /\ UNCHANGED saved
    /\ UNCHANGED <<routerVars, rows, bodies, cutoff, swept, historyVars>>

BatchGoesOn ==
    /\ lpc = "check" /\ batch < Batch
    /\ lpc' = "read"
    /\ UNCHANGED <<routerVars, tableVars, cutoff, swept, file, offset, batch, historyVars, faults>>

FileEnds ==
    /\ lpc = "read" /\ offset = Len(log[file]) /\ batch = 0
    /\ NextFile
    /\ UNCHANGED <<routerVars, tableVars, cutoff, swept, historyVars, faults>>

Poll ==
    /\ lpc = "sleep"
    /\ lpc' = "sweepBodies"
    /\ UNCHANGED <<routerVars, tableVars, cutoff, swept, file, offset, batch, historyVars, faults>>

-----------------------------------------------------------------------------
(* apply_entry(): the shared row, then the event's own two statements.      *)

\* ON CONFLICT DO NOTHING: whichever entry comes first gives the row its time.
InsertRow ==
    /\ lpc = "insert"
    /\ rows' = [rows EXCEPT ![Entry.x] = IF @ = NoRow THEN NewRow(Entry.ev) ELSE @]
    /\ lpc' = "update"
    /\ UNCHANGED <<routerVars, saved, bodies, cutoff, swept, file, offset, batch, historyVars, faults>>

\* Mutant: a request resets the outcome, as if it were always first.
UpdatedResetting(row, ev) ==
    CASE ev = "client_request"  -> [row EXCEPT !.key = "client"]
      [] ev = "model_request"   -> [row EXCEPT !.outcome = "pending",
                                               !.key = IF @ = "none" THEN "heuristic" ELSE @]
      [] ev \in Terminals       -> [row EXCEPT !.outcome = Outcome[ev]]

\* The client's own session id wins whenever it comes.
Updated(row, ev) ==
    CASE ev = "client_request"  -> [row EXCEPT !.key = "client"]
      [] ev = "model_request"   -> [row EXCEPT !.key = IF @ = "none" THEN "heuristic" ELSE @]
      [] ev \in Terminals       -> [row EXCEPT !.outcome = Outcome[ev]]

Applied == applied' = applied \cup {Entry} /\ lost' = lost \ {Entry}

UpdateRow ==
    /\ lpc = "update"
    /\ rows' = [rows EXCEPT ![Entry.x] = IF @ = NoRow THEN @ ELSE Updated(@, Entry.ev)]
    /\ IF Entry.ev \in Bodyless THEN lpc' = "check" /\ Applied
       ELSE lpc' = "body" /\ UNCHANGED historyVars
    /\ UNCHANGED <<routerVars, saved, bodies, cutoff, swept, file, offset, batch, faults>>

Column(ev) == CASE ev = "client_request" -> "client_req_body"
                [] ev = "model_request"  -> "req_body"
                [] ev \in Terminals \ Bodyless -> "resp_body"

StoreBody ==
    /\ lpc = "body"
    /\ bodies' = [bodies EXCEPT ![Entry.x] = @ \cup {Column(Entry.ev)}]
    /\ lpc' = "check"
    /\ Applied
    /\ UNCHANGED <<routerVars, saved, rows, cutoff, swept, file, offset, batch, faults>>

StatementFails ==
    /\ lpc \in {"insert", "update", "body"}
    /\ Fault
    /\ lost' = lost \cup {Entry}
    /\ lpc' = "check"
    /\ UNCHANGED <<routerVars, tableVars, cutoff, swept, file, offset, batch, applied>>

Crash ==
    /\ Fault
    /\ lost' = IF lpc \in {"insert", "update", "body"} THEN lost \cup {Entry} ELSE lost
    /\ lpc' = "sweepBodies"
    /\ cutoff' = {}
    /\ swept' = FALSE
    /\ file' = 1
    /\ offset' = 0
    /\ batch' = 0
    /\ UNCHANGED <<routerVars, tableVars, applied>>

-----------------------------------------------------------------------------
Step ==
    \/ SweepBodies \/ SweepRows \/ SkipSweep
    \/ OpenFile \/ ReadLine \/ SaveOffset \/ BatchGoesOn \/ FileEnds \/ Poll
    \/ InsertRow \/ UpdateRow \/ StoreBody

World ==
    \/ \E e \in Entries : StartLine(e)
    \/ EndLine \/ SpoilLine \/ NewDay \/ ReplaceFile
    \/ \E d \in Days : RemoveFile(d)
    \/ \E x \in Exchanges : Age(x)

Next == Step \/ World \/ HourPasses \/ StatementFails \/ Crash

\* The thread runs and time passes; nothing is asked of the router.
Spec == Init /\ [][Next]_vars /\ WF_vars(Step) /\ WF_vars(HourPasses)

-----------------------------------------------------------------------------
(* db.rs keeps bodies apart from their exchanges: whatever is swept,        *)
(* replayed or cut short, there is never a body without its exchange, which *)
(* no sweep could find again.                                               *)
NoStrandedBodies == \A x \in Exchanges : bodies[x] # {} => rows[x] # NoRow

EventsOf(x) == {e.ev : e \in {f \in applied : f.x = x}}
LostOf(x)   == {e.ev : e \in {f \in lost : f.x = x}}
Columns(evs) == {Column(ev) : ev \in evs \ Bodyless}

\* All but the time of a row after these events, in whatever order.
Summary(evs) ==
    [outcome |-> IF evs \cap Terminals = {} THEN "pending"
                 ELSE Outcome[CHOOSE ev \in evs \cap Terminals : TRUE],
     key |-> IF "client_request" \in evs THEN "client"
             ELSE IF "model_request" \in evs THEN "heuristic" ELSE "none"]

(* Between two polls the tables follow from the SET of entries applied,     *)
(* whatever their order on disk and however often a crash made the ingester *)
(* apply them again; an entry given up half way adds what it adds, or       *)
(* nothing, and spoils nothing else.  Only the time of a row depends on the *)
(* order: it is that of one of these entries.  (updated_at, the time of the *)
(* last statement, is not in the model.)                                    *)
Converges ==
    lpc = "sleep" =>
        \A x \in Exchanges \ old :
            /\ rows[x] = NoRow => EventsOf(x) = {}
            /\ rows[x] # NoRow =>
                   /\ rows[x].ts \in EventsOf(x) \cup LostOf(x)
                   /\ \E some \in SUBSET LostOf(x) :
                          LET sum == Summary(EventsOf(x) \cup some)
                          IN  rows[x].outcome = sum.outcome /\ rows[x].key = sum.key
            /\ Columns(EventsOf(x)) \subseteq bodies[x]
            /\ bodies[x] \subseteq Columns(EventsOf(x) \cup LostOf(x))

(* A saved offset never runs ahead: every line before it was applied, or    *)
(* its statements were tried and failed.  This is not so of a file that was *)
(* replaced: it is read from its start only if it is shorter than what was  *)
(* saved, although ingest.rs:171 says of replaced files that they are.      *)
NothingSkipped ==
    \A d \in Days \ replaced : \A i \in 1..Len(log[d]) :
        i <= saved[d] => log[d][i] \in applied \cup lost \cup {NoEntry}

(* The retention holds: in the end every expired exchange is gone from both *)
(* tables for good, even one a crash brought back.                          *)
ExpiredGone ==
    \A x \in Exchanges :
        x \in old ~> [](rows[x] = NoRow /\ bodies[x] = {})
=============================================================================
