------------------------------ MODULE LogWriter ------------------------------
(***************************************************************************)
(* The write side of ModelInteractionLogger (rust/src/model_log.rs): the   *)
(* bounded fail-open queue in front of the NDJSON file, the spawned writer *)
(* tasks behind one async mutex, and flush().                              *)
(*                                                                         *)
(* append() bumps pending_writes or drops the entry, and spawns a task.    *)
(* Tasks reach the mutex in any order.  The task that holds it opens the   *)
(* file and calls write_all; then, still holding it, it decrements the     *)
(* counter and calls notify_waiters().                                     *)
(*                                                                         *)
(* write_all runs on a tokio::fs::File, which hands each buffer (at most   *)
(* 2 MiB) to the blocking pool and reports success at once; the outcome of *)
(* a buffer is seen by the next operation on the same File only.  The code *)
(* never calls File::flush, so the outcome of the LAST buffer is seen by   *)
(* nobody and its write may happen after the mutex is released.  An entry  *)
(* in Large takes two buffers, every other entry one.                      *)
(***************************************************************************)
EXTENDS Naturals, Sequences, FiniteSets

CONSTANTS Entries,     \* every entry append() may be called with
          Large,       \* those whose JSON line does not fit one file buffer
          MaxPending,  \* MAX_PENDING_WRITES
          MaxFailures, \* bound: how many entries may meet a disk error
          NoEntry      \* the mutex is free

ASSUME WriterAssumption ==
    /\ Large \subseteq Entries
    /\ MaxPending \in Nat \ {0}
    /\ MaxFailures \in Nat
    /\ NoEntry \notin Entries

VARIABLES
    pending,    \* pending_writes
    tasks,      \* spawned append tasks that do not hold write_lock yet
    owner,      \* the entry whose task holds write_lock, or NoEntry
    wpc,        \* where that task is
    inflight,   \* buffers handed to the blocking pool, outcome unknown
    file,       \* the buffers in the NDJSON file, in file order
    failed,     \* entries one of whose writes failed in the pool or at open
    dropped,    \* entries refused because the queue was full (logged "queue")
    offered,    \* history: entries append() was called with
    fpc,        \* where flush() is
    permit      \* its Notified future has been woken

writerVars == <<pending, tasks, owner, wpc, inflight, file, failed, dropped,
                offered, fpc, permit>>

lockVars  == <<owner, wpc, inflight, file, failed>>
flushVars == <<fpc, permit>>

Buffers(e) == IF e \in Large THEN 2 ELSE 1

Buffer == [entry : Entries, part : 1..2]

WriterInit ==
    /\ pending = 0
    /\ tasks = {}
    /\ owner = NoEntry
    /\ wpc = "free"
    /\ inflight = {}
    /\ file = <<>>
    /\ failed = {}
    /\ dropped = {}
    /\ offered = {}
    /\ fpc = "idle"
    /\ permit = FALSE

-----------------------------------------------------------------------------
(* append(): one fetch_update on the counter, then tokio::spawn.  Nothing   *)
(* reads the set of tasks, so the two are one step.                         *)

\* Mutant: the bound is tested with <= instead of <.
HasRoomOffByOne == pending <= MaxPending

HasRoom == pending < MaxPending

Enqueue(e) ==
    /\ e \notin offered
    /\ offered' = offered \cup {e}
    /\ \/ /\ HasRoom
          /\ pending' = pending + 1
          /\ tasks' = tasks \cup {e}
          /\ UNCHANGED dropped
       \/ /\ ~HasRoom
          /\ dropped' = dropped \cup {e}
          /\ UNCHANGED <<pending, tasks>>
    /\ UNCHANGED <<lockVars, flushVars>>

-----------------------------------------------------------------------------
(* A writer task, from the mutex to the end of its block.                   *)

TakeLock(e) ==
    /\ owner = NoEntry
    /\ e \in tasks
    /\ owner' = e
    /\ tasks' = tasks \ {e}
    /\ wpc' = "open"
    /\ UNCHANGED <<pending, inflight, file, failed, dropped, offered, flushVars>>

\* The disk may fail: always, but for the bound.
DiskFails == Cardinality(failed) < MaxFailures

\* Mutant: the error branch ends the task, past the decrement.
OpenFailsReturns ==
    /\ wpc = "open" /\ DiskFails
    /\ failed' = failed \cup {owner}
    /\ owner' = NoEntry
    /\ wpc' = "free"
    /\ UNCHANGED <<pending, tasks, inflight, file, dropped, offered, flushVars>>

\* create_dir_all or open returns an error: the entry is lost and logged.
OpenFails ==
    /\ wpc = "open" /\ DiskFails
    /\ failed' = failed \cup {owner}
    /\ wpc' = "sub"
    /\ UNCHANGED <<pending, tasks, owner, inflight, file, dropped, offered, flushVars>>

\* Does write_all return after handing over buffer k of the owner's line?
LastBuffer(k) == k = Buffers(owner)

\* The first buffer of the line goes to the pool.
WriteFirst ==
    /\ wpc = "open"
    /\ inflight' = inflight \cup {[entry |-> owner, part |-> 1]}
    /\ wpc' = IF LastBuffer(1) THEN "sub" ELSE "more"
    /\ UNCHANGED <<pending, tasks, owner, file, failed, dropped, offered, flushVars>>

\* poll_write waits for the operation the File is busy with.
FirstBufferDone == [entry |-> owner, part |-> 1] \notin inflight

\* Its error, if any, is what write_all returns; otherwise the rest of the
\* line goes to the pool.
WriteRest ==
    /\ wpc = "more"
    /\ FirstBufferDone
    /\ \/ /\ owner \in failed
                /\ UNCHANGED inflight
       \/ /\ owner \notin failed
          /\ inflight' = inflight \cup {[entry |-> owner, part |-> 2]}
    /\ wpc' = "sub"
    /\ UNCHANGED <<pending, tasks, owner, file, failed, dropped, offered, flushVars>>

\* fetch_sub(1)
Subtract ==
    /\ wpc = "sub"
    /\ pending' = pending - 1
    /\ wpc' = "notify"
    /\ UNCHANGED <<tasks, owner, inflight, file, failed, dropped, offered, flushVars>>

\* Mutant: flush() would be woken only once the future has been polled, as if
\* it were created after the counter was read.
RegisteredOncePolled == fpc = "await"

\* flush() has a Notified future: it is created before the counter is read.
Registered == fpc \in {"load", "poll", "await"}

\* notify_waiters() wakes every Notified future that exists at this moment,
\* polled or not; then the block ends and its guard is dropped.
Notify ==
    /\ wpc = "notify"
    /\ permit' = (permit \/ Registered)
    /\ owner' = NoEntry
    /\ wpc' = "free"
    /\ UNCHANGED <<pending, tasks, inflight, file, failed, dropped, offered, fpc>>

-----------------------------------------------------------------------------
(* The blocking pool: buffers of different entries in any order.            *)

PoolWrites(b) ==
    /\ b \in inflight
    /\ inflight' = inflight \ {b}
    /\ file' = file \o <<b>>
    /\ UNCHANGED <<pending, tasks, owner, wpc, failed, dropped, offered, flushVars>>

PoolFails(b) ==
    /\ b \in inflight /\ DiskFails
    /\ inflight' = inflight \ {b}
    /\ failed' = failed \cup {b.entry}
    /\ UNCHANGED <<pending, tasks, owner, wpc, file, dropped, offered, flushVars>>

-----------------------------------------------------------------------------
(* flush(): loop { create the Notified future; load the counter; await it,  *)
(* which polls it first }.                                                  *)

FlushCall ==
    /\ fpc = "idle"
    /\ fpc' = "register"
    /\ UNCHANGED <<pending, tasks, dropped, offered, lockVars, permit>>

FlushRegister ==
    /\ fpc = "register"
    /\ fpc' = "load"
    /\ permit' = FALSE
    /\ UNCHANGED <<pending, tasks, dropped, offered, lockVars>>

FlushLoad ==
    /\ fpc = "load"
    /\ fpc' = IF pending = 0 THEN "returned" ELSE "poll"
    /\ UNCHANGED <<pending, tasks, dropped, offered, lockVars, permit>>

FlushPoll ==
    /\ fpc = "poll"
    /\ fpc' = "await"
    /\ UNCHANGED <<pending, tasks, dropped, offered, lockVars, permit>>

FlushWake ==
    /\ fpc = "await"
    /\ permit
    /\ fpc' = "register"
    /\ UNCHANGED <<pending, tasks, dropped, offered, lockVars, permit>>

-----------------------------------------------------------------------------
WriterStep ==
    \/ \E e \in tasks : TakeLock(e)
    \/ OpenFails
    \/ WriteFirst
    \/ WriteRest
    \/ Subtract
    \/ Notify

PoolStep == \E b \in inflight : PoolWrites(b) \/ PoolFails(b)

FlushStep == FlushRegister \/ FlushLoad \/ FlushPoll \/ FlushWake

\* append() may be called before and during flush(), not after it returned:
\* main() then returns and the runtime is gone.
WriterNext ==
    \/ \E e \in Entries : fpc # "returned" /\ Enqueue(e)
    \/ WriterStep
    \/ PoolStep
    \/ FlushCall
    \/ FlushStep

\* The runtime polls every runnable task, the pool runs every job, and the
\* async mutex is FIFO; append() and the call of flush() are the caller's.
WriterFairness ==
    /\ WF_writerVars(WriterStep)
    /\ WF_writerVars(PoolStep)
    /\ WF_writerVars(FlushStep)

WriterSpec == WriterInit /\ [][WriterNext]_writerVars /\ WriterFairness

-----------------------------------------------------------------------------
(* Types and the counter.                                                   *)

WriterTypeOK ==
    /\ pending \in Nat
    /\ tasks \in SUBSET Entries
    /\ owner \in Entries \cup {NoEntry}
    /\ wpc \in {"free", "open", "more", "sub", "notify"}
    /\ inflight \in SUBSET Buffer
    /\ file \in Seq(Buffer)
    /\ failed \in SUBSET Entries
    /\ dropped \in SUBSET Entries
    /\ offered \in SUBSET Entries
    /\ fpc \in {"idle", "register", "load", "poll", "await", "returned"}
    /\ permit \in BOOLEAN
    /\ (owner = NoEntry) <=> (wpc = "free")

\* The entries pending_writes should be counting.
Unsettled == tasks \cup (IF wpc \in {"open", "more", "sub"} THEN {owner} ELSE {})

(* The counter never drifts from the number of entries still to be written, *)
(* and the queue holds at most MAX_PENDING_WRITES of them.                  *)
PendingCounts ==
    /\ pending = Cardinality(Unsettled)
    /\ pending <= MaxPending

\* What the file holds, and what the pool may still add to it.
OnFile(b) == \E i \in 1..Len(file) : file[i] = b

LineOf(e) == {[entry |-> e, part |-> k] : k \in 1..Buffers(e)}

(* However appends, writers, full queue and disk errors interleave, an      *)
(* entry that append() was called with is never forgotten without trace: it *)
(* was refused, is still to be written, met a disk error, or its whole line *)
(* is in the file or on its way there.  A queue slot freed before the line  *)
(* was handed over, or a task that lost the mutex, would break this.        *)
NoEntryVanishes ==
    \A e \in offered :
        \/ e \in dropped \cup failed \cup Unsettled
        \/ \A b \in LineOf(e) : b \in inflight \/ OnFile(b)

(* Every entry is accounted for, by the counter and by the file.            *)
EntriesAccounted == PendingCounts /\ NoEntryVanishes

(* What the test concurrent_appends_remain_valid_ndjson expects of the file *)
(* ("every line is complete JSON"): nothing stands between the two halves   *)
(* of a long line.  The code does not keep it: append_entry() returns, and  *)
(* the mutex is released, while the last buffer is still with the pool, and *)
(* the next task's line may be written before it.                           *)
LinesWhole ==
    \A i, j \in 1..Len(file) :
        file[i].entry = file[j].entry /\ file[i].part < file[j].part => j = i + 1

-----------------------------------------------------------------------------
(* The writer implements the abstract bounded sink.                         *)

SinkFate ==
    [e \in Entries |->
        IF e \notin offered THEN "new"
        ELSE IF e \in dropped THEN "dropped"
        ELSE IF e \in Unsettled THEN "queued"
        ELSE "settled"]

SinkBarrier ==
    IF fpc = "idle" THEN "idle" ELSE IF fpc = "returned" THEN "passed" ELSE "waiting"

Sink == INSTANCE BoundedSink WITH fate <- SinkFate, barrier <- SinkBarrier

(* Every behaviour of counter, tasks, mutex and Notify is one of the        *)
(* abstract sink: at most MaxPending entries outstanding, each accepted or  *)
(* refused at once, and a barrier that passes only on an empty queue.       *)
ImplementsSink == Sink!SinkSpec

(* With the scheduling above it also keeps the sink's liveness promises:    *)
(* every accepted entry is settled and a called flush() returns, in spite   *)
(* of the window between reading the counter and waiting, because the       *)
(* wake-up is registered first.                                             *)
ImplementsFairSink == Sink!FairSinkSpec

=============================================================================
