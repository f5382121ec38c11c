--------------------------- MODULE Shutdown_proofs ---------------------------
(***************************************************************************)
(* Proofs about the two ends of a shutdown, which share nothing: the       *)
(* supervisor, which tells the router to stop, and the log writer, whose   *)
(* flush() is the last thing the router waits for.                         *)
(***************************************************************************)
EXTENDS Entrypoint, LogWriter, FiniteSetTheorems, TLAPS

-----------------------------------------------------------------------------
(***************************************************************************)
(* The supervisor, for any LENS_MAX_RESTARTS and any number of signals.    *)
(* The properties speak of a few places in the script; the invariant says  *)
(* what holds on the way to them: how failures and starts count up         *)
(* together, and what a signal has been seen to do.                        *)
(***************************************************************************)

\* Every failure but the last is answered by a start.
Counting ==
    /\ pc \in {"top", "wait", "router", "lens"} =>
           launched = failures + 1 /\ failures <= MaxRestarts
    /\ pc \in {"sleep", "launch"} => launched = failures /\ failures <= MaxRestarts
    /\ pc = "only" => launched = failures /\ failures = MaxRestarts + 1
    /\ launched <= MaxRestarts + 1

\* The dashboard is down while the script prepares to start it.
Relaunching == spare = 0 /\ (pc \in {"sleep", "launch"} => ~Up("lens"))

\* Only a SIGTERM sent to the container makes the script tell the router.
Causes == /\ signalled => told > 0
          /\ "router" \in termed => told > 0

\* Behind the loop the router still runs only if a signal ended a wait; the
\* signal that ends the last wait is another one.
Draining ==
    /\ pc \in {"terminate", "reap"} /\ Up("router") =>
           told > 0 /\ (signalled => told > 1)
    /\ pc = "ended" /\ Up("router") => told > 1

IInv == TypeOK /\ Counting /\ Relaunching /\ Causes /\ Draining

USE EntrypointAssumption

\* The invariant holds when both children have been started.
LEMMA InitIInv == Init => IInv
<1> SUFFICES ASSUME Init PROVE IInv
  OBVIOUS
<1>1. child \in [Children -> {"up", "exited", "killed"}]
  BY DEF Init
<1>2. TypeOK
  <2>1. failures \in 0..(MaxRestarts + 1) /\ told \in 0..MaxTerms
    BY DEF Init
  <2>2. signalled \in BOOLEAN /\ launched \in Nat /\ spare \in Nat
    BY DEF Init
  <2>3. streak \in 0..failures
    BY DEF Init
  <2>4. known \subseteq Children /\ termed \subseteq Children
    BY DEF Init
  <2> QED BY <1>1, <2>1, <2>2, <2>3, <2>4 DEF Init, TypeOK
<1>3. Counting /\ Relaunching /\ Causes /\ Draining
  BY DEF Init, Counting, Relaunching, Causes, Draining
<1> QED BY <1>2, <1>3 DEF IInv

\* The children and the orchestrator preserve it.
LEMMA OutsideIInv ==
  ASSUME IInv, Term \/ Serves \/ \E c \in Children : Dies(c)
  PROVE  IInv'
<1>1. CASE Term
  BY <1>1 DEF Term, IInv, TypeOK, Counting, Relaunching, Causes, Draining, Up
<1>2. ASSUME NEW c \in Children, Dies(c) PROVE IInv'
  <2>1. PICK how \in {"exited", "killed"} : child' = [child EXCEPT ![c] = how]
    BY <1>2 DEF Dies, Exits, IsKilled
  <2>2. UNCHANGED <<pc, known, signalled, failures, told, termed, launched, spare, streak>>
    BY <1>2 DEF Dies, Exits, IsKilled, historyVars
  <2>3. \A d \in Children : Up(d)' => Up(d)
    BY <2>1 DEF IInv, TypeOK, Up
  <2>4. TypeOK'
    BY <2>1, <2>2 DEF IInv, TypeOK
  <2>5. Counting' /\ Causes'
    BY <2>2 DEF IInv, Counting, Causes
  <2>6. Relaunching' /\ Draining'
    BY <2>2, <2>3 DEF IInv, Relaunching, Draining, Children
  <2> QED BY <2>4, <2>5, <2>6 DEF IInv
<1>3. CASE Serves
  BY <1>3 DEF Serves, IInv, TypeOK, Counting, Relaunching, Causes, Draining, Up
<1> QED BY <1>1, <1>2, <1>3

\* Every step of the script does.
LEMMA ScriptIInv ==
  ASSUME IInv, Script
  PROVE  IInv'
<1> USE DEF IInv, TypeOK, Counting, Relaunching, Causes, Draining, Up, At,
            Remembered, historyVars
<1>1. CASE Trap        BY <1>1 DEF Trap, Told, Addressees, Children
<1>2. CASE Wait        BY <1>2 DEF Wait
<1>3. CASE WaitReturns BY <1>3 DEF WaitReturns
<1>4. CASE CheckRouter BY <1>4 DEF CheckRouter, RouterGone
<1>5. CASE StraySignal BY <1>5 DEF StraySignal, DashboardGone
<1>6. CASE CountFailure
  BY <1>6 DEF CountFailure, DashboardGone, GivesUp, AfterGivingUp
<1>7. CASE SleepEnds   BY <1>7 DEF SleepEnds
<1>8. CASE Launch
  <2>1. child' \in [Children -> {"up", "exited", "killed"}]
    BY <1>8 DEF Launch
  <2>2. child'["router"] = child["router"]
    BY <1>8 DEF Launch, Children
  <2>3. known' \subseteq Children /\ termed' \subseteq Children
    BY <1>8 DEF Launch, Children
  <2>4. launched' \in Nat /\ spare' \in Nat
    BY <1>8 DEF Launch
  <2>5. TypeOK'
    BY <1>8, <2>1, <2>3, <2>4 DEF Launch
  <2>6. Counting' /\ Relaunching'
    BY <1>8 DEF Launch
  <2>7. Causes' /\ Draining'
    BY <1>8, <2>2 DEF Launch
  <2> QED BY <2>5, <2>6, <2>7
<1>9. CASE WaitForRouter BY <1>9 DEF WaitForRouter
<1>10. CASE Terminate  BY <1>10 DEF Terminate, Told, Addressees, AfterTerminate, Children
<1>11. CASE WaitForAll BY <1>11 DEF WaitForAll, Children
<1> QED
  BY <1>1, <1>2, <1>3, <1>4, <1>5, <1>6, <1>7, <1>8, <1>9, <1>10, <1>11 DEF Script

\* The inductive invariant of the supervisor.
THEOREM SupervisorInvariant == Spec => []IInv
<1>1. IInv /\ [Next]_vars => IInv'
  <2> SUFFICES ASSUME IInv, [Next]_vars PROVE IInv'
    OBVIOUS
  <2>1. CASE Script
    BY <2>1, ScriptIInv
  <2>2. CASE Term \/ Serves \/ \E c \in Children : Dies(c)
    BY <2>2, OutsideIInv
  <2>3. CASE UNCHANGED vars
    BY <2>3 DEF vars, IInv, TypeOK, Counting, Relaunching, Causes, Draining, Up
  <2> QED BY <2>1, <2>2, <2>3 DEF Next
<1> QED BY InitIInv, <1>1, PTL DEF Spec

\* Dashboards that fail in a row are started LENS_MAX_RESTARTS times again and
\* no more, one that never served is not given up before that, and two never
\* tail the log at once.
THEOREM RestartsAreBounded == Spec => [](TypeOK /\ DashboardBounded)
<1>1. IInv => TypeOK /\ DashboardBounded
  BY EntrypointAssumption
  DEF IInv, TypeOK, Counting, Relaunching, CrashLoopEnds, OneDashboard, DashboardBounded
<1> QED BY SupervisorInvariant, <1>1, PTL

\* The script stops the router only when the container was told to stop, and
\* cuts its shutdown off only when that was said twice.
THEOREM RouterProtected == Spec => []RouterSpared
<1>1. IInv => RouterSpared
  BY DEF IInv, Causes, Draining, DashboardHarmless, DrainRespected, RouterSpared
<1> QED BY SupervisorInvariant, <1>1, PTL

-----------------------------------------------------------------------------
(***************************************************************************)
(* The log writer, for every set of entries, every choice of the long ones *)
(* and every queue bound.                                                  *)
(***************************************************************************)

USE WriterAssumption DEF WriterAssumption

(* Where the entries are: what the counter's correctness rests on.          *)
Places ==
    /\ IsFiniteSet(tasks)
    /\ owner \notin tasks
    /\ tasks \cup dropped \subseteq offered
    /\ owner \in offered \cup {NoEntry}
    /\ dropped \cap tasks = {}
    /\ owner \notin dropped
    /\ fpc = "returned" => Unsettled = {}

WriterInv == WriterTypeOK /\ Places /\ PendingCounts

(* Cardinality of the entries still to be written: adding a task to a set   *)
(* of at most n entries, or settling the entry that holds the mutex.        *)
LEMMA CardinalityAdd ==
    ASSUME NEW S, IsFiniteSet(S), NEW x, x \notin S
    PROVE  /\ IsFiniteSet(S \cup {x})
           /\ Cardinality(S \cup {x}) = Cardinality(S) + 1
           /\ Cardinality(S) \in Nat
  BY FS_AddElement, FS_CardinalityType

LEMMA UnsettledFinite ==
    ASSUME IsFiniteSet(tasks)
    PROVE  IsFiniteSet(Unsettled)
  BY FS_EmptySet, FS_Singleton, FS_Union DEF Unsettled

LEMMA InitInv == WriterInit => WriterInv
  <1> SUFFICES ASSUME WriterInit PROVE WriterInv
    OBVIOUS
  <1>1. WriterTypeOK
    <2>1. file \in Seq(Buffer)
      BY DEF WriterInit
    <2> QED
      BY <2>1 DEF WriterInit, WriterTypeOK
  <1>2. Unsettled = {}
    BY DEF WriterInit, Unsettled
  <1>3. Places
    BY <1>2, FS_EmptySet DEF WriterInit, Places
  <1>4. PendingCounts
    BY <1>2, FS_EmptySet DEF WriterInit, PendingCounts
  <1> QED
    BY <1>1, <1>3, <1>4 DEF WriterInv

(* An append either leaves the queue as it was or adds one entry to a queue *)
(* that had room.                                                           *)
LEMMA EnqueueInv ==
    ASSUME WriterInv, NEW e \in Entries, fpc # "returned", Enqueue(e)
    PROVE  WriterInv'
  <1> USE DEF WriterInv
  <1>1. WriterTypeOK'
    BY DEF WriterTypeOK, Enqueue, HasRoom, lockVars, flushVars
  <1>2. CASE HasRoom
    <2>1. /\ pending' = pending + 1 /\ tasks' = tasks \cup {e} /\ dropped' = dropped
          /\ owner' = owner /\ wpc' = wpc /\ fpc' = fpc /\ offered' = offered \cup {e}
          /\ e \notin offered
      BY <1>2 DEF Enqueue, lockVars, flushVars
    <2>2. e \notin Unsettled
      BY <2>1 DEF Places, Unsettled, WriterTypeOK
    <2>3. Unsettled' = Unsettled \cup {e}
      BY <2>1 DEF Unsettled
    <2>4. Cardinality(Unsettled') = Cardinality(Unsettled) + 1
      BY <2>2, <2>3, UnsettledFinite, CardinalityAdd DEF Places
    <2>5. PendingCounts'
      BY <1>2, <2>1, <2>4 DEF PendingCounts, HasRoom, WriterTypeOK
    <2>6. IsFiniteSet(tasks')
      BY <2>1, CardinalityAdd, FS_AddElement DEF Places
    <2>7. Places'
      BY <2>1, <2>6 DEF Places, WriterTypeOK
    <2> QED
      BY <1>1, <2>5, <2>7
  <1>3. CASE ~HasRoom
    <2>1. /\ UNCHANGED <<pending, tasks, owner, wpc, fpc>> /\ dropped' = dropped \cup {e}
          /\ offered' = offered \cup {e} /\ e \notin offered
      BY <1>3 DEF Enqueue, lockVars, flushVars
    <2>2. Unsettled' = Unsettled
      BY <2>1 DEF Unsettled
    <2>3. Places' /\ PendingCounts'
      BY <2>1, <2>2 DEF Places, PendingCounts, WriterTypeOK
    <2> QED
      BY <1>1, <2>3
  <1> QED
    BY <1>2, <1>3

(* The task that takes the mutex is counted before and after.               *)
LEMMA TakeLockInv ==
    ASSUME WriterInv, NEW e \in tasks, TakeLock(e)
    PROVE  WriterInv' /\ Unsettled' = Unsettled
  <1> USE DEF WriterInv
  <1>1. WriterTypeOK'
    BY DEF WriterTypeOK, TakeLock, flushVars
  <1>2. /\ owner = NoEntry /\ wpc = "free" /\ owner' = e /\ wpc' = "open" /\ tasks' = tasks \ {e}
        /\ UNCHANGED <<pending, dropped, offered, fpc>>
    BY DEF TakeLock, flushVars, WriterTypeOK
  <1>3. Unsettled' = Unsettled
    BY <1>2 DEF Unsettled
  <1>4. IsFiniteSet(tasks')
    BY <1>2, FS_RemoveElement DEF Places
  <1>5. Places' /\ PendingCounts'
    BY <1>2, <1>3, <1>4 DEF Places, PendingCounts, WriterTypeOK
  <1> QED
    BY <1>1, <1>3, <1>5

(* The steps that write leave the counted entries alone.                    *)
LEMMA WriteInv ==
    ASSUME WriterInv, OpenFails \/ WriteFirst \/ WriteRest
    PROVE  WriterInv' /\ Unsettled' = Unsettled
  <1> USE DEF WriterInv
  <1>1. /\ UNCHANGED <<pending, tasks, owner, dropped, offered, fpc, permit, file>>
        /\ wpc \in {"open", "more"} /\ wpc' \in {"more", "sub"}
    BY DEF OpenFails, WriteFirst, WriteRest, flushVars
  <1>2. WriterTypeOK'
    <2>1. owner \in Entries
      BY <1>1 DEF WriterTypeOK
    <2>2. inflight' \in SUBSET Buffer
      BY <2>1 DEF OpenFails, WriteFirst, WriteRest, Buffer, WriterTypeOK
    <2>3. failed' \in SUBSET Entries
      BY <2>1 DEF OpenFails, WriteFirst, WriteRest, WriterTypeOK
    <2> QED
      BY <1>1, <2>2, <2>3 DEF WriterTypeOK
  <1>3. Unsettled' = Unsettled
    BY <1>1 DEF Unsettled
  <1>4. Places' /\ PendingCounts'
    BY <1>1, <1>3 DEF Places, PendingCounts
  <1> QED
    BY <1>2, <1>3, <1>4

(* The decrement settles exactly the entry that holds the mutex.            *)
LEMMA SubtractInv ==
    ASSUME WriterInv, Subtract
    PROVE  /\ WriterInv'
           /\ owner \in Entries /\ owner \in Unsettled
           /\ Unsettled' = Unsettled \ {owner}
  <1> USE DEF WriterInv
  <1>1. /\ wpc = "sub" /\ wpc' = "notify" /\ pending' = pending - 1
        /\ UNCHANGED <<tasks, owner, inflight, file, failed, dropped, offered, fpc, permit>>
    BY DEF Subtract, flushVars
  <1>2. owner \in Entries /\ owner \in Unsettled
    BY <1>1 DEF WriterTypeOK, Unsettled
  <1>3. Unsettled' = Unsettled \ {owner}
    BY <1>1 DEF Unsettled, Places
  <1>4. IsFiniteSet(Unsettled) /\ IsFiniteSet(Unsettled')
    BY <1>1, UnsettledFinite, FS_RemoveElement, <1>3 DEF Places
  <1>5. /\ Cardinality(Unsettled') = Cardinality(Unsettled) - 1
        /\ Cardinality(Unsettled') \in Nat
    BY <1>2, <1>3, <1>4, FS_RemoveElement, FS_CardinalityType
  <1>6. PendingCounts'
    BY <1>1, <1>5 DEF PendingCounts, WriterTypeOK
  <1>7. WriterTypeOK'
    BY <1>1, <1>5, <1>6 DEF WriterTypeOK, PendingCounts
  <1>8. Places'
    BY <1>1, <1>3 DEF Places
  <1> QED
    BY <1>2, <1>3, <1>6, <1>7, <1>8

LEMMA NotifyInv ==
    ASSUME WriterInv, Notify
    PROVE  WriterInv' /\ Unsettled' = Unsettled
  <1> USE DEF WriterInv
  <1>1. /\ wpc = "notify" /\ wpc' = "free" /\ owner' = NoEntry
        /\ UNCHANGED <<pending, tasks, inflight, file, failed, dropped, offered, fpc>>
    BY DEF Notify
  <1>2. WriterTypeOK'
    BY <1>1 DEF Notify, Registered, WriterTypeOK
  <1>3. Unsettled' = Unsettled
    BY <1>1 DEF Unsettled
  <1>4. Places' /\ PendingCounts'
    BY <1>1, <1>3 DEF Places, PendingCounts, WriterTypeOK
  <1> QED
    BY <1>2, <1>3, <1>4

LEMMA PoolInv ==
    ASSUME WriterInv, NEW b \in inflight, PoolWrites(b) \/ PoolFails(b)
    PROVE  WriterInv' /\ Unsettled' = Unsettled
  <1> USE DEF WriterInv
  <1>1. UNCHANGED <<pending, tasks, owner, wpc, dropped, offered, fpc, permit>>
    BY DEF PoolWrites, PoolFails, flushVars
  <1>2. b \in Buffer /\ b.entry \in Entries
    BY DEF WriterTypeOK, Buffer
  <1>3. WriterTypeOK'
    <2>1. inflight' \in SUBSET Buffer
      BY DEF PoolWrites, PoolFails, WriterTypeOK
    <2>2. file' \in Seq(Buffer)
      BY <1>2 DEF PoolWrites, PoolFails, WriterTypeOK
    <2>3. failed' \in SUBSET Entries
      BY <1>2 DEF PoolWrites, PoolFails, WriterTypeOK
    <2> QED
      BY <1>1, <2>1, <2>2, <2>3 DEF WriterTypeOK
  <1>4. Unsettled' = Unsettled
    BY <1>1 DEF Unsettled
  <1>5. Places' /\ PendingCounts'
    BY <1>1, <1>4 DEF Places, PendingCounts
  <1> QED
    BY <1>3, <1>4, <1>5

(* flush() returns on a zero counter, which is an empty queue.              *)
LEMMA FlushInv ==
    ASSUME WriterInv, FlushCall \/ FlushStep
    PROVE  WriterInv' /\ Unsettled' = Unsettled
  <1> USE DEF WriterInv
  <1>1. UNCHANGED <<pending, tasks, owner, wpc, inflight, file, failed, dropped, offered>>
    BY DEF FlushCall, FlushStep, FlushRegister, FlushLoad, FlushPoll, FlushWake, lockVars
  <1>2. WriterTypeOK'
    BY <1>1 DEF FlushCall, FlushStep, FlushRegister, FlushLoad, FlushPoll, FlushWake, WriterTypeOK
  <1>3. Unsettled' = Unsettled
    BY <1>1 DEF Unsettled
  <1>4. fpc' = "returned" => Unsettled = {}
    <2>1. fpc' = "returned" => pending = 0
      BY DEF FlushCall, FlushStep, FlushRegister, FlushLoad, FlushPoll, FlushWake
    <2> QED
      BY <2>1, UnsettledFinite, FS_EmptySet DEF PendingCounts, Places
  <1>5. Places' /\ PendingCounts'
    BY <1>1, <1>3, <1>4 DEF Places, PendingCounts
  <1> QED
    BY <1>2, <1>3, <1>5

LEMMA StutterInv ==
    ASSUME WriterInv, UNCHANGED writerVars
    PROVE  WriterInv'
  BY DEF WriterInv, WriterTypeOK, Places, PendingCounts, Unsettled, writerVars

LEMMA NextInv == WriterInv /\ [WriterNext]_writerVars => WriterInv'
  <1> SUFFICES ASSUME WriterInv, [WriterNext]_writerVars PROVE WriterInv'
    OBVIOUS
  <1>1. CASE \E e \in Entries : fpc # "returned" /\ Enqueue(e)
    BY <1>1, EnqueueInv
  <1>2. CASE \E e \in tasks : TakeLock(e)
    BY <1>2, TakeLockInv
  <1>3. CASE OpenFails \/ WriteFirst \/ WriteRest
    BY <1>3, WriteInv
  <1>4. CASE Subtract
    BY <1>4, SubtractInv
  <1>5. CASE Notify
    BY <1>5, NotifyInv
  <1>6. CASE PoolStep
    BY <1>6, PoolInv DEF PoolStep
  <1>7. CASE FlushCall \/ FlushStep
    BY <1>7, FlushInv
  <1>8. CASE UNCHANGED writerVars
    BY <1>8, StutterInv
  <1> QED
    BY <1>1, <1>2, <1>3, <1>4, <1>5, <1>6, <1>7, <1>8 DEF WriterNext, WriterStep

(* The writer's state keeps its types, the counter counts the entries still *)
(* to be written, and flush() returns on an empty queue: the inductive      *)
(* invariant of model_log.rs's append, writer task and flush.               *)
THEOREM WriterInvariant == WriterSpec => []WriterInv
  BY InitInv, NextInv, PTL DEF WriterSpec

(* pending_writes never exceeds MAX_PENDING_WRITES nor drifts from the      *)
(* number of entries waiting for or holding the mutex.                      *)
THEOREM PendingCorrect == WriterSpec => [](WriterTypeOK /\ PendingCounts)
  BY WriterInvariant, PTL DEF WriterInv

-----------------------------------------------------------------------------
(* No entry vanishes.  The property is not inductive: the step that settles *)
(* an entry needs to know how far the task has come with its line.          *)

Placed(b) == b \in inflight \/ OnFile(b)

TaskProgress ==
    /\ wpc = "more" =>
          /\ owner \in Large
          /\ owner \in failed \/ Placed([entry |-> owner, part |-> 1])
    /\ wpc = "sub" =>
          owner \in failed \/ \A b \in LineOf(owner) : Placed(b)

VanishInv == WriterInv /\ NoEntryVanishes /\ TaskProgress

(* A buffer that is placed stays placed, unless the pool fails to write it, *)
(* and then its entry is among the failed ones.                             *)
LEMMA PlacedStable ==
    ASSUME WriterInv, [WriterNext]_writerVars, NEW b \in Buffer, Placed(b)
    PROVE  Placed(b)' \/ b.entry \in failed'
  <1> USE DEF WriterInv, WriterTypeOK
  <1>1. CASE PoolStep
    <2>1. PICK c \in inflight : PoolWrites(c) \/ PoolFails(c)
      BY <1>1 DEF PoolStep
    <2>2. CASE PoolWrites(c)
      <3>1. /\ inflight' = inflight \ {c} /\ file' = file \o <<c>> /\ c \in Buffer
        BY <2>2 DEF PoolWrites
      <3>2. /\ Len(file') = Len(file) + 1
            /\ file'[Len(file) + 1] = c
            /\ \A i \in 1..Len(file) : file'[i] = file[i]
        BY <3>1
      <3> QED
        BY <3>1, <3>2 DEF Placed, OnFile
    <2>3. CASE PoolFails(c)
      BY <2>3 DEF PoolFails, Placed, OnFile
    <2> QED
      BY <2>1, <2>2, <2>3
  <1>2. CASE ~PoolStep
    <2>1. inflight \subseteq inflight' /\ file' = file
      BY <1>2 DEF WriterNext, WriterStep, FlushStep, Enqueue, TakeLock, OpenFails, WriteFirst,
                  WriteRest, Subtract, Notify, FlushCall, FlushRegister, FlushLoad, FlushPoll, FlushWake,
                  lockVars, flushVars, writerVars
    <2> QED
      BY <2>1 DEF Placed, OnFile
  <1> QED
    BY <1>1, <1>2

LEMMA GrowOnly ==
    ASSUME WriterInv, [WriterNext]_writerVars
    PROVE  failed \subseteq failed' /\ dropped \subseteq dropped' /\ offered \subseteq offered'
  BY DEF WriterNext, WriterStep, PoolStep, FlushStep, Enqueue, TakeLock, OpenFails, WriteFirst,
         WriteRest, Subtract, Notify, PoolWrites, PoolFails, FlushCall, FlushRegister, FlushLoad,
         FlushPoll, FlushWake, lockVars, flushVars, writerVars

LEMMA LineInBuffer ==
    ASSUME NEW e \in Entries, NEW b \in LineOf(e)
    PROVE  b \in Buffer /\ b.entry = e
  BY DEF LineOf, Buffer, Buffers

(* The line of an entry: one buffer, or two when it is long.                *)
LEMMA LineParts ==
    ASSUME NEW e
    PROVE  /\ e \notin Large => LineOf(e) = {[entry |-> e, part |-> 1]}
           /\ e \in Large => LineOf(e) = {[entry |-> e, part |-> 1], [entry |-> e, part |-> 2]}
  <1>1. 1..1 = {1} /\ 1..2 = {1, 2}
    OBVIOUS
  <1> QED
    BY <1>1 DEF LineOf, Buffers

LEMMA ProgressStep ==
    ASSUME VanishInv, [WriterNext]_writerVars
    PROVE  TaskProgress'
  <1> USE DEF VanishInv, WriterInv, WriterTypeOK
  <1>1. CASE WriteFirst
    <2>1. /\ owner' = owner /\ owner \in Entries /\ wpc = "open" /\ failed' = failed
          /\ inflight' = inflight \cup {[entry |-> owner, part |-> 1]}
          /\ wpc' = IF LastBuffer(1) THEN "sub" ELSE "more"
      BY <1>1 DEF WriteFirst
    <2>2. LastBuffer(1) <=> owner \notin Large
      BY DEF LastBuffer, Buffers
    <2>3. Placed([entry |-> owner, part |-> 1])'
      BY <2>1 DEF Placed
    <2> QED
      BY <2>1, <2>2, <2>3, LineParts DEF TaskProgress
  <1>2. CASE WriteRest
    <2>1. /\ owner' = owner /\ owner \in Entries /\ wpc = "more" /\ failed' = failed
          /\ file' = file /\ wpc' = "sub"
          /\ owner \notin failed => inflight' = inflight \cup {[entry |-> owner, part |-> 2]}
          /\ inflight \subseteq inflight'
      BY <1>2 DEF WriteRest
    <2>2. owner \notin failed => Placed([entry |-> owner, part |-> 1])'
      BY <2>1 DEF TaskProgress, Placed, OnFile
    <2>3. owner \notin failed => Placed([entry |-> owner, part |-> 2])'
      BY <2>1 DEF Placed
    <2>4. owner \in Large
      BY <2>1 DEF TaskProgress
    <2> QED
      BY <2>1, <2>2, <2>3, <2>4, LineParts DEF TaskProgress
  <1>3. CASE OpenFails \/ Subtract \/ Notify \/ \E e \in tasks : TakeLock(e)
    BY <1>3 DEF OpenFails, Subtract, Notify, TakeLock, TaskProgress
  <1>4. CASE UNCHANGED <<owner, wpc>>
    <2>1. wpc \in {"more", "sub"} => owner \in Entries
      OBVIOUS
    <2>2. wpc \in {"more", "sub"} /\ owner \in failed => owner' \in failed'
      BY <1>4, GrowOnly
    <2>3. wpc = "more" => [entry |-> owner, part |-> 1] \in Buffer
      BY <2>1 DEF Buffer
    <2>4. wpc = "more" => TaskProgress'
      BY <1>4, <2>1, <2>2, <2>3, PlacedStable DEF TaskProgress
    <2>5. wpc = "sub" => TaskProgress'
      BY <1>4, <2>1, <2>2, LineInBuffer, PlacedStable DEF TaskProgress, LineOf, Buffers
    <2> QED
      BY <1>4, <2>4, <2>5 DEF TaskProgress
  <1> QED
    <2>1. CASE \E e \in Entries : fpc # "returned" /\ Enqueue(e)
      BY <2>1, <1>4 DEF Enqueue, lockVars
    <2>2. CASE PoolStep
      BY <2>2, <1>4 DEF PoolStep, PoolWrites, PoolFails
    <2>3. CASE FlushCall \/ FlushStep \/ UNCHANGED writerVars
      BY <2>3, <1>4 DEF FlushCall, FlushStep, FlushRegister, FlushLoad, FlushPoll, FlushWake, lockVars, writerVars
    <2> QED
      BY <1>1, <1>2, <1>3, <2>1, <2>2, <2>3 DEF WriterNext, WriterStep

(* An entry leaves the counted ones only by the decrement, and then its     *)
(* task has written the line or met an error.                               *)
LEMMA VanishStep ==
    ASSUME VanishInv, [WriterNext]_writerVars
    PROVE  NoEntryVanishes'
  <1> SUFFICES ASSUME NEW e \in offered',
                      e \notin dropped' \cup failed' \cup Unsettled',
                      NEW b \in LineOf(e)
               PROVE  Placed(b)'
    BY DEF NoEntryVanishes, Placed, LineOf, OnFile
  <1>0. e \in Entries
    BY NextInv DEF VanishInv, WriterInv, WriterTypeOK
  <1>1. e \notin dropped \cup failed
    BY GrowOnly DEF VanishInv
  <1>2. b \in Buffer /\ b.entry = e
    BY <1>0, LineInBuffer
  <1>3. CASE e \in Unsettled
    <2>1. Subtract
      <3>1. ~(\E x \in Entries : fpc # "returned" /\ Enqueue(x))
        BY <1>3 DEF Unsettled, Enqueue, lockVars
      <3>2. Unsettled' # Unsettled
        BY <1>3
      <3> QED
        BY <3>1, <3>2, TakeLockInv, WriteInv, NotifyInv, PoolInv, FlushInv
           DEF VanishInv, WriterNext, WriterStep, PoolStep, writerVars, Unsettled
    <2>2. e = owner /\ wpc = "sub"
      BY <1>3, <2>1, SubtractInv DEF VanishInv, Subtract
    <2>3. Placed(b)
      BY <1>1, <2>2 DEF VanishInv, TaskProgress
    <2> QED
      BY <1>2, <2>3, PlacedStable DEF VanishInv
  <1>4. CASE e \notin Unsettled
    <2>1. e \in offered
      <3>1. CASE \E x \in Entries : fpc # "returned" /\ Enqueue(x)
        BY <3>1 DEF Enqueue, Unsettled
      <3>2. CASE ~\E x \in Entries : fpc # "returned" /\ Enqueue(x)
        BY <3>2 DEF WriterNext, WriterStep, PoolStep, FlushStep, TakeLock, OpenFails, WriteFirst,
             WriteRest, Subtract, Notify, PoolWrites, PoolFails, FlushCall, FlushRegister,
             FlushLoad, FlushPoll, FlushWake, writerVars
      <3> QED
        BY <3>1, <3>2
    <2>2. Placed(b)
      BY <1>1, <1>4, <2>1 DEF VanishInv, NoEntryVanishes, Placed
    <2> QED
      BY <1>2, <2>2, PlacedStable DEF VanishInv
  <1> QED
    BY <1>3, <1>4

(* Every entry append() was called with is refused, waiting, failed, or     *)
(* wholly in the file or on its way there, whatever the interleaving.       *)
THEOREM NothingVanishes == WriterSpec => []NoEntryVanishes
  <1>1. WriterInit => VanishInv
    <2> SUFFICES ASSUME WriterInit PROVE NoEntryVanishes /\ TaskProgress
      BY InitInv DEF VanishInv
    <2> QED
      BY DEF WriterInit, NoEntryVanishes, TaskProgress
  <1>2. VanishInv /\ [WriterNext]_writerVars => VanishInv'
    BY NextInv, ProgressStep, VanishStep DEF VanishInv
  <1> QED
    BY <1>1, <1>2, PTL DEF WriterSpec, VanishInv

(* Both together, as the runs check them.                                   *)
THEOREM WriterAccounts == WriterSpec => []EntriesAccounted
  BY PendingCorrect, NothingVanishes, PTL DEF EntriesAccounted

-----------------------------------------------------------------------------
(* Refinement: the writer implements BoundedSink.                           *)

(* The sink's own instance of Cardinality is the usual one.                 *)
LEMMA SameCardinality == \A S : Sink!Cardinality(S) = Cardinality(S)
  BY DEF Sink!Cardinality, Cardinality, Sink!IsFiniteSet, IsFiniteSet

LEMMA QueuedIsUnsettled ==
    ASSUME WriterInv
    PROVE  Sink!Queued = Unsettled
  <1>1. Unsettled \subseteq offered /\ Unsettled \cap dropped = {} /\ Unsettled \subseteq Entries
    BY DEF WriterInv, Places, Unsettled, WriterTypeOK
  <1> QED
    BY <1>1 DEF Sink!Queued, SinkFate

LEMMA SinkInitStep == WriterInit => Sink!SinkInit
  BY DEF WriterInit, Sink!SinkInit, SinkFate, SinkBarrier

(* A step that changes none of the four variables the mapping reads, and    *)
(* leaves the counted entries alone, is a stutter of the sink.              *)
LEMMA SinkStutter ==
    ASSUME UNCHANGED <<offered, dropped, fpc>>, Unsettled' = Unsettled
    PROVE  UNCHANGED Sink!sinkVars
  <1>1. SinkFate' = SinkFate
    BY DEF SinkFate
  <1>2. SinkBarrier' = SinkBarrier
    BY DEF SinkBarrier
  <1> QED
    BY <1>1, <1>2 DEF Sink!sinkVars

LEMMA SinkEnqueue ==
    ASSUME WriterInv, NEW e \in Entries, fpc # "returned", Enqueue(e)
    PROVE  Sink!Accept(e) \/ Sink!Refuse(e)
  <1> USE DEF WriterInv
  <1>1. /\ e \notin offered /\ offered' = offered \cup {e}
        /\ UNCHANGED <<owner, wpc, fpc>>
    BY DEF Enqueue, lockVars, flushVars
  <1>2. e \notin Unsettled /\ e \notin dropped
    BY <1>1 DEF Places, Unsettled, WriterTypeOK
  <1>3. SinkFate[e] = "new" /\ SinkBarrier' = SinkBarrier
    BY <1>1 DEF SinkFate, SinkBarrier
  <1>4. Cardinality(Sink!Queued) = pending
    BY QueuedIsUnsettled DEF PendingCounts
  <1>5. CASE HasRoom
    <2>1. dropped' = dropped /\ tasks' = tasks \cup {e}
      BY <1>5 DEF Enqueue
    <2>2. Unsettled' = Unsettled \cup {e}
      BY <1>1, <2>1 DEF Unsettled
    <2>3. SinkFate' = [SinkFate EXCEPT ![e] = "queued"]
      BY <1>1, <1>2, <2>1, <2>2 DEF SinkFate
    <2>4. Sink!Cardinality(Sink!Queued) < MaxPending
      BY <1>4, <1>5, SameCardinality DEF HasRoom
    <2> QED
      BY <1>3, <2>3, <2>4 DEF Sink!Accept
  <1>6. CASE ~HasRoom
    <2>1. dropped' = dropped \cup {e} /\ tasks' = tasks
      BY <1>6 DEF Enqueue
    <2>2. Unsettled' = Unsettled
      BY <1>1, <2>1 DEF Unsettled
    <2>3. SinkFate' = [SinkFate EXCEPT ![e] = "dropped"]
      BY <1>1, <1>2, <2>1, <2>2 DEF SinkFate
    <2>4. Sink!Cardinality(Sink!Queued) >= MaxPending
      BY <1>4, <1>6, SameCardinality DEF HasRoom, WriterTypeOK
    <2> QED
      BY <1>3, <2>3, <2>4 DEF Sink!Refuse
  <1> QED
    BY <1>5, <1>6

LEMMA SinkSubtract ==
    ASSUME WriterInv, Subtract
    PROVE  Sink!Settle(owner) /\ owner \in Entries
  <1>1. /\ owner \in Entries /\ owner \in Unsettled
        /\ Unsettled' = Unsettled \ {owner}
    BY SubtractInv
  <1>2. UNCHANGED <<offered, dropped, fpc, owner>>
    BY DEF Subtract, flushVars
  <1>3. owner \in offered /\ owner \notin dropped
    BY <1>1 DEF WriterInv, Places, WriterTypeOK
  <1>4. SinkFate[owner] = "queued" /\ SinkBarrier' = SinkBarrier
    BY <1>1, <1>2, <1>3 DEF SinkFate, SinkBarrier
  <1>5. SinkFate' = [SinkFate EXCEPT ![owner] = "settled"]
    BY <1>1, <1>2, <1>3 DEF SinkFate
  <1> QED
    BY <1>1, <1>4, <1>5 DEF Sink!Settle

LEMMA SinkFlush ==
    ASSUME WriterInv, FlushCall \/ FlushStep
    PROVE  Sink!CallBarrier \/ Sink!PassBarrier \/ UNCHANGED Sink!sinkVars
  <1>1. Unsettled' = Unsettled /\ UNCHANGED <<offered, dropped, pending>>
    BY FlushInv DEF FlushCall, FlushStep, FlushRegister, FlushLoad, FlushPoll, FlushWake
  <1>2. SinkFate' = SinkFate
    BY <1>1 DEF SinkFate
  <1>3. CASE FlushCall
    BY <1>2, <1>3 DEF FlushCall, SinkBarrier, Sink!CallBarrier
  <1>4. CASE FlushLoad /\ pending = 0
    <2>1. Unsettled = {}
      BY <1>4, UnsettledFinite, FS_EmptySet DEF WriterInv, PendingCounts, Places
    <2> QED
      BY <1>2, <1>4, <2>1, QueuedIsUnsettled DEF FlushLoad, SinkBarrier, Sink!PassBarrier
  <1>5. CASE FlushRegister \/ (FlushLoad /\ pending # 0) \/ FlushPoll \/ FlushWake
    BY <1>2, <1>5 DEF FlushRegister, FlushLoad, FlushPoll, FlushWake, SinkBarrier, Sink!sinkVars
  <1> QED
    BY <1>3, <1>4, <1>5 DEF FlushStep

LEMMA SinkStep == WriterInv /\ [WriterNext]_writerVars => [Sink!SinkNext]_(Sink!sinkVars)
  <1> SUFFICES ASSUME WriterInv, [WriterNext]_writerVars
               PROVE  [Sink!SinkNext]_(Sink!sinkVars)
    OBVIOUS
  <1>1. CASE \E e \in Entries : fpc # "returned" /\ Enqueue(e)
    BY <1>1, SinkEnqueue DEF Sink!SinkNext
  <1>2. CASE \E e \in tasks : TakeLock(e)
    BY <1>2, TakeLockInv, SinkStutter DEF TakeLock, flushVars
  <1>3. CASE OpenFails \/ WriteFirst \/ WriteRest
    BY <1>3, WriteInv, SinkStutter DEF OpenFails, WriteFirst, WriteRest, flushVars
  <1>4. CASE Subtract
    BY <1>4, SinkSubtract DEF Sink!SinkNext
  <1>5. CASE Notify
    BY <1>5, NotifyInv, SinkStutter DEF Notify
  <1>6. CASE PoolStep
    BY <1>6, PoolInv, SinkStutter DEF PoolStep, PoolWrites, PoolFails, flushVars
  <1>7. CASE FlushCall \/ FlushStep
    BY <1>7, SinkFlush DEF Sink!SinkNext
  <1>8. CASE UNCHANGED writerVars
    BY <1>8, SinkStutter DEF writerVars, Unsettled
  <1> QED
    BY <1>1, <1>2, <1>3, <1>4, <1>5, <1>6, <1>7, <1>8 DEF WriterNext, WriterStep

(* Counter, tasks, mutex and Notify together behave as the abstract bounded *)
(* sink: bounded outstanding entries, immediate refusal, a barrier that     *)
(* passes on an empty queue only.                                           *)
THEOREM WriterImplementsSink == WriterSpec => ImplementsSink
  BY WriterInvariant, SinkInitStep, SinkStep, PTL
     DEF WriterSpec, ImplementsSink, Sink!SinkSpec
==============================================================================
