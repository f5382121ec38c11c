-------------------------- MODULE LensIngest_proofs --------------------------
(***************************************************************************)
(* What the tables of the lens keep to, for any entries, days, batch and   *)
(* number of faults: no body without its exchange, and no offset saved     *)
(* ahead of what was applied, through crashes, failed statements, sweeps   *)
(* and files that grow, go away or are replaced under the ingester; and    *)
(* between two polls, tables that follow, but for the times of the rows,   *)
(* from the set of applied entries, not from their order or from how often *)
(* they were applied, and that a failed statement spoils no further.       *)
(***************************************************************************)
EXTENDS LensIngest, SequenceTheorems, TLAPS

Applying == {"insert", "update", "body"}
Reading  == {"read", "check"} \cup Applying

Outcomes == {"absent", "pending", "ok", "http_error", "cancelled", "transport_error"}
Keys     == {"none", "heuristic", "client"}
RowType  == [outcome : Outcomes, key : Keys, ts : Events \cup {"none"}]

TypeInv ==
    /\ log \in [Days -> Seq(Entries \cup {NoEntry})]
    /\ partial \in Entries \cup {NoEntry}
    /\ today \in Days
    /\ old \subseteq Exchanges /\ cutoff \subseteq Exchanges
    /\ saved \in [Days -> Nat]
    /\ rows \in [Exchanges -> RowType]
    /\ bodies \in [Exchanges -> SUBSET {"client_req_body", "req_body", "resp_body"}]
    /\ file \in Days
    /\ offset \in Nat

\* The entry being applied stays where it was read, although the file grows.
InFile ==
    /\ lpc \in Reading => offset <= Len(log[file])
    /\ lpc \in Applying => offset # 0 /\ Entry \in Entries

\* Between the two statements of a sweep, and of an entry.
Attached ==
    /\ NoStrandedBodies
    /\ lpc = "sweepRows" => \A x \in cutoff : bodies[x] = {}
    /\ lpc \in {"update", "body"} => rows[Entry.x] # NoRow
    /\ lpc = "body" => Entry.ev \notin Bodyless

Tried == applied \cup lost \cup {NoEntry}

\* What the ingester has read it has tried, but for the entry in its hands.
Covered ==
    /\ \A d \in Days \ replaced :
           saved[d] <= Len(log[d]) /\ \A i \in 1..saved[d] : log[d][i] \in Tried
    /\ file \notin replaced /\ lpc \in {"read", "check"} =>
           \A i \in 1..offset : log[file][i] \in Tried
    /\ file \notin replaced /\ lpc \in Applying =>
           \A i \in 1..offset : i # offset => log[file][i] \in Tried

IInv == TypeInv /\ InFile /\ Attached /\ Covered

-----------------------------------------------------------------------------

LEMMA InitIInv == Init => IInv
<1> SUFFICES ASSUME Init PROVE IInv
  OBVIOUS
<1>1. 1 \in Days
  BY IngestAssumption
<1>2. << >> \in Seq(Entries \cup {NoEntry})
  OBVIOUS
<1>3. TypeInv
  BY <1>1, <1>2 DEF Init, TypeInv, NoRow, RowType, Outcomes, Keys
<1>4. InFile /\ Attached
  BY DEF Init, InFile, Reading, Applying, Attached, NoStrandedBodies
<1>5. Covered
  BY <1>2, <1>3 DEF Init, Covered, Applying, TypeInv
<1> QED BY <1>3, <1>4, <1>5 DEF IInv

\* A step that leaves the ingester where it is, and at most adds a line to a
\* file or gives one up.
LEMMA Undisturbed ==
    ASSUME IInv, TypeInv',
           UNCHANGED <<rows, bodies, cutoff, saved, lpc, file, offset, applied, lost>>,
           \A d \in Days : d \notin replaced' =>
               /\ d \notin replaced /\ Len(log[d]) <= Len(log'[d])
               /\ \A i \in 1..Len(log[d]) : log'[d][i] = log[d][i],
           lpc \in Reading /\ file \in replaced' => file \in replaced,
           lpc \in Reading =>
               /\ Len(log[file]) <= Len(log'[file])
               /\ \A i \in 1..Len(log[file]) : log'[file][i] = log[file][i]
    PROVE  IInv'
<1>1. TypeInv
  BY DEF IInv
<1>2. ASSUME lpc \in Applying PROVE Entry' = Entry
  <2>1. offset \in 1..Len(log[file])
    BY <1>1, <1>2 DEF IInv, InFile, Reading, TypeInv
  <2> QED BY <1>2, <2>1 DEF Entry, Reading
<1>3. InFile'
  BY <1>1, <1>2 DEF IInv, InFile, TypeInv, Reading
<1>4. Attached'
  BY <1>2 DEF IInv, Attached, NoStrandedBodies, Applying
<1>5. Covered'
  <2>1. \A d \in Days : Len(log[d]) \in Nat /\ Len(log'[d]) \in Nat /\ saved[d] \in Nat
    BY <1>1 DEF TypeInv
  <2>2. \A d \in Days \ replaced' :
            saved[d] <= Len(log'[d]) /\ \A i \in 1..saved[d] : log'[d][i] \in Tried
    BY <2>1 DEF IInv, Covered
  <2>3. ASSUME file \notin replaced', lpc \in Reading PROVE
            file \notin replaced /\ \A i \in 1..offset : log'[file][i] = log[file][i]
    BY <1>1, <2>1, <2>3 DEF IInv, InFile, TypeInv
  <2> QED BY <2>2, <2>3 DEF IInv, Covered, Tried, Reading
<1> QED BY <1>3, <1>4, <1>5 DEF IInv

\* The router and the world.
LEMMA WorldIInv ==
    ASSUME IInv, World \/ HourPasses PROVE IInv'
<1>1. TypeInv
  BY DEF IInv
<1>2. ASSUME NEW v \in Entries \cup {NoEntry}, log' = [log EXCEPT ![today] = Append(@, v)],
             partial' \in {partial, NoEntry},
             UNCHANGED <<rows, bodies, cutoff, saved, lpc, file, offset, applied, lost,
                         today, old, replaced>>
      PROVE  IInv'
  <2>1. log[today] \in Seq(Entries \cup {NoEntry})
    BY <1>1 DEF TypeInv
  <2>2. /\ log'[today] \in Seq(Entries \cup {NoEntry})
        /\ Len(log'[today]) = Len(log[today]) + 1
        /\ \A i \in 1..Len(log[today]) : log'[today][i] = log[today][i]
    BY <1>1, <1>2, <2>1, AppendProperties DEF TypeInv
  <2>3. TypeInv'
    BY <1>1, <1>2, <2>2 DEF TypeInv
  <2>4. \A d \in Days : /\ Len(log[d]) \in Nat /\ Len(log[d]) <= Len(log'[d])
                        /\ \A i \in 1..Len(log[d]) : log'[d][i] = log[d][i]
    BY <1>1, <1>2, <2>2 DEF TypeInv
  <2> QED BY <1>1, <1>2, <2>3, <2>4, Undisturbed DEF TypeInv
<1>3. CASE EndLine \/ SpoilLine
  BY <1>1, <1>2, <1>3 DEF EndLine, SpoilLine, tableVars, threadVars, historyVars, TypeInv
<1>4. ASSUME log' = log, partial' \in Entries \cup {NoEntry}, today' \in Days,
             old' \subseteq Exchanges,
             UNCHANGED <<rows, bodies, cutoff, saved, lpc, file, offset, applied, lost, replaced>>
      PROVE  IInv'
  <2>1. TypeInv'
    BY <1>1, <1>4 DEF TypeInv
  <2>2. \A d \in Days : Len(log[d]) <= Len(log'[d])
    BY <1>1, <1>4 DEF TypeInv
  <2> QED BY <1>1, <1>4, <2>1, <2>2, Undisturbed DEF TypeInv
<1>5. CASE \E e \in Entries : StartLine(e)
  BY <1>1, <1>4, <1>5 DEF StartLine, tableVars, threadVars, historyVars, TypeInv
<1>6. CASE NewDay
  BY <1>1, <1>4, <1>6 DEF NewDay, tableVars, threadVars, historyVars, TypeInv
<1>7. CASE \E d \in Days : RemoveFile(d)
  BY <1>1, <1>4, <1>7 DEF RemoveFile, tableVars, threadVars, historyVars, TypeInv
<1>8. CASE \E x \in Exchanges : Age(x)
  BY <1>1, <1>4, <1>8 DEF Age, tableVars, threadVars, historyVars, TypeInv
<1>9. CASE HourPasses
  BY <1>1, <1>4, <1>9 DEF HourPasses, routerVars, tableVars, historyVars, TypeInv
<1>10. CASE ReplaceFile
  <2>1. /\ lpc = "sleep" /\ log' = [log EXCEPT ![today] = <<>>]
        /\ replaced' = replaced \cup {today}
        /\ UNCHANGED <<rows, bodies, cutoff, saved, lpc, file, offset, applied, lost,
                       partial, today, old>>
    BY <1>10 DEF ReplaceFile, tableVars, threadVars, historyVars
  <2>2. TypeInv'
    BY <1>1, <2>1 DEF TypeInv
  <2>3. lpc \notin Reading
    BY <2>1 DEF Reading, Applying
  <2>4. \A d \in Days : d \notin replaced' => d \notin replaced /\ log'[d] = log[d]
                                              /\ Len(log[d]) <= Len(log'[d])
    BY <1>1, <2>1 DEF TypeInv
  <2> QED BY <2>1, <2>2, <2>3, <2>4, Undisturbed
<1> QED BY <1>3, <1>5, <1>6, <1>7, <1>8, <1>9, <1>10 DEF World

-----------------------------------------------------------------------------
\* A step of the ingester that writes to no table and has no entry in hand.
LEMMA MovesOn ==
    ASSUME IInv, UNCHANGED <<routerVars, rows, bodies, saved, applied>>,
           lost \subseteq lost',
           cutoff' \subseteq Exchanges, file' \in Days, offset' \in Nat,
           lpc' \in {"sweepBodies", "scan", "sleep"}
    PROVE  IInv'
<1>1. TypeInv' /\ InFile'
  BY DEF IInv, TypeInv, InFile, Reading, Applying, routerVars
<1>2. Attached'
  BY DEF IInv, Attached, NoStrandedBodies
<1>3. Covered'
  BY DEF IInv, Covered, Tried, Applying, routerVars
<1> QED BY <1>1, <1>2, <1>3 DEF IInv

LEMMA NextFileMoves ==
    ASSUME IInv, NextFile
    PROVE  file' \in Days /\ offset' \in Nat /\ lpc' \in {"sweepBodies", "scan", "sleep"}
  BY IngestAssumption DEF NextFile

LEMMA SweepIInv ==
    ASSUME IInv, SweepBodies \/ SweepRows \/ SkipSweep PROVE IInv'
<1>1. TypeInv
  BY DEF IInv
<1>2. CASE SweepBodies
  <2>1. /\ cutoff' = old /\ lpc' = "sweepRows"
        /\ bodies' = [x \in Exchanges |->
                         IF x \in old /\ rows[x] # NoRow THEN {} ELSE bodies[x]]
        /\ UNCHANGED <<log, partial, today, replaced, old, saved, rows, file, offset, applied, lost>>
    BY <1>2 DEF SweepBodies, routerVars, historyVars
  <2>2. TypeInv' /\ InFile'
    BY <1>1, <2>1 DEF TypeInv, InFile, Reading, Applying
  <2>3. Attached'
    BY <1>1, <2>1 DEF IInv, Attached, NoStrandedBodies, TypeInv
  <2>4. Covered'
    BY <2>1 DEF IInv, Covered, Tried, Applying
  <2> QED BY <2>2, <2>3, <2>4 DEF IInv
<1>3. CASE SweepRows
  <2>1. /\ lpc = "sweepRows" /\ cutoff' = {} /\ lpc' = "scan"
        /\ rows' = [x \in Exchanges |-> IF x \in cutoff THEN NoRow ELSE rows[x]]
        /\ UNCHANGED <<log, partial, today, replaced, old, saved, bodies, file, offset, applied, lost>>
    BY <1>3 DEF SweepRows, Expired, routerVars, historyVars
  <2>2. TypeInv' /\ InFile'
    BY <1>1, <2>1 DEF TypeInv, InFile, Reading, Applying, NoRow, RowType, Outcomes, Keys
  <2>3. Attached'
    BY <2>1 DEF IInv, Attached, NoStrandedBodies
  <2>4. Covered'
    BY <2>1 DEF IInv, Covered, Tried, Applying
  <2> QED BY <2>2, <2>3, <2>4 DEF IInv
<1>4. CASE SkipSweep
  BY <1>1, <1>4, MovesOn DEF SkipSweep, tableVars, historyVars, TypeInv
<1> QED BY <1>2, <1>3, <1>4

LEMMA ScanIInv ==
    ASSUME IInv, OpenFile \/ ReadLine \/ SaveOffset \/ BatchGoesOn \/ FileEnds \/ Poll
    PROVE  IInv'
<1>1. TypeInv /\ Len(log[file]) \in Nat
  BY DEF IInv, TypeInv
<1>2. ASSUME lpc' = "read", UNCHANGED <<log, partial, today, replaced, old, cutoff, rows, bodies,
                                        file, applied, lost>>,
             saved' \in [Days -> Nat], offset' \in Nat, offset' <= Len(log[file]),
             file \notin replaced => \A i \in 1..offset' : log[file][i] \in Tried,
             \A d \in Days \ replaced : saved'[d] = saved[d] \/ (d = file /\ saved'[d] = offset')
      PROVE  IInv'
  <2>1. TypeInv' /\ InFile' /\ Attached'
    BY <1>1, <1>2 DEF IInv, TypeInv, InFile, Attached, NoStrandedBodies, Applying
  <2>2. Covered'
    BY <1>1, <1>2 DEF IInv, Covered, Tried, Applying
  <2> QED BY <2>1, <2>2 DEF IInv
<1>3. CASE OpenFile
  <2>1. CASE NextFile
    BY <1>1, <1>3, <2>1, NextFileMoves, MovesOn DEF OpenFile, tableVars, historyVars, TypeInv
  <2>2. ASSUME NEW n \in {0, StartOffset(file)}, ReadFrom(n), n = 0 \/ Size(file) # saved[file]
        PROVE  IInv'
    <3>1. UNCHANGED <<log, partial, today, replaced, old, cutoff, rows, bodies, saved, file,
                      applied, lost>> /\ offset' = n /\ lpc' = "read"
      BY <1>3, <2>2 DEF OpenFile, ReadFrom, routerVars, tableVars, historyVars
    <3>2. Size(file) <= Len(log[file]) + 1 /\ Size(file) \in Nat /\ saved[file] \in Nat
      BY <1>1 DEF Size, TypeInv
    <3>3. offset' = 0 \/ (offset' = saved[file] /\ saved[file] < Size(file))
      BY <2>2, <3>1, <3>2 DEF StartOffset
    <3>4. offset' \in Nat /\ offset' <= Len(log[file])
      BY <1>1, <3>2, <3>3
    <3>5. file \notin replaced => \A i \in 1..offset' : log[file][i] \in Tried
      BY <1>1, <3>3 DEF IInv, Covered, TypeInv
    <3> QED BY <1>1, <1>2, <3>1, <3>4, <3>5 DEF TypeInv
  <2>3. NextFile \/ ReadFrom(0) \/ (Size(file) # saved[file] /\ ReadFrom(StartOffset(file)))
    BY <1>3 DEF OpenFile
  <2> QED BY <2>1, <2>2, <2>3
<1>4. CASE ReadLine
  <2>1. /\ lpc = "read" /\ offset < Len(log[file]) /\ offset' = offset + 1
        /\ lpc' = IF log[file][offset + 1] = NoEntry THEN "check" ELSE "insert"
        /\ UNCHANGED <<log, partial, today, replaced, old, cutoff, rows, bodies, saved, file,
                       applied, lost>>
    BY <1>4 DEF ReadLine, routerVars, tableVars, historyVars
  <2>2. TypeInv' /\ Attached'
    BY <1>1, <2>1 DEF IInv, TypeInv, Attached, NoStrandedBodies
  <2>3. log[file][offset + 1] \in Entries \cup {NoEntry}
    BY <1>1, <2>1 DEF TypeInv
  <2>4. InFile'
    BY <1>1, <2>1, <2>3 DEF InFile, Entry, TypeInv, Applying
  <2>5. Covered'
    BY <1>1, <2>1 DEF IInv, Covered, Tried, Applying, TypeInv
  <2> QED BY <2>2, <2>4, <2>5 DEF IInv
<1>5. CASE SaveOffset
  <2>1. CASE NextFile
    BY <1>1, <1>5, <2>1, NextFileMoves, MovesOn DEF SaveOffset, historyVars, TypeInv
  <2>2. CASE saved' = [saved EXCEPT ![file] = offset] /\ lpc' = "read" /\ UNCHANGED <<file, offset>>
    <3>1. UNCHANGED <<log, partial, today, replaced, old, cutoff, rows, bodies, applied, lost>>
          /\ lpc \in {"read", "check"}
      BY <1>5 DEF SaveOffset, routerVars, historyVars
    <3>2. offset <= Len(log[file]) /\ offset \in Nat
          /\ (file \notin replaced => \A i \in 1..offset : log[file][i] \in Tried)
      BY <1>1, <3>1 DEF IInv, InFile, Reading, Covered, TypeInv
    <3>3. saved' \in [Days -> Nat]
          /\ \A d \in Days : saved'[d] = saved[d] \/ (d = file /\ saved'[d] = offset)
      BY <1>1, <2>2 DEF TypeInv
    <3> QED BY <1>2, <2>2, <3>1, <3>2, <3>3
  <2> QED BY <1>5, <2>1, <2>2 DEF SaveOffset, SavedOffset
<1>6. CASE BatchGoesOn
  <2>1. /\ lpc = "check" /\ lpc' = "read"
        /\ UNCHANGED <<log, partial, today, replaced, old, cutoff, rows, bodies, saved, file,
                       offset, applied, lost>>
    BY <1>6 DEF BatchGoesOn, routerVars, tableVars, historyVars
  <2> QED BY <1>1, <1>2, <2>1 DEF IInv, TypeInv, InFile, Reading, Covered
<1>7. CASE FileEnds
  BY <1>1, <1>7, NextFileMoves, MovesOn DEF FileEnds, tableVars, historyVars, TypeInv
<1>8. CASE Poll
  BY <1>1, <1>8, MovesOn DEF Poll, tableVars, historyVars, TypeInv
<1> QED BY <1>3, <1>4, <1>5, <1>6, <1>7, <1>8

\* The statements of an entry.
LEMMA ApplyIInv ==
    ASSUME IInv, InsertRow \/ UpdateRow \/ StoreBody \/ StatementFails PROVE IInv'
<1>1. TypeInv /\ lpc \in Applying /\ Entry \in Entries /\ Entry.x \in Exchanges
  <2>1. lpc \in Applying
    BY DEF InsertRow, UpdateRow, StoreBody, StatementFails, Applying
  <2> QED BY <2>1, IngestAssumption DEF IInv, InFile
<1>2. /\ UNCHANGED <<log, partial, today, replaced, old, saved, file, offset, cutoff>>
      /\ Entry' = Entry
  BY DEF InsertRow, UpdateRow, StoreBody, StatementFails, routerVars, tableVars, Entry
<1>3. InFile'
  <2>1. lpc' \in Reading
    BY DEF InsertRow, UpdateRow, StoreBody, StatementFails, Reading, Applying
  <2> QED BY <1>1, <1>2 DEF IInv, InFile, Reading
<1>4. \/ lpc' \in {"update", "body"} /\ UNCHANGED <<applied, lost>>
      \/ lpc' = "check" /\ Entry \in Tried' /\ Tried \subseteq Tried'
  BY DEF InsertRow, UpdateRow, StoreBody, StatementFails, Applied, Tried, historyVars
<1>5. Covered'
  <2>1. Tried \subseteq Tried'
    BY <1>4 DEF Tried
  <2>2. \A d \in Days \ replaced :
            saved[d] <= Len(log[d]) /\ \A i \in 1..saved[d] : log[d][i] \in Tried'
    BY <2>1 DEF IInv, Covered
  <2>3. file \notin replaced => \A i \in 1..offset : i # offset => log[file][i] \in Tried'
    BY <1>1, <2>1 DEF IInv, Covered
  <2>4. lpc' = "check" => log[file][offset] \in Tried'
    BY <1>4 DEF Entry
  <2> HIDE DEF Tried
  <2> QED BY <1>2, <1>4, <2>2, <2>3, <2>4 DEF Covered, Applying
<1>6. TypeInv' /\ Attached'
  <2>1. CASE InsertRow
    <3>1. /\ rows' = [rows EXCEPT ![Entry.x] = IF @ = NoRow THEN NewRow(Entry.ev) ELSE @]
          /\ bodies' = bodies /\ lpc' = "update"
      BY <2>1 DEF InsertRow
    <3>2. NewRow(Entry.ev) # NoRow /\ NewRow(Entry.ev) \in RowType
      BY <1>1, IngestAssumption DEF NewRow, NoRow, RowType, Outcomes, Keys
    <3>3. TypeInv'
      BY <1>1, <1>2, <3>1, <3>2 DEF TypeInv
    <3>4. rows'[Entry.x] # NoRow /\ \A x \in Exchanges : rows[x] # NoRow => rows'[x] # NoRow
      BY <1>1, <3>1, <3>2 DEF TypeInv
    <3> QED BY <1>2, <3>1, <3>3, <3>4 DEF IInv, Attached, NoStrandedBodies
  <2>2. CASE UpdateRow
    <3>1. /\ rows' = [rows EXCEPT ![Entry.x] = IF @ = NoRow THEN @ ELSE Updated(@, Entry.ev)]
          /\ bodies' = bodies /\ lpc' \in {"body", "check"} /\ lpc = "update"
          /\ lpc' = "body" => Entry.ev \notin Bodyless
      BY <2>2 DEF UpdateRow, Applied
    <3>2. Entry.ev \in Events /\ rows[Entry.x] \in RowType
          /\ rows[Entry.x] # NoRow
      BY <1>1, <3>1, IngestAssumption DEF IInv, Attached, TypeInv
    <3>3. /\ Updated(rows[Entry.x], Entry.ev) \in RowType
          /\ Updated(rows[Entry.x], Entry.ev) # NoRow
      BY <3>2 DEF Updated, NoRow, Events, Terminals, Outcome, RowType, Outcomes, Keys
    <3>4. TypeInv'
      BY <1>1, <1>2, <3>1, <3>3 DEF TypeInv
    <3>5. rows'[Entry.x] # NoRow /\ \A x \in Exchanges : rows[x] # NoRow => rows'[x] # NoRow
      BY <1>1, <3>1, <3>2, <3>3 DEF TypeInv
    <3> QED BY <1>2, <3>1, <3>4, <3>5 DEF IInv, Attached, NoStrandedBodies
  <2>3. CASE StoreBody
    <3>1. /\ bodies' = [bodies EXCEPT ![Entry.x] = @ \cup {Column(Entry.ev)}]
          /\ rows' = rows /\ lpc' = "check" /\ rows[Entry.x] # NoRow
      BY <2>3 DEF StoreBody, IInv, Attached
    <3>2. Column(Entry.ev) \in {"client_req_body", "req_body", "resp_body"}
      BY <1>1, <2>3, IngestAssumption DEF StoreBody, IInv, Attached, Column, Events, Terminals, Outcome, Bodyless
    <3>3. TypeInv'
      BY <1>1, <1>2, <3>1, <3>2 DEF TypeInv
    <3>4. \A x \in Exchanges : bodies'[x] = bodies[x] \/ x = Entry.x
      BY <1>1, <3>1 DEF TypeInv
    <3> QED BY <1>2, <3>1, <3>3, <3>4 DEF IInv, Attached, NoStrandedBodies
  <2>4. CASE StatementFails
    BY <1>1, <1>2, <2>4 DEF StatementFails, tableVars, IInv, TypeInv, Attached, NoStrandedBodies
  <2> QED BY <2>1, <2>2, <2>3, <2>4
<1> QED BY <1>3, <1>5, <1>6 DEF IInv

LEMMA CrashIInv == ASSUME IInv, Crash PROVE IInv'
<1>1. 1 \in Days
  BY IngestAssumption
<1> QED BY <1>1, MovesOn DEF Crash, tableVars

-----------------------------------------------------------------------------
LEMMA NextIInv == ASSUME IInv, [Next]_vars PROVE IInv'
<1>1. CASE UNCHANGED vars
  <2>1. UNCHANGED <<log, partial, today, replaced, old, rows, bodies, cutoff, saved, lpc, file,
                    offset, applied, lost>>
    BY <1>1 DEF vars, routerVars, tableVars, threadVars, historyVars
  <2> QED BY <2>1 DEF IInv, TypeInv, InFile, Attached, NoStrandedBodies, Covered, Tried, Entry
<1> QED BY <1>1, WorldIInv, SweepIInv, ScanIInv, ApplyIInv, CrashIInv DEF Next, Step

\* The inductive invariant of the tables and the ingester's position.
THEOREM IngestInvariant == Spec => []IInv
<1> QED BY InitIInv, NextIInv, PTL DEF Spec

\* No sweep, replay or crash leaves a body whose exchange is gone.
THEOREM BodiesAttached == Spec => []NoStrandedBodies
<1>1. IInv => NoStrandedBodies
  BY DEF IInv, Attached
<1> QED BY IngestInvariant, <1>1, PTL

\* Whatever lies before a saved offset was applied, failed or is no entry.
THEOREM OffsetsTruthful == Spec => []NothingSkipped
<1>1. IInv => NothingSkipped
  BY DEF IInv, TypeInv, Covered, Tried, NothingSkipped
<1> QED BY IngestInvariant, <1>1, PTL

-----------------------------------------------------------------------------
(* Convergence.  A row sums up a set of events: all that were applied, and  *)
(* of those given up half way as many as their first statement reached.     *)

Done(x) == EventsOf(x) \cup IF lpc = "body" /\ Entry.x = x THEN {Entry.ev} ELSE {}

Sums(row, evs) == row.outcome = Summary(evs).outcome /\ row.key = Summary(evs).key

Summed(x) ==
    IF rows[x] = NoRow THEN EventsOf(x) = {}
    ELSE \E evs \in SUBSET Events :
             /\ Done(x) \subseteq evs /\ evs \subseteq Done(x) \cup LostOf(x)
             /\ Sums(rows[x], evs)

Stored(x) ==
    /\ Columns(EventsOf(x)) \subseteq bodies[x]
    /\ bodies[x] \subseteq Columns(EventsOf(x) \cup LostOf(x))

\* The time of a row is that of an entry, at first of the one in hand.
InHandOf(x) == IF lpc \in {"update", "body"} /\ Entry.x = x THEN {Entry.ev} ELSE {}

Timed(x) ==
    rows[x] # NoRow => rows[x].ts \in EventsOf(x) \cup LostOf(x) \cup InHandOf(x)

\* Whatever the ingester meets, the router wrote, and it ends an exchange once.
Written ==
    /\ offered \subseteq Entries
    /\ applied \subseteq offered /\ lost \subseteq offered
    /\ partial \in offered \cup {NoEntry}
    /\ \A d \in Days : \A i \in 1..Len(log[d]) : log[d][i] \in offered \cup {NoEntry}
    /\ cutoff \subseteq old
    /\ \A e, f \in offered : e.x = f.x /\ e.ev \in Terminals /\ f.ev \in Terminals => e = f

SumInv == \A x \in Exchanges \ old : Summed(x) /\ Stored(x)

TimeInv == \A x \in Exchanges : Timed(x)

CInv == IInv /\ Written /\ SumInv /\ TimeInv

\* What the ingester has in hand is an entry the router wrote.
LEMMA InHand ==
    ASSUME IInv, Written, lpc \in Applying
    PROVE  Entry \in offered /\ Entry \in Entries /\ Entry.x \in Exchanges /\ Entry.ev \in Events
<1>1. Entry \in Entries /\ offset \in 1..Len(log[file]) /\ file \in Days
  BY DEF IInv, TypeInv, InFile, Reading
<1>2. Entry \in offered
  BY <1>1, IngestAssumption DEF Written, Entry
<1>3. Entry \in [x : Exchanges, ev : Events]
  BY <1>1, IngestAssumption
<1> QED BY <1>1, <1>2, <1>3

LEMMA InitCInv == Init => CInv
<1> SUFFICES ASSUME Init PROVE CInv
  OBVIOUS
<1>1. IInv
  BY InitIInv
<1>2. Written
  BY DEF Init, Written
<1>3. SumInv /\ TimeInv
  BY DEF Init, SumInv, TimeInv, Timed, Summed, Stored, EventsOf, LostOf, Columns
<1> QED BY <1>1, <1>2, <1>3 DEF CInv

\* The lines of a file after the router appended one.
LEMMA LinesAppended ==
    ASSUME IInv, NEW v, log' = [log EXCEPT ![today] = Append(@, v)],
           NEW S, v \in S, \A d \in Days : \A i \in 1..Len(log[d]) : log[d][i] \in S
    PROVE  \A d \in Days : \A i \in 1..Len(log'[d]) : log'[d][i] \in S
<1>1. log \in [Days -> Seq(Entries \cup {NoEntry})] /\ today \in Days
  BY DEF IInv, TypeInv
<1>2. PICK s \in Seq(Entries \cup {NoEntry}) : s = log[today]
  BY <1>1
<1>3. log'[today] = Append(s, v) /\ \A d \in Days : d # today => log'[d] = log[d]
  BY <1>1, <1>2
<1>4. Len(Append(s, v)) = Len(s) + 1 /\ Len(s) \in Nat
      /\ \A i \in 1..Len(s) + 1 : Append(s, v)[i] = IF i <= Len(s) THEN s[i] ELSE v
  BY <1>2
<1>5. \A i \in 1..Len(log'[today]) : log'[today][i] \in S
  BY <1>1, <1>2, <1>3, <1>4
<1> QED BY <1>3, <1>5

\* The router only adds lines while the ingester has an entry in hand.
LEMMA EntryStays ==
    ASSUME IInv, lpc \in Applying, World \/ HourPasses \/ UNCHANGED vars PROVE Entry' = Entry
<1>1. /\ log \in [Days -> Seq(Entries \cup {NoEntry})] /\ today \in Days /\ file \in Days
      /\ offset \in 1..Len(log[file])
  BY DEF IInv, TypeInv, InFile, Reading, Applying
<1>2. UNCHANGED <<file, offset>>
      /\ (log' = log \/ \E v \in Entries \cup {NoEntry} : log' = [log EXCEPT ![today] = Append(@, v)])
  BY DEF World, HourPasses, StartLine, EndLine, SpoilLine, NewDay, ReplaceFile, RemoveFile, Age,
         vars, routerVars, threadVars, IInv, TypeInv, Applying
<1>3. ASSUME NEW v \in Entries \cup {NoEntry}, log' = [log EXCEPT ![today] = Append(@, v)]
      PROVE  log'[file][offset] = log[file][offset]
  BY <1>1, <1>3, AppendProperties
<1> QED BY <1>2, <1>3 DEF Entry

LEMMA WrittenKept == ASSUME IInv, Written, [Next]_vars PROVE Written'
<1>1. offered \subseteq offered' /\ old \subseteq old'
  <2>1. CASE UNCHANGED routerVars
    BY <2>1 DEF routerVars
  <2>2. CASE World
    BY <2>2 DEF World, StartLine, EndLine, SpoilLine, NewDay, ReplaceFile, RemoveFile, Age
  <2> QED BY <2>1, <2>2 DEF Next, Step, SweepBodies, SweepRows, SkipSweep, OpenFile, ReadLine,
            SaveOffset, BatchGoesOn, FileEnds, Poll, InsertRow, UpdateRow, StoreBody, HourPasses,
            StatementFails, Crash, vars
<1>2. ASSUME \/ lost' \subseteq lost /\ applied' = applied
             \/ lpc \in Applying /\ lost' \subseteq lost \cup {Entry} /\ applied' \subseteq applied \cup {Entry},
             cutoff' \subseteq cutoff \cup old,
             UNCHANGED routerVars
      PROVE  Written'
  <2>1. applied' \subseteq offered /\ lost' \subseteq offered
    BY <1>2, InHand DEF Written
  <2> QED BY <1>2, <2>1 DEF Written, routerVars
<1>3. ASSUME UNCHANGED <<applied, lost, cutoff>>,
             \A d \in Days : \A i \in 1..Len(log'[d]) : log'[d][i] \in offered' \cup {NoEntry},
             partial' \in offered' \cup {NoEntry},
             offered' \subseteq Entries,
             \A e, f \in offered' : e.x = f.x /\ e.ev \in Terminals /\ f.ev \in Terminals => e = f
      PROVE  Written'
  BY <1>1, <1>3 DEF Written
<1>4. CASE UNCHANGED vars
  BY <1>2, <1>4 DEF vars, threadVars, historyVars
<1>5. CASE SweepBodies \/ SweepRows \/ SkipSweep \/ OpenFile \/ ReadLine \/ SaveOffset
           \/ BatchGoesOn \/ FileEnds \/ Poll \/ HourPasses
  BY <1>2, <1>5 DEF SweepBodies, SweepRows, SkipSweep, OpenFile, ReadLine, SaveOffset,
            BatchGoesOn, FileEnds, Poll, HourPasses, historyVars
<1>6. CASE InsertRow \/ UpdateRow \/ StoreBody \/ StatementFails \/ Crash
  BY <1>2, <1>6 DEF InsertRow, UpdateRow, StoreBody, StatementFails, Crash, Applied, Applying,
            historyVars
<1>7. CASE EndLine \/ SpoilLine
  <2>1. PICK v \in offered \cup {NoEntry} : log' = [log EXCEPT ![today] = Append(@, v)]
    BY <1>7 DEF EndLine, SpoilLine, Written
  <2>2. \A d \in Days : \A i \in 1..Len(log'[d]) : log'[d][i] \in offered \cup {NoEntry}
    BY <2>1, LinesAppended DEF Written
  <2>3. UNCHANGED <<applied, lost, cutoff, offered>> /\ partial' \in {partial, NoEntry}
    BY <1>7 DEF EndLine, SpoilLine, threadVars, historyVars
  <2> QED BY <1>3, <2>2, <2>3 DEF Written
<1>8. CASE \E e \in Entries : StartLine(e)
  <2>1. PICK e \in Entries : StartLine(e)
    BY <1>8
  <2>2. /\ offered' = offered \cup {e} /\ partial' = e
        /\ UNCHANGED <<log, applied, lost, cutoff>>
        /\ e.ev \in Terminals => \A f \in offered : f.x = e.x => f.ev \notin Terminals
    BY <2>1 DEF StartLine, threadVars, historyVars
  <2>3. \A d, f \in offered' : d.x = f.x /\ d.ev \in Terminals /\ f.ev \in Terminals => d = f
    BY <2>2 DEF Written
  <2> QED BY <1>3, <2>2, <2>3 DEF Written
<1>9. CASE ReplaceFile
  <2>1. log' = [log EXCEPT ![today] = <<>>]
        /\ UNCHANGED <<partial, offered, applied, lost, cutoff>>
    BY <1>9 DEF ReplaceFile, threadVars, historyVars
  <2>2. \A d \in Days : log'[d] = log[d] \/ Len(log'[d]) = 0
    BY <2>1 DEF IInv, TypeInv
  <2>3. \A d \in Days : \A i \in 1..Len(log'[d]) : log'[d][i] \in offered \cup {NoEntry}
    BY <2>2 DEF Written
  <2> QED BY <1>3, <2>1, <2>3 DEF Written
<1>10. CASE NewDay \/ (\E d \in Days : RemoveFile(d)) \/ (\E x \in Exchanges : Age(x))
  BY <1>3, <1>10 DEF NewDay, RemoveFile, Age, threadVars, historyVars, Written
<1> QED BY <1>4, <1>5, <1>6, <1>7, <1>8, <1>9, <1>10 DEF Next, Step, World

LEMMA ColumnsGrow ==
    /\ \A A, B : A \subseteq B => Columns(A) \subseteq Columns(B)
    /\ \A A, ev : ev \in Bodyless => Columns(A \cup {ev}) = Columns(A)
    /\ \A A, ev : ev \notin Bodyless => Columns(A \cup {ev}) = Columns(A) \cup {Column(ev)}
  BY DEF Columns

\* The histories, one exchange at a time.
LEMMA AppliedEntry ==
    ASSUME NEW x, Applied
    PROVE  /\ EventsOf(x)' = EventsOf(x) \cup IF Entry.x = x THEN {Entry.ev} ELSE {}
           /\ LostOf(x)' \subseteq LostOf(x)
           /\ LostOf(x) \subseteq LostOf(x)' \cup IF Entry.x = x THEN {Entry.ev} ELSE {}
  BY DEF Applied, EventsOf, LostOf

LEMMA LostEntry ==
    ASSUME NEW x, applied' = applied, lost' = lost \cup {Entry}
    PROVE  /\ EventsOf(x)' = EventsOf(x)
           /\ LostOf(x)' = LostOf(x) \cup IF Entry.x = x THEN {Entry.ev} ELSE {}
  BY DEF EventsOf, LostOf

\* An exchange none of whose entries, and no sweep, is concerned.
LEMMA Untouched ==
    ASSUME NEW x \in Exchanges, Summed(x), Stored(x),
           rows'[x] = rows[x], bodies'[x] = bodies[x],
           EventsOf(x)' = EventsOf(x), LostOf(x) \subseteq LostOf(x)',
           Done(x)' \subseteq Done(x), Done(x) \subseteq Done(x)' \cup LostOf(x)'
    PROVE  Summed(x)' /\ Stored(x)'
<1>1. Stored(x)'
  <2>1. Columns(EventsOf(x) \cup LostOf(x)) \subseteq Columns(EventsOf(x)' \cup LostOf(x)')
    BY ColumnsGrow
  <2> QED BY <2>1 DEF Stored, Columns
<1>2. CASE rows[x] = NoRow
  BY <1>1, <1>2 DEF Summed, NoRow
<1>3. CASE rows[x] # NoRow
  <2>1. PICK evs \in SUBSET Events :
            /\ Done(x) \subseteq evs /\ evs \subseteq Done(x) \cup LostOf(x)
            /\ Sums(rows[x], evs)
    BY <1>3 DEF Summed
  <2>2. Done(x)' \subseteq evs /\ evs \subseteq Done(x)' \cup LostOf(x)' /\ Sums(rows'[x], evs)
    BY <2>1
  <2> QED BY <1>1, <1>3, <2>2 DEF Summed
<1> QED BY <1>1, <1>2, <1>3

LEMMA Ends ==
    /\ Terminals = {"model_response", "model_http_error", "model_cancelled",
                    "model_transport_error"}
    /\ \A ev \in Terminals : Outcome[ev] \notin {"absent", "pending"}
    /\ Terminals \subseteq Events /\ Bodyless \subseteq Terminals
    /\ "client_request" \notin Terminals /\ "model_request" \notin Terminals
  BY DEF Terminals, Outcome, Events, Bodyless

LEMMA SummaryFields ==
    ASSUME NEW evs \in SUBSET Events
    PROVE  /\ evs \cap Terminals = {} => Summary(evs).outcome = "pending"
           /\ \A ev \in Terminals : evs \cap Terminals = {ev} => Summary(evs).outcome = Outcome[ev]
           /\ Summary(evs).outcome # "absent"
           /\ Summary(evs).key = IF "client_request" \in evs THEN "client"
                                 ELSE IF "model_request" \in evs THEN "heuristic" ELSE "none"
<1>1. CASE evs \cap Terminals = {}
  BY <1>1 DEF Summary
<1>2. CASE evs \cap Terminals # {}
  <2> DEFINE end == CHOOSE ev \in evs \cap Terminals : TRUE
  <2>1. end \in evs \cap Terminals
    BY <1>2
  <2>2. /\ Summary(evs).outcome = Outcome[end]
        /\ Summary(evs).key = IF "client_request" \in evs THEN "client"
                              ELSE IF "model_request" \in evs THEN "heuristic" ELSE "none"
    BY <1>2 DEF Summary
  <2> HIDE DEF end
  <2>3. Outcome[end] # "absent"
    BY <2>1, Ends
  <2>4. \A ev \in Terminals : evs \cap Terminals = {ev} => end = ev
    BY <2>1
  <2> QED BY <1>2, <2>2, <2>3, <2>4
<1> QED BY <1>1, <1>2

\* Only an end can undo what a row says, and an exchange ends once.
LEMMA UpdatedSums ==
    ASSUME NEW row \in RowType, NEW evs \in SUBSET Events, NEW ev \in Events, Sums(row, evs),
           ev \in Terminals => evs \cap Terminals \subseteq {ev}
    PROVE  Sums(Updated(row, ev), evs \cup {ev})
<1> DEFINE all == evs \cup {ev}
<1>1. /\ all \in SUBSET Events
      /\ row.outcome = Summary(evs).outcome /\ row.key = Summary(evs).key
  BY DEF Sums
<1>2. /\ Summary(all).key = IF "client_request" \in all THEN "client"
                             ELSE IF "model_request" \in all THEN "heuristic" ELSE "none"
      /\ Summary(evs).key = IF "client_request" \in evs THEN "client"
                             ELSE IF "model_request" \in evs THEN "heuristic" ELSE "none"
  BY <1>1, SummaryFields
<1>3. CASE ev \in Terminals
  <2>1. Updated(row, ev).outcome = Outcome[ev] /\ Updated(row, ev).key = row.key
    BY <1>3, Ends DEF Updated, RowType
  <2>2. all \cap Terminals = {ev}
    BY <1>3
  <2>3. Summary(all).outcome = Outcome[ev]
    <3> HIDE DEF all
    <3> QED BY <1>1, <1>3, <2>2, SummaryFields
  <2>4. Summary(all).key = Summary(evs).key
    BY <1>2, <1>3, Ends
  <2> QED BY <1>1, <2>1, <2>3, <2>4 DEF Sums
<1>4. CASE ev \notin Terminals
  <2>1. ev \in {"client_request", "model_request"}
    BY <1>4 DEF Events
  <2>2. /\ Updated(row, ev).outcome = row.outcome
        /\ Updated(row, ev).key = IF ev = "client_request" THEN "client"
                                  ELSE IF row.key = "none" THEN "heuristic" ELSE row.key
    <3>1. CASE ev = "client_request"
      BY <3>1, Ends DEF Updated, RowType
    <3>2. CASE ev = "model_request"
      BY <3>2, Ends DEF Updated, RowType
    <3> QED BY <2>1, <3>1, <3>2
  <2>3. Summary(all).outcome = Summary(evs).outcome
    <3>1. all \cap Terminals = evs \cap Terminals
      BY <1>4
    <3>2. \A A : Summary(A).outcome = IF A \cap Terminals = {} THEN "pending"
                                     ELSE Outcome[CHOOSE e \in A \cap Terminals : TRUE]
      BY DEF Summary
    <3> HIDE DEF all
    <3> QED BY <3>1, <3>2
  <2>4. Summary(all).key = Updated(row, ev).key
    BY <1>1, <1>2, <2>1, <2>2
  <2> QED BY <1>1, <2>2, <2>3, <2>4 DEF Sums
<1> QED BY <1>3, <1>4

LEMMA EndedOnce ==
    ASSUME IInv, Written, lpc \in Applying, Entry.ev \in Terminals
    PROVE  (EventsOf(Entry.x) \cup LostOf(Entry.x)) \cap Terminals \subseteq {Entry.ev}
<1> SUFFICES ASSUME NEW f \in applied \cup lost, f.x = Entry.x, f.ev \in Terminals
             PROVE  f.ev = Entry.ev
  BY DEF EventsOf, LostOf
<1>1. f \in offered /\ Entry \in offered
  BY InHand DEF Written
<1> QED BY <1>1 DEF Written

\* The statements of an entry, seen from its own exchange.
LEMMA OwnInsert ==
    ASSUME CInv, InsertRow, NEW x \in Exchanges, x = Entry.x, Summed(x), Stored(x)
    PROVE  Summed(x)' /\ Stored(x)'
<1>1. rows \in [Exchanges -> RowType] /\ Entry' = Entry
  BY DEF CInv, InsertRow, routerVars, Entry, IInv, TypeInv
<1>2. /\ rows'[x] = IF rows[x] = NoRow THEN NewRow(Entry.ev) ELSE rows[x]
      /\ UNCHANGED <<bodies, applied, lost>> /\ lpc = "insert" /\ lpc' = "update"
  BY <1>1 DEF InsertRow, historyVars
<1>3. /\ EventsOf(x)' = EventsOf(x) /\ LostOf(x)' = LostOf(x)
      /\ Done(x) = EventsOf(x) /\ Done(x)' = EventsOf(x)
  BY <1>2 DEF EventsOf, LostOf, Done
<1>4. CASE rows[x] # NoRow
  BY <1>2, <1>3, <1>4, Untouched
<1>5. CASE rows[x] = NoRow
  <2>1. Stored(x)'
    BY <1>2, <1>3 DEF Stored, Columns
  <2>2. EventsOf(x) = {}
    BY <1>5 DEF Summed
  <2>3. Sums(rows'[x], {}) /\ rows'[x] # NoRow /\ {} \in SUBSET Events
    BY <1>2, <1>5 DEF Sums, Summary, NewRow, NoRow
  <2>4. {} \subseteq Done(x)' \cup LostOf(x)' /\ Done(x)' \subseteq {}
    BY <1>3, <2>2
  <2>5. Summed(x)'
    BY <2>3, <2>4 DEF Summed
  <2> QED BY <2>1, <2>5
<1> QED BY <1>4, <1>5

LEMMA OwnUpdate ==
    ASSUME CInv, UpdateRow, NEW x \in Exchanges, x = Entry.x, Summed(x), Stored(x)
    PROVE  Summed(x)' /\ Stored(x)'
<1> DEFINE ev == Entry.ev
<1>1. /\ rows \in [Exchanges -> RowType] /\ Entry' = Entry
      /\ rows[x] # NoRow /\ lpc = "update" /\ ev \in Events
      /\ ev \in Terminals => (EventsOf(x) \cup LostOf(x)) \cap Terminals \subseteq {ev}
  BY InHand, EndedOnce DEF CInv, UpdateRow, routerVars, Entry, IInv, TypeInv, Attached, Applying
<1>2. rows'[x] = Updated(rows[x], ev) /\ bodies' = bodies
  BY <1>1 DEF UpdateRow
<1>3. \/ ev \in Bodyless /\ lpc' = "check" /\ Applied
      \/ ev \notin Bodyless /\ lpc' = "body" /\ UNCHANGED <<applied, lost>>
  BY DEF UpdateRow, historyVars
<1>4. /\ EventsOf(x)' = IF ev \in Bodyless THEN EventsOf(x) \cup {ev} ELSE EventsOf(x)
      /\ LostOf(x)' \subseteq LostOf(x) /\ LostOf(x) \subseteq LostOf(x)' \cup {ev}
  <2>1. CASE Applied /\ ev \in Bodyless
    BY <2>1, AppliedEntry
  <2>2. CASE UNCHANGED <<applied, lost>> /\ ev \notin Bodyless
    BY <2>2 DEF EventsOf, LostOf
  <2> QED BY <1>3, <2>1, <2>2
<1>5. Done(x) = EventsOf(x) /\ Done(x)' = EventsOf(x) \cup {ev}
  BY <1>1, <1>3, <1>4 DEF Done
<1>6. PICK evs \in SUBSET Events :
          /\ EventsOf(x) \subseteq evs /\ evs \subseteq EventsOf(x) \cup LostOf(x)
          /\ Sums(rows[x], evs)
  BY <1>1, <1>5 DEF Summed
<1>7. Summed(x)'
  <2>1. Sums(rows'[x], evs \cup {ev})
    BY <1>1, <1>2, <1>6, UpdatedSums
  <2>2. evs \cup {ev} \in SUBSET Events
    BY <1>1
  <2>3. rows'[x] # NoRow
    BY <2>1, <2>2, SummaryFields DEF Sums, NoRow
  <2>4. Done(x)' \subseteq evs \cup {ev} /\ evs \cup {ev} \subseteq Done(x)' \cup LostOf(x)'
    BY <1>4, <1>5, <1>6
  <2> QED BY <2>1, <2>2, <2>3, <2>4 DEF Summed
<1>8. Stored(x)'
  <2>1. Columns(EventsOf(x)') = Columns(EventsOf(x))
    BY <1>4, ColumnsGrow
  <2>2. Columns(EventsOf(x) \cup LostOf(x)) \subseteq Columns(EventsOf(x)' \cup LostOf(x)')
    <3>1. CASE ev \in Bodyless
      BY <1>4, <3>1, ColumnsGrow
    <3>2. CASE ev \notin Bodyless
      BY <1>3, <3>2 DEF EventsOf, LostOf
    <3> QED BY <3>1, <3>2
  <2> QED BY <1>2, <2>1, <2>2 DEF Stored, Columns
<1> QED BY <1>7, <1>8

LEMMA OwnStore ==
    ASSUME CInv, StoreBody, NEW x \in Exchanges, x = Entry.x, Summed(x), Stored(x)
    PROVE  Summed(x)' /\ Stored(x)'
<1> DEFINE ev == Entry.ev
<1>1. /\ bodies'[x] = bodies[x] \cup {Column(ev)} /\ rows' = rows
      /\ lpc = "body" /\ lpc' = "check" /\ Applied
      /\ rows[x] # NoRow /\ ev \notin Bodyless
  BY DEF StoreBody, CInv, IInv, TypeInv, Attached
<1>2. /\ EventsOf(x)' = EventsOf(x) \cup {ev}
      /\ LostOf(x) \subseteq LostOf(x)' \cup {ev}
  BY <1>1, AppliedEntry
<1>3. Done(x) = EventsOf(x)' /\ Done(x)' = EventsOf(x)'
  BY <1>1, <1>2 DEF Done
<1>4. Summed(x)'
  <2>1. PICK evs \in SUBSET Events :
            /\ Done(x) \subseteq evs /\ evs \subseteq Done(x) \cup LostOf(x)
            /\ Sums(rows[x], evs)
    BY <1>1 DEF Summed
  <2>2. Done(x)' \subseteq evs /\ evs \subseteq Done(x)' \cup LostOf(x)'
    BY <1>2, <1>3, <2>1
  <2> QED BY <1>1, <2>1, <2>2 DEF Summed
<1>5. Stored(x)'
  <2>1. Columns(EventsOf(x)') = Columns(EventsOf(x)) \cup {Column(ev)}
    BY <1>1, <1>2, ColumnsGrow
  <2>2. Columns(EventsOf(x)') \subseteq Columns(EventsOf(x)' \cup LostOf(x)')
        /\ Columns(EventsOf(x) \cup LostOf(x)) \subseteq Columns(EventsOf(x)' \cup LostOf(x)')
    BY <1>2, ColumnsGrow
  <2>3. Columns(EventsOf(x)') \subseteq bodies'[x] /\ bodies'[x] \subseteq Columns(EventsOf(x)' \cup LostOf(x)')
    BY <1>1, <2>1, <2>2 DEF Stored
  <2> QED BY <2>3 DEF Stored, Columns
<1> QED BY <1>4, <1>5

\* A step that writes no row and stores no body, seen from any exchange.
LEMMA TablesKept ==
    ASSUME NEW x \in Exchanges, Summed(x), Stored(x), UNCHANGED <<rows, bodies, applied>>,
           \/ lost' = lost /\ lpc' = lpc /\ (lpc = "body" => Entry' = Entry)
           \/ lpc' # "body" /\ lost' = lost \cup {Entry}
           \/ lpc' # "body" /\ lpc # "body" /\ lost' = lost
    PROVE  Summed(x)' /\ Stored(x)'
<1>1. EventsOf(x)' = EventsOf(x)
  BY DEF EventsOf
<1>2. CASE lost' = lost /\ (lpc = "body" => Entry' = Entry) /\ (lpc' = "body" <=> lpc = "body")
  <2>1. LostOf(x)' = LostOf(x) /\ Done(x)' = Done(x)
    BY <1>1, <1>2 DEF LostOf, Done
  <2> QED BY <1>1, <2>1, Untouched
<1>3. CASE lpc' # "body" /\ lost' = lost \cup {Entry}
  <2>1. LostOf(x)' = LostOf(x) \cup IF Entry.x = x THEN {Entry.ev} ELSE {}
    BY <1>3, LostEntry
  <2>2. Done(x)' = EventsOf(x) /\ Done(x) \subseteq EventsOf(x) \cup LostOf(x)'
    BY <1>1, <1>3, <2>1 DEF Done
  <2>3. Done(x)' \subseteq Done(x)
    BY <2>2 DEF Done
  <2> QED BY <1>1, <2>1, <2>2, <2>3, Untouched
<1> QED BY <1>2, <1>3

LEMMA SumKept == ASSUME CInv, [Next]_vars PROVE SumInv'
<1> SUFFICES ASSUME NEW x \in Exchanges, x \notin old' PROVE Summed(x)' /\ Stored(x)'
  BY DEF SumInv
<1>1. x \notin old
  <2>1. CASE UNCHANGED routerVars
    BY <2>1 DEF routerVars
  <2>2. CASE World
    BY <2>2 DEF World, StartLine, EndLine, SpoilLine, NewDay, ReplaceFile, RemoveFile, Age
  <2> QED BY <2>1, <2>2 DEF Next, Step, SweepBodies, SweepRows, SkipSweep, OpenFile, ReadLine,
            SaveOffset, BatchGoesOn, FileEnds, Poll, InsertRow, UpdateRow, StoreBody, HourPasses,
            StatementFails, Crash, vars
<1>2. Summed(x) /\ Stored(x) /\ IInv /\ IInv' /\ Written
  <2>1. IInv'
    BY NextIInv DEF CInv
  <2> QED BY <1>1, <2>1 DEF CInv, SumInv
<1>3. CASE World \/ HourPasses \/ UNCHANGED vars
  <2>1. UNCHANGED <<rows, bodies, applied, lost, lpc, file, offset>>
    BY <1>3 DEF World, HourPasses, StartLine, EndLine, SpoilLine, NewDay, ReplaceFile, RemoveFile,
            Age, vars, tableVars, threadVars, historyVars
  <2>2. lpc = "body" => Entry' = Entry
    BY <1>2, <1>3, <2>1, EntryStays DEF Applying
  <2> QED BY <1>2, <2>1, <2>2, TablesKept
<1>4. CASE SweepBodies \/ SweepRows
  <2>1. rows'[x] = rows[x] /\ bodies'[x] = bodies[x]
    BY <1>1, <1>2, <1>4 DEF SweepBodies, SweepRows, Expired, Written
  <2>2. UNCHANGED <<applied, lost>> /\ lpc # "body" /\ lpc' # "body"
    BY <1>4 DEF SweepBodies, SweepRows, historyVars
  <2>3. EventsOf(x)' = EventsOf(x) /\ LostOf(x)' = LostOf(x) /\ Done(x)' = Done(x)
    BY <2>2 DEF EventsOf, LostOf, Done
  <2> QED BY <1>2, <2>1, <2>3, Untouched
<1>5. CASE SkipSweep \/ OpenFile \/ ReadLine \/ SaveOffset \/ BatchGoesOn \/ FileEnds \/ Poll
  <2>1. UNCHANGED <<rows, bodies, applied, lost>> /\ lpc # "body" /\ lpc' # "body"
    <3>1. CASE SkipSweep \/ BatchGoesOn \/ FileEnds \/ Poll
      BY <3>1 DEF SkipSweep, BatchGoesOn, FileEnds, Poll, NextFile, tableVars, historyVars
    <3>2. CASE OpenFile \/ ReadLine \/ SaveOffset
      BY <3>2 DEF OpenFile, ReadFrom, ReadLine, SaveOffset, NextFile, tableVars, historyVars
    <3> QED BY <1>5, <3>1, <3>2
  <2> QED BY <1>2, <2>1, TablesKept
<1>6. CASE StatementFails \/ Crash
  <2>1. /\ UNCHANGED <<rows, bodies, applied>> /\ lpc' # "body"
        /\ \/ lost' = lost \cup {Entry}
           \/ lpc # "body" /\ lost' = lost
    BY <1>6 DEF StatementFails, Crash, tableVars
  <2> QED BY <1>2, <2>1, TablesKept
<1>7. CASE InsertRow \/ UpdateRow \/ StoreBody
  <2>1. CASE x = Entry.x
    BY <1>2, <1>7, <2>1, OwnInsert, OwnUpdate, OwnStore
  <2>2. CASE x # Entry.x
    <3>1. rows'[x] = rows[x] /\ bodies'[x] = bodies[x] /\ Entry' = Entry
      BY <1>2, <1>7, <2>2 DEF InsertRow, UpdateRow, StoreBody, IInv, TypeInv, Entry, routerVars
    <3>2. Applied \/ UNCHANGED <<applied, lost>>
      BY <1>7 DEF InsertRow, UpdateRow, StoreBody, historyVars
    <3>3. EventsOf(x)' = EventsOf(x) /\ LostOf(x) \subseteq LostOf(x)'
      <4>1. CASE Applied
        BY <2>2, <4>1, AppliedEntry
      <4>2. CASE UNCHANGED <<applied, lost>>
        BY <4>2 DEF EventsOf, LostOf
      <4> QED BY <3>2, <4>1, <4>2
    <3>4. Done(x)' = EventsOf(x) /\ Done(x) = EventsOf(x)
      BY <2>2, <3>1, <3>3 DEF Done
    <3> QED BY <1>2, <3>1, <3>3, <3>4, Untouched
  <2> QED BY <2>1, <2>2
<1> QED BY <1>3, <1>4, <1>5, <1>6, <1>7 DEF Next, Step

\* A row keeps the time of the entry that made it, and the histories lose no
\* entry but into each other.
LEMMA TimeKept == ASSUME CInv, [Next]_vars PROVE TimeInv'
<1> SUFFICES ASSUME NEW x \in Exchanges, rows'[x] # NoRow
             PROVE  rows'[x].ts \in (EventsOf(x) \cup LostOf(x) \cup InHandOf(x))'
  BY DEF TimeInv, Timed
<1>1. IInv /\ (rows[x] # NoRow => rows[x].ts \in EventsOf(x) \cup LostOf(x) \cup InHandOf(x))
  BY DEF CInv, TimeInv, Timed
<1>2. ASSUME UNCHANGED <<applied, lost>>, lpc \notin {"update", "body"},
             rows' = rows \/ rows'[x] = NoRow \/ rows'[x] = rows[x]
      PROVE  rows'[x].ts \in (EventsOf(x) \cup LostOf(x) \cup InHandOf(x))'
  <2>1. EventsOf(x)' = EventsOf(x) /\ LostOf(x)' = LostOf(x) /\ InHandOf(x) = {}
    BY <1>2 DEF EventsOf, LostOf, InHandOf
  <2> QED BY <1>1, <1>2, <2>1
<1>3. CASE World \/ HourPasses \/ UNCHANGED vars
  <2>1. UNCHANGED <<rows, applied, lost, lpc, file, offset>>
    BY <1>3 DEF World, HourPasses, StartLine, EndLine, SpoilLine, NewDay, ReplaceFile, RemoveFile,
            Age, vars, tableVars, threadVars, historyVars
  <2>2. lpc \in {"update", "body"} => Entry' = Entry
    BY <1>1, <1>3, <2>1, EntryStays DEF Applying
  <2>3. EventsOf(x)' = EventsOf(x) /\ LostOf(x)' = LostOf(x) /\ InHandOf(x)' = InHandOf(x)
    BY <2>1, <2>2 DEF EventsOf, LostOf, InHandOf
  <2> QED BY <1>1, <2>1, <2>3
<1>4. CASE SweepBodies \/ SweepRows
  <2>1. /\ UNCHANGED <<applied, lost>> /\ lpc \notin {"update", "body"}
        /\ rows' = rows \/ rows'[x] = NoRow \/ rows'[x] = rows[x]
    BY <1>4 DEF SweepBodies, SweepRows, historyVars
  <2> QED BY <1>2, <2>1
<1>5. CASE SkipSweep \/ OpenFile \/ ReadLine \/ SaveOffset \/ BatchGoesOn \/ FileEnds \/ Poll
  <2>1. UNCHANGED <<rows, applied, lost>> /\ lpc \notin {"update", "body"}
    <3>1. CASE SkipSweep \/ BatchGoesOn \/ FileEnds \/ Poll
      BY <3>1 DEF SkipSweep, BatchGoesOn, FileEnds, Poll, tableVars, historyVars
    <3>2. CASE OpenFile \/ ReadLine \/ SaveOffset
      BY <3>2 DEF OpenFile, ReadLine, SaveOffset, tableVars, historyVars
    <3> QED BY <1>5, <3>1, <3>2
  <2> QED BY <1>2, <2>1
<1>6. CASE StatementFails \/ Crash
  <2>1. /\ UNCHANGED <<rows, applied>>
        /\ \/ lost' = lost \cup {Entry}
           \/ lpc \notin {"update", "body"} /\ lost' = lost
    BY <1>6 DEF StatementFails, Crash, tableVars
  <2>2. CASE lost' = lost \cup {Entry}
    <3>1. EventsOf(x)' = EventsOf(x)
          /\ LostOf(x)' = LostOf(x) \cup IF Entry.x = x THEN {Entry.ev} ELSE {}
      BY <2>1, <2>2, LostEntry
    <3> QED BY <1>1, <2>1, <3>1 DEF InHandOf
  <2>3. CASE lpc \notin {"update", "body"} /\ lost' = lost
    BY <1>2, <2>1, <2>3
  <2> QED BY <2>1, <2>2, <2>3
<1>7. CASE InsertRow \/ UpdateRow \/ StoreBody
  <2>1. /\ rows \in [Exchanges -> RowType] /\ Entry' = Entry
        /\ Entry.x \in Exchanges /\ Entry.ev \in Events
    BY <1>1, <1>7, InHand DEF CInv, InsertRow, UpdateRow, StoreBody, routerVars, Entry, IInv, TypeInv,
            Applying
  <2>2. \/ Applied /\ lpc \in {"update", "body"}
        \/ UNCHANGED <<applied, lost>> /\ lpc' \in {"update", "body"}
    BY <1>7 DEF InsertRow, UpdateRow, StoreBody, historyVars
  <2>3. \/ rows[x] # NoRow /\ rows'[x].ts = rows[x].ts
        \/ Entry.x = x /\ lpc' = "update" /\ rows'[x].ts = Entry.ev /\ UNCHANGED <<applied, lost>>
    <3>1. CASE InsertRow
      BY <2>1, <3>1 DEF InsertRow, NewRow, historyVars
    <3>2. CASE UpdateRow
      BY <2>1, <3>2 DEF UpdateRow, Updated, Events, RowType
    <3>3. CASE StoreBody
      BY <3>3 DEF StoreBody
    <3> QED BY <1>7, <3>1, <3>2, <3>3
  <2>4. CASE Applied /\ lpc \in {"update", "body"}
    <3>1. /\ EventsOf(x)' = EventsOf(x) \cup IF Entry.x = x THEN {Entry.ev} ELSE {}
          /\ LostOf(x) \subseteq LostOf(x)' \cup IF Entry.x = x THEN {Entry.ev} ELSE {}
      BY <2>4, AppliedEntry
    <3>2. InHandOf(x) = IF Entry.x = x THEN {Entry.ev} ELSE {}
      BY <2>4 DEF InHandOf
    <3> QED BY <1>1, <2>1, <2>3, <3>1, <3>2 DEF InHandOf
  <2>5. CASE UNCHANGED <<applied, lost>> /\ lpc' \in {"update", "body"}
    <3>1. /\ EventsOf(x)' = EventsOf(x) /\ LostOf(x)' = LostOf(x)
          /\ InHandOf(x) \subseteq InHandOf(x)'
      BY <2>1, <2>5 DEF EventsOf, LostOf, InHandOf
    <3>2. Entry.x = x => Entry.ev \in InHandOf(x)'
      BY <2>1, <2>5 DEF InHandOf
    <3> QED BY <1>1, <2>3, <3>1, <3>2
  <2> QED BY <2>2, <2>4, <2>5
<1> QED BY <1>3, <1>4, <1>5, <1>6, <1>7 DEF Next, Step

-----------------------------------------------------------------------------
\* The inductive invariant of the sums.
THEOREM SumInvariant == Spec => []CInv
<1>1. CInv /\ [Next]_vars => CInv'
  BY NextIInv, WrittenKept, SumKept, TimeKept DEF CInv
<1> QED BY InitCInv, <1>1, PTL DEF Spec

\* Between two polls the tables follow, but for the times of the rows, from
\* the set of entries applied, whatever the order of the lines and however
\* often they were replayed; what was given up half way spoils nothing else.
THEOREM TablesConverge == Spec => []Converges
<1>1. ASSUME CInv, lpc = "sleep", NEW x \in Exchanges \ old
      PROVE  /\ rows[x] = NoRow => EventsOf(x) = {}
             /\ rows[x] # NoRow =>
                    /\ rows[x].ts \in EventsOf(x) \cup LostOf(x)
                    /\ \E some \in SUBSET LostOf(x) : Sums(rows[x], EventsOf(x) \cup some)
             /\ Stored(x)
  <2>1. Summed(x) /\ Stored(x) /\ Timed(x)
    BY <1>1 DEF CInv, SumInv, TimeInv
  <2>2. Done(x) = EventsOf(x) /\ InHandOf(x) = {}
    BY <1>1 DEF Done, InHandOf
  <2>3. ASSUME rows[x] # NoRow
        PROVE  \E some \in SUBSET LostOf(x) : Sums(rows[x], EventsOf(x) \cup some)
    <3>1. PICK evs \in SUBSET Events :
              /\ EventsOf(x) \subseteq evs /\ evs \subseteq EventsOf(x) \cup LostOf(x)
              /\ Sums(rows[x], evs)
      BY <2>1, <2>2, <2>3 DEF Summed
    <3>2. evs \ EventsOf(x) \in SUBSET LostOf(x) /\ EventsOf(x) \cup (evs \ EventsOf(x)) = evs
      BY <3>1
    <3> QED BY <3>1, <3>2
  <2> QED BY <2>1, <2>2, <2>3 DEF Summed, Timed
<1>2. CInv => Converges
  BY <1>1 DEF Converges, Stored, Sums
<1> QED BY SumInvariant, <1>2, PTL
=============================================================================
