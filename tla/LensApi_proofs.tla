---------------------------- MODULE LensApi_proofs ----------------------------
(***************************************************************************)
(* The cursor of the stream of changes leaves nothing behind, for any      *)
(* number of exchanges, any limit of a poll and any load; and the two      *)
(* overviews are the same, whatever is in the table.                       *)
(***************************************************************************)
EXTENDS LensApi, SequenceTheorems, FiniteSetTheorems, WellFoundedInduction, TLAPS

Stamp(x) == table[x].updated_at

Fields == {"status", "since", "cursor", "seen", "batch"}

Types ==
    /\ clock \in Nat
    /\ IsFiniteSet(DOMAIN table)
    /\ DOMAIN table \subseteq Ids
    /\ DOMAIN stream = Fields
    /\ stream.status \in {"off", "on", "gone"}
    /\ stream.cursor \in Nat /\ stream.cursor <= clock
    /\ stream.since \in Nat
    /\ \E S : stream.batch \in Seq(S)

\* Rows are stamped with seconds that have been, and know who they are.
RowsStamped ==
    \A x \in DOMAIN table :
        /\ Stamp(x) \in Nat /\ Stamp(x) <= clock
        /\ table[x].id = x /\ table[x] # Off

Positions == 1..Len(stream.batch)

At_(k) == stream.batch[k].updated_at

\* A batch is in order, and a row of it that is no longer what the table says
\* was stamped anew after the poll.
BatchSorted ==
    \A j, k \in Positions : j <= k => At_(j) <= At_(k)

Overtaken(x) ==
    /\ \A j \in Positions : At_(j) <= Stamp(x)
    /\ stream.cursor <= Stamp(x)

Named(k) == stream.batch[k].id

BatchRows ==
    \A k \in Positions :
        /\ At_(k) \in Nat /\ At_(k) <= clock
        /\ stream.batch[k] # Off
        /\ Named(k) \in DOMAIN table
        /\ table[Named(k)] = stream.batch[k] \/ Overtaken(Named(k))

\* What the task remembers to have sent it has sent.
SeenSent ==
    \A x \in DOMAIN stream.seen : x \in DOMAIN sent /\ sent[x] = stream.seen[x]

\* A row the client does not have yet is in the batch, or later than all of
\* it; in any case the next poll asks for it.
NothingBehind ==
    stream.status = "on" =>
        \A x \in DOMAIN table :
            (stream.since <= Stamp(x) /\ ~Current(x)) =>
                /\ stream.cursor - 1 <= Stamp(x)
                /\ \/ \E k \in Positions : stream.batch[k] = table[x]
                   \/ \A k \in Positions : At_(k) <= Stamp(x)

IInv == Types /\ RowsStamped /\ BatchSorted /\ BatchRows /\ SeenSent /\ NothingBehind

-----------------------------------------------------------------------------

LEMMA InitIInv == Init => IInv
<1> SUFFICES ASSUME Init PROVE IInv
  OBVIOUS
<1>1. DOMAIN table = {} /\ DOMAIN sent = {}
  BY DEF Init, Empty
<1>2. stream = Off /\ stream.batch = <<>> /\ DOMAIN stream.seen = {} /\ clock = 1
  BY DEF Init, Off, Empty
<1>3. Types
  BY <1>1, <1>2, FS_EmptySet DEF Types, Off, Fields
<1>4. Positions = {}
  BY <1>2 DEF Positions
<1> QED
  BY <1>1, <1>2, <1>3, <1>4
     DEF IInv, RowsStamped, BatchSorted, BatchRows, SeenSent, NothingBehind

\* A row that is written is stamped with a second no earlier than any that a
\* poll has met.
LEMMA WriteIInv ==
    ASSUME IInv, NEW x \in Ids, NEW ts, NEW final, Write(x, ts, final)
    PROVE  IInv'
<1> DEFINE new == Row(x, ts, final)
<1>1. new.id = x /\ new.updated_at = clock /\ new # Off
  <2>1. "id" \in DOMAIN new /\ "updated_at" \in DOMAIN new
    BY DEF Row
  <2>2. new.id = x /\ new.updated_at = clock
    BY DEF Row
  <2>3. DOMAIN Off = Fields /\ "id" \notin Fields
    BY DEF Off, Fields
  <2> QED BY <2>1, <2>2, <2>3
<1>2. /\ table' = [k \in DOMAIN table \cup {x} |-> IF k = x THEN new ELSE table[k]]
      /\ UNCHANGED <<clock, stream, sent>>
  BY DEF Write, Put
<1> HIDE DEF new
<1>3. /\ DOMAIN table' = DOMAIN table \cup {x}
      /\ table'[x] = new
      /\ \A y \in DOMAIN table : y # x => table'[y] = table[y]
  BY <1>2
<1>4. Types'
  BY <1>2, <1>3, FS_AddElement DEF IInv, Types
<1>5. RowsStamped'
  <2> SUFFICES ASSUME NEW y \in DOMAIN table'
               PROVE  /\ table'[y].updated_at \in Nat /\ table'[y].updated_at <= clock
                      /\ table'[y].id = y /\ table'[y] # Off
    BY <1>2 DEF RowsStamped, Stamp, Off
  <2>1. CASE y = x
    BY <1>1, <1>3, <2>1 DEF IInv, Types
  <2>2. CASE y # x
    BY <1>3, <2>2 DEF IInv, RowsStamped, Stamp
  <2> QED BY <2>1, <2>2
<1>6. Positions' = Positions /\ \A k : At_(k)' = At_(k)
  BY <1>2 DEF Positions, At_
<1>7. Stamp(x)' = clock /\ \A y \in DOMAIN table : y # x => Stamp(y)' = Stamp(y)
  BY <1>1, <1>3 DEF Stamp
<1>8. BatchSorted' /\ SeenSent'
  BY <1>2, <1>6 DEF IInv, BatchSorted, SeenSent
<1>9. BatchRows'
  <2>1. \A k : Named(k)' = Named(k)
    BY <1>2 DEF Named
  <2>2. Overtaken(x)'
    BY <1>2, <1>6, <1>7 DEF IInv, Overtaken, BatchRows, Types
  <2>3. ASSUME NEW y \in DOMAIN table, y # x, Overtaken(y) PROVE Overtaken(y)'
    BY <1>2, <1>6, <1>7, <2>3 DEF Overtaken
  <2> SUFFICES ASSUME NEW k \in Positions
               PROVE  /\ At_(k) \in Nat /\ At_(k) <= clock
                      /\ stream.batch[k] # Off
                      /\ Named(k) \in DOMAIN table'
                      /\ table'[Named(k)] = stream.batch[k] \/ Overtaken(Named(k))'
    BY <1>2, <1>6, <2>1 DEF BatchRows, Off
  <2>4. CASE Named(k) = x
    BY <1>3, <2>2, <2>4, <2>1 DEF IInv, BatchRows
  <2>5. CASE Named(k) # x
    BY <1>3, <2>3, <2>5, <2>1 DEF IInv, BatchRows
  <2> QED BY <2>4, <2>5
<1>10. NothingBehind'
  <2>1. \A k \in Positions : At_(k) <= clock
    BY DEF IInv, BatchRows
  <2>2. stream.cursor - 1 <= clock
    BY DEF IInv, Types
  <2>3. \A y \in DOMAIN table : y # x => (Current(y)' <=> Current(y))
    BY <1>2, <1>3 DEF Current, At
  <2> SUFFICES ASSUME stream.status = "on", NEW y \in DOMAIN table',
                      stream.since <= Stamp(y)', ~Current(y)'
               PROVE  /\ stream.cursor - 1 <= Stamp(y)'
                      /\ \/ \E k \in Positions : stream.batch[k] = table'[y]
                         \/ \A k \in Positions : At_(k) <= Stamp(y)'
    BY <1>2, <1>6 DEF NothingBehind
  <2>4. CASE y = x
    BY <1>7, <2>1, <2>2, <2>4
  <2>5. CASE y # x
    BY <1>3, <1>7, <2>3, <2>5 DEF IInv, NothingBehind
  <2> QED BY <2>4, <2>5
<1> QED BY <1>4, <1>5, <1>8, <1>9, <1>10 DEF IInv

-----------------------------------------------------------------------------

LEMMA LeastOfTwo ==
    ASSUME NEW a \in Nat, NEW b \in Nat
    PROVE  Min({a, b}) = IF a <= b THEN a ELSE b
<1>1. \E m \in {a, b} : \A y \in {a, b} : m <= y
  OBVIOUS
<1> QED BY <1>1 DEF Min

\* What LIMIT leaves of a query.
LEMMA LimitOf ==
    ASSUME NEW S, NEW rows \in Seq(S)
    PROVE  /\ Slice(rows, 0, Limit) \in Seq(S)
           /\ Len(Slice(rows, 0, Limit)) <= Len(rows)
           /\ \A k \in 1..Len(Slice(rows, 0, Limit)) : Slice(rows, 0, Limit)[k] = rows[k]
<1>1. Limit \in Nat
  BY ApiAssumption
<1>2. Slice(rows, 0, Limit) = SubSeq(rows, 1, Min({Len(rows), Limit}))
  <2>1. 0 + Limit = Limit /\ 0 + 1 = 1
    BY <1>1
  <2> QED BY <2>1, Zenon DEF Slice
<1>3. Min({Len(rows), Limit}) \in Nat /\ Min({Len(rows), Limit}) <= Len(rows)
  BY <1>1, LeastOfTwo
<1> DEFINE m == Min({Len(rows), Limit})
<1>4. m \in Nat /\ m <= Len(rows) /\ Slice(rows, 0, Limit) = SubSeq(rows, 1, m)
  BY <1>2, <1>3
<1> HIDE DEF m
<1>5. /\ SubSeq(rows, 1, m) \in Seq(S)
      /\ Len(SubSeq(rows, 1, m)) = m
      /\ \A k \in 1..m : SubSeq(rows, 1, m)[k] = rows[k]
  BY <1>4
<1> QED BY <1>4, <1>5

\* A poll reads every row the client lacks, or only rows before it.
LEMMA PollIInv == IInv /\ Poll => IInv'
<1> SUFFICES ASSUME IInv, Poll PROVE IInv'
  OBVIOUS
<1> DEFINE n == Cardinality(Found)
           S == {table[x] : x \in DOMAIN table}
<1>1. n \in Nat /\ Found \subseteq DOMAIN table
  <2>1. Found \subseteq DOMAIN table
    BY DEF Found
  <2> QED BY <2>1, FS_Subset, FS_CardinalityType DEF IInv, Types
<1>2. PICK order \in Orders :
          stream' = [stream EXCEPT
              !.batch = Slice([k \in DOMAIN order |-> table[order[k]]], 0, Limit)]
  BY DEF Poll
<1> DEFINE rows == [k \in 1..n |-> table[order[k]]]
<1>3. /\ DOMAIN order = 1..n
      /\ \A k \in 1..n : order[k] \in Found
      /\ \A x \in Found : \E k \in 1..n : order[k] = x
      /\ \A j, k \in 1..n : j < k => Stamp(order[j]) <= Stamp(order[k])
  BY <1>2 DEF Orders, Stamp
<1>4. rows \in Seq(S) /\ Len(rows) = n /\ \A k \in 1..n : rows[k] = table[order[k]]
  BY <1>1, <1>3
<1>5. /\ stream'.batch \in Seq(S)
      /\ Len(stream'.batch) <= n
      /\ \A k \in 1..Len(stream'.batch) : stream'.batch[k] = table[order[k]]
  <2>1. stream'.batch = Slice(rows, 0, Limit)
    BY <1>2, <1>3 DEF IInv, Types, Fields
  <2> HIDE DEF rows, n, S
  <2>2. \A k \in 1..Len(stream'.batch) : k \in 1..n
    BY <1>1, <1>4, <2>1, LimitOf
  <2> QED BY <1>4, <2>1, <2>2, LimitOf
<1>6. /\ DOMAIN stream' = Fields
      /\ stream'.status = stream.status /\ stream'.since = stream.since
      /\ stream'.cursor = stream.cursor /\ stream'.seen = stream.seen
      /\ UNCHANGED <<clock, table, sent>>
  BY <1>2 DEF IInv, Types, Fields, Poll
<1> HIDE DEF n, S, rows
<1>7. Types'
  <2>1. \E T : stream'.batch \in Seq(T)
    BY <1>5
  <2> QED BY <1>6, <2>1 DEF IInv, Types
<1>8. \A k \in Positions' :
          /\ k \in 1..n
          /\ order[k] \in DOMAIN table
          /\ stream'.batch[k] = table[order[k]]
          /\ At_(k)' = Stamp(order[k])
  <2>1. Positions' = 1..Len(stream'.batch) /\ Len(stream'.batch) \in Nat
    BY <1>5 DEF Positions
  <2>2. Positions' \subseteq 1..n
    BY <1>1, <1>5, <2>1
  <2> QED BY <1>1, <1>3, <1>5, <2>1, <2>2 DEF At_, Stamp
<1>9. \A x : Stamp(x)' = Stamp(x) /\ (Current(x)' <=> Current(x))
  BY <1>6 DEF Stamp, Current, At
<1>10. RowsStamped' /\ SeenSent'
  BY <1>6, <1>9 DEF IInv, RowsStamped, SeenSent, Off
<1>11. \A j, k \in 1..n : j <= k => Stamp(order[j]) <= Stamp(order[k])
  <2> SUFFICES ASSUME NEW j \in 1..n, NEW k \in 1..n, j <= k
               PROVE  Stamp(order[j]) <= Stamp(order[k])
    OBVIOUS
  <2>1. Stamp(order[j]) \in Nat /\ Stamp(order[k]) \in Nat
    BY <1>1, <1>3 DEF IInv, RowsStamped
  <2>2. j = k \/ j < k
    BY <1>1
  <2> QED BY <1>3, <2>1, <2>2
<1>12. BatchSorted'
  BY <1>8, <1>11 DEF BatchSorted
<1>13. BatchRows'
  <2> SUFFICES ASSUME NEW k \in Positions'
               PROVE  /\ At_(k)' \in Nat /\ At_(k)' <= clock'
                      /\ stream'.batch[k] # Off
                      /\ Named(k)' \in DOMAIN table'
                      /\ table'[Named(k)'] = stream'.batch[k]
    BY DEF BatchRows, Off
  <2>1. Named(k)' = order[k]
    BY <1>8 DEF IInv, RowsStamped, Named
  <2> QED BY <1>6, <1>8, <2>1 DEF IInv, RowsStamped
<1>14. NothingBehind'
  <2> SUFFICES ASSUME stream.status = "on", NEW x \in DOMAIN table,
                      stream.since <= Stamp(x), ~Current(x)
               PROVE  /\ stream.cursor - 1 <= Stamp(x)
                      /\ \/ \E k \in Positions' : stream'.batch[k] = table[x]
                         \/ \A k \in Positions' : At_(k)' <= Stamp(x)
    BY <1>6, <1>9 DEF NothingBehind
  <2>1. stream.cursor - 1 <= Stamp(x)
    BY DEF IInv, NothingBehind
  <2>2. x \in Found
    BY <2>1 DEF Found, Since, Stamp, IInv, Types, RowsStamped
  <2>3. PICK k \in 1..n : order[k] = x
    BY <1>3, <2>2
  <2>4. CASE k \in Positions'
    BY <1>8, <2>1, <2>3, <2>4
  <2>5. CASE k \notin Positions'
    <3>1. \A j \in Positions' : j \in 1..n /\ j <= k
      <4>1. Positions' = 1..Len(stream'.batch) /\ Len(stream'.batch) \in Nat
        BY <1>5 DEF Positions
      <4> QED BY <1>1, <1>8, <2>3, <2>5, <4>1
    <3>2. \A j \in Positions' : At_(j)' <= Stamp(x)
      BY <1>8, <1>11, <2>3, <3>1
    <3> QED BY <2>1, <3>2
  <2> QED BY <2>4, <2>5
<1> QED BY <1>7, <1>10, <1>12, <1>13, <1>14 DEF IInv

\* What the task remembers may be all forgotten, what it has sent may not.
LEMMA DeliverIInv == IInv /\ Deliver => IInv'
<1> SUFFICES ASSUME IInv, Deliver PROVE IInv'
  OBVIOUS
<1> DEFINE row   == Head(stream.batch)
           known == At(stream.seen, row.id, Off) = row
           more  == Put(stream.seen, row.id, row)
<1>1. PICK S : stream.batch \in Seq(S)
  BY DEF IInv, Types
<1>2. stream.batch # <<>> /\ stream.status = "on"
  BY DEF Deliver
<1>3. /\ Len(stream.batch) \in Nat /\ Len(stream.batch) >= 1
      /\ row = stream.batch[1] /\ 1 \in Positions
      /\ Tail(stream.batch) \in Seq(S)
      /\ Len(Tail(stream.batch)) = Len(stream.batch) - 1
      /\ \A k \in 1..(Len(stream.batch) - 1) : Tail(stream.batch)[k] = stream.batch[k + 1]
  BY <1>1, <1>2 DEF Positions
<1>4. row.updated_at = At_(1) /\ row.id = Named(1)
  BY <1>3 DEF At_, Named
<1>5. /\ DOMAIN stream' = Fields
      /\ stream'.status = "on" /\ stream'.since = stream.since
      /\ stream'.batch = Tail(stream.batch)
      /\ stream'.cursor = IF At_(1) > stream.cursor THEN At_(1) ELSE stream.cursor
      /\ stream'.seen = IF known THEN stream.seen
                        ELSE IF Cardinality(DOMAIN more) > MaxSeen THEN Empty ELSE more
      /\ sent' = IF known THEN sent ELSE Put(sent, row.id, row)
      /\ UNCHANGED <<clock, table>>
  <2> HIDE DEF known, more
  <2> QED BY <1>2, <1>4 DEF Deliver, IInv, Types, Fields, known, more
<1> HIDE DEF row
<1>6. At_(1) \in Nat /\ At_(1) <= clock /\ row # Off
  BY <1>3 DEF IInv, BatchRows
<1>7. Positions' = 1..(Len(stream.batch) - 1)
  BY <1>3, <1>5 DEF Positions
<1>8. \A k \in Positions' :
          /\ k + 1 \in Positions
          /\ stream'.batch[k] = stream.batch[k + 1]
          /\ At_(k)' = At_(k + 1) /\ Named(k)' = Named(k + 1)
  BY <1>3, <1>5, <1>7 DEF Positions, At_, Named
<1>9. /\ stream'.cursor \in Nat /\ stream'.cursor <= clock
      /\ \A n \in Nat : stream.cursor <= n /\ At_(1) <= n => stream'.cursor <= n
      /\ \A n \in Nat : stream.cursor - 1 <= n /\ At_(1) <= n => stream'.cursor - 1 <= n
  BY <1>5, <1>6 DEF IInv, Types
<1>10. Types'
  <2>1. \E T : stream'.batch \in Seq(T)
    BY <1>3, <1>5
  <2> QED BY <1>5, <1>9, <2>1 DEF IInv, Types
<1>11. \A x : Stamp(x)' = Stamp(x)
  BY <1>5 DEF Stamp
<1>12. RowsStamped'
  BY <1>5, <1>11 DEF IInv, RowsStamped, Off
<1>13. BatchSorted'
  <2> SUFFICES ASSUME NEW j \in Positions', NEW k \in Positions', j <= k
               PROVE  At_(j)' <= At_(k)'
    BY DEF BatchSorted
  <2>1. j + 1 \in Positions /\ k + 1 \in Positions /\ j + 1 <= k + 1
    BY <1>3, <1>7, <1>8
  <2> QED BY <1>8, <2>1 DEF IInv, BatchSorted
<1>14. ASSUME NEW x \in DOMAIN table, Overtaken(x) PROVE Overtaken(x)'
  <2>1. Stamp(x) \in Nat
    BY DEF IInv, RowsStamped
  <2>2. At_(1) <= Stamp(x) /\ stream.cursor <= Stamp(x)
    BY <1>3, <1>14 DEF Overtaken
  <2> QED BY <1>8, <1>9, <1>11, <1>14, <2>1, <2>2 DEF Overtaken
<1>15. BatchRows'
  <2> SUFFICES ASSUME NEW k \in Positions'
               PROVE  /\ At_(k)' \in Nat /\ At_(k)' <= clock
                      /\ stream'.batch[k] # Off
                      /\ Named(k)' \in DOMAIN table
                      /\ table[Named(k)'] = stream'.batch[k] \/ Overtaken(Named(k))'
    BY <1>5 DEF BatchRows, Off
  <2>1. /\ At_(k + 1) \in Nat /\ At_(k + 1) <= clock
        /\ stream.batch[k + 1] # Off
        /\ Named(k + 1) \in DOMAIN table
        /\ table[Named(k + 1)] = stream.batch[k + 1] \/ Overtaken(Named(k + 1))
    BY <1>8 DEF IInv, BatchRows
  <2>2. Overtaken(Named(k + 1)) => Overtaken(Named(k))'
    <3> SUFFICES ASSUME Overtaken(Named(k + 1)) PROVE Overtaken(Named(k))'
      OBVIOUS
    <3>1. ASSUME NEW x, x = Named(k)', Overtaken(x)' PROVE Overtaken(Named(k))'
      BY <3>1 DEF Overtaken, Stamp
    <3> QED BY <1>8, <1>14, <2>1, <3>1
  <2> QED BY <1>8, <2>1, <2>2
<1>16. Put(sent, row.id, row) = [k \in DOMAIN sent \cup {row.id} |->
                                    IF k = row.id THEN row ELSE sent[k]]
       /\ more = [k \in DOMAIN stream.seen \cup {row.id} |->
                     IF k = row.id THEN row ELSE stream.seen[k]]
  BY DEF Put
<1>17. SeenSent'
  <2>1. CASE known
    BY <1>5, <2>1 DEF IInv, SeenSent
  <2>2. CASE ~known /\ stream'.seen = Empty
    BY <2>2 DEF SeenSent, Empty
  <2>3. CASE ~known /\ stream'.seen = more
    <3> HIDE DEF known, more
    <3> QED BY <1>5, <1>16, <2>3 DEF IInv, SeenSent
  <2> QED BY <1>5, <2>1, <2>2, <2>3
<1>18. ASSUME NEW x, x = row.id PROVE Current(x)' <=> row = table[x]
  <2>1. CASE known
    <3>1. x \in DOMAIN stream.seen /\ stream.seen[x] = row
      BY <1>6, <1>18, <2>1 DEF At
    <3>2. x \in DOMAIN sent /\ sent[x] = row
      BY <3>1 DEF IInv, SeenSent
    <3>3. sent' = sent /\ table' = table
      BY <1>5, <2>1
    <3> QED BY <3>2, <3>3 DEF Current, At
  <2>2. CASE ~known
    <3>1. x \in DOMAIN sent' /\ sent'[x] = row /\ table' = table
      <4> HIDE DEF known
      <4> QED BY <1>5, <1>16, <1>18, <2>2
    <3> QED BY <3>1 DEF Current, At
  <2> QED BY <2>1, <2>2
<1>19. \A x \in DOMAIN table : x # row.id => (Current(x)' <=> Current(x))
  <2> HIDE DEF known
  <2> QED BY <1>5, <1>16 DEF Current, At
<1>20. NothingBehind'
  <2> SUFFICES ASSUME NEW x \in DOMAIN table, stream.since <= Stamp(x), ~Current(x)'
               PROVE  /\ stream'.cursor - 1 <= Stamp(x)
                      /\ \/ \E k \in Positions' : stream'.batch[k] = table[x]
                         \/ \A k \in Positions' : At_(k)' <= Stamp(x)
    BY <1>5, <1>11 DEF NothingBehind
  <2>1. Stamp(x) \in Nat /\ table[x].id = x
    BY DEF IInv, RowsStamped
  <2>2. CASE x = row.id
    <3>1. Overtaken(x)
      <4>1. row # table[x]
        BY <1>18, <2>2
      <4>2. stream.batch[1] # table[Named(1)] /\ x = Named(1)
        BY <1>3, <1>4, <2>2, <4>1
      <4> QED BY <1>3, <4>2 DEF IInv, BatchRows
    <3>2. Overtaken(x)'
      BY <1>14, <3>1
    <3> QED BY <1>9, <1>11, <2>1, <3>2 DEF Overtaken
  <2>3. CASE x # row.id
    <3>1. ~Current(x)
      BY <1>19, <2>3
    <3>2. /\ stream.cursor - 1 <= Stamp(x)
          /\ \/ \E k \in Positions : stream.batch[k] = table[x]
             \/ \A k \in Positions : At_(k) <= Stamp(x)
      BY <1>2, <3>1 DEF IInv, NothingBehind
    <3>3. CASE \E k \in Positions : stream.batch[k] = table[x]
      <4>1. PICK k \in Positions : stream.batch[k] = table[x]
        BY <3>3
      <4>2. k # 1
        BY <1>3, <2>1, <2>3, <4>1
      <4>3. k - 1 \in Positions' /\ k - 1 + 1 = k
        BY <1>3, <1>7, <4>2 DEF Positions
      <4>4. At_(k) = Stamp(x) /\ At_(1) <= At_(k)
        BY <1>3, <4>1 DEF IInv, BatchSorted, At_, Stamp, Positions
      <4>5. stream'.batch[k - 1] = table[x]
        BY <1>8, <4>1, <4>3
      <4> QED BY <1>9, <2>1, <3>2, <4>3, <4>4, <4>5
    <3>4. CASE \A k \in Positions : At_(k) <= Stamp(x)
      BY <1>3, <1>8, <1>9, <2>1, <3>2, <3>4
    <3> QED BY <3>2, <3>3, <3>4
  <2> QED BY <2>2, <2>3
<1> QED BY <1>10, <1>12, <1>13, <1>15, <1>17, <1>20 DEF IInv

\* Time passes, and clients come and go.
LEMMA OtherIInv ==
    ASSUME IInv, Tick \/ Connect \/ Disconnect \/ UNCHANGED vars
    PROVE  IInv'
<1>1. CASE Tick
  BY <1>1 DEF Tick, IInv, Types, RowsStamped, BatchSorted, BatchRows, SeenSent, NothingBehind,
              Stamp, Positions, At_, Named, Overtaken, Current, At, Off
<1>2. CASE Connect \/ Disconnect
  <2>1. /\ DOMAIN stream' = Fields /\ stream'.status \in {"on", "gone"}
        /\ stream'.batch = <<>> /\ DOMAIN stream'.seen = {}
        /\ UNCHANGED <<clock, table, sent>>
    BY <1>2 DEF Connect, Disconnect, Off, Fields, Empty
  <2>2. /\ stream'.cursor \in Nat /\ stream'.cursor <= clock /\ stream'.since \in Nat
        /\ stream'.status = "on" => stream'.cursor <= stream'.since
    <3>1. CASE Connect
      BY <3>1 DEF Connect, Off, IInv, Types
    <3>2. CASE Disconnect
      BY <3>2 DEF Disconnect, Off, IInv, Types
    <3> QED BY <1>2, <3>1, <3>2
  <2>3. Positions' = {}
    BY <2>1 DEF Positions
  <2>4. \E T : stream'.batch \in Seq(T)
    BY <2>1
  <2>5. Types'
    BY <2>1, <2>2, <2>4 DEF IInv, Types
  <2>6. RowsStamped'
    BY <2>1 DEF IInv, RowsStamped, Stamp, Off
  <2>7. BatchSorted' /\ BatchRows' /\ SeenSent'
    BY <2>1, <2>3 DEF BatchSorted, BatchRows, SeenSent
  <2>8. NothingBehind'
    BY <2>1, <2>2, <2>3 DEF IInv, RowsStamped, NothingBehind, Stamp
  <2> QED BY <2>5, <2>6, <2>7, <2>8 DEF IInv
<1>3. CASE UNCHANGED vars
  BY <1>3 DEF vars, IInv, Types, RowsStamped, BatchSorted, BatchRows, SeenSent, NothingBehind,
              Stamp, Positions, At_, Named, Overtaken, Current, At, Off
<1> QED BY <1>1, <1>2, <1>3

LEMMA NextIInv == IInv /\ [Next]_vars => IInv'
<1> SUFFICES ASSUME IInv, [Next]_vars PROVE IInv'
  OBVIOUS
<1>1. CASE Insert
  BY <1>1, WriteIInv DEF Insert
<1>2. CASE Settle
  <2>1. DOMAIN table \subseteq Ids
    BY DEF IInv, Types
  <2> QED BY <1>2, <2>1, WriteIInv DEF Settle
<1>3. CASE Poll \/ Deliver
  BY <1>3, PollIInv, DeliverIInv
<1>4. CASE Tick \/ Connect \/ Disconnect \/ UNCHANGED vars
  BY <1>4, OtherIInv
<1> QED BY <1>1, <1>2, <1>3, <1>4 DEF Next

\* The inductive invariant of the stream.
THEOREM StreamInvariant == Spec => []IInv
  BY InitIInv, NextIInv, PTL DEF Spec

\* However many rows are stamped in a second, while a poll is under way or
\* beyond its limit, the cursor passes none that the client does not have.
THEOREM CursorLeavesNothing == Spec => []CursorCovers
<1>1. IInv => CursorCovers
  BY DEF IInv, Types, RowsStamped, NothingBehind, CursorCovers, Since, Stamp
<1> QED BY StreamInvariant, <1>1, PTL

-----------------------------------------------------------------------------
(* Sums.  SumFunction takes the elements of its set in an order of its own  *)
(* and is a recursive function over subsets: that it exists, and that the   *)
(* order makes no difference, is shown by induction over finite sets.       *)

LEMMA LeastNatural ==
    ASSUME NEW T, T \subseteq Nat, T # {}
    PROVE  \E x \in T : \A y \in T : x <= y
<1>1. IsWellFoundedOn(OpToRel(<, Nat), Nat)
  BY NatLessThanWellFounded
<1>2. PICK x \in T : \A y \in T : ~(<<y, x>> \in OpToRel(<, Nat))
  BY <1>1, WFMin
<1>3. \A y \in T : ~(y < x)
  BY <1>2 DEF OpToRel
<1> QED BY <1>3

LEMMA SetInduction ==
    ASSUME NEW T, 0 \in T, \A k \in Nat : k \in T => k + 1 \in T
    PROVE  Nat \subseteq T
<1> SUFFICES ASSUME Nat \ T # {} PROVE FALSE
  OBVIOUS
<1>1. PICK x \in Nat \ T : \A y \in Nat \ T : x <= y
  BY LeastNatural
<1>2. x # 0 /\ x - 1 \in Nat /\ ~(x <= x - 1)
  BY <1>1
<1>3. x - 1 \in T
  BY <1>1, <1>2
<1> QED BY <1>1, <1>2, <1>3

\* A family of subsets that holds the empty one, and with each one those that
\* have one element more.
LEMMA FiniteInduction ==
    ASSUME NEW K, IsFiniteSet(K), NEW T, {} \in T,
           \A s \in SUBSET K : \A x \in K \ s : s \in T => s \cup {x} \in T
    PROVE  SUBSET K \subseteq T
<1> DEFINE N == {n \in Nat : \A s \in SUBSET K : Cardinality(s) = n => s \in T}
<1>1. \A s \in SUBSET K : IsFiniteSet(s) /\ Cardinality(s) \in Nat
  BY FS_Subset, FS_CardinalityType
<1>2. 0 \in N
  BY <1>1, FS_EmptySet
<1>3. ASSUME NEW n \in Nat, n \in N PROVE n + 1 \in N
  <2> SUFFICES ASSUME NEW s \in SUBSET K, Cardinality(s) = n + 1 PROVE s \in T
    OBVIOUS
  <2>0. Cardinality({}) = 0
    BY FS_EmptySet
  <2>1. s # {}
    BY <2>0
  <2>2. PICK x \in s : TRUE
    BY <2>1
  <2>3. Cardinality(s \ {x}) = n
    <3>1. IsFiniteSet(s)
      BY <1>1
    <3>2. Cardinality(s \ {x}) = Cardinality(s) - 1
      BY <2>2, <3>1, FS_RemoveElement
    <3> QED BY <3>2
  <2>4. s \ {x} \in T /\ s \ {x} \in SUBSET K /\ x \in K \ (s \ {x})
    BY <1>3, <2>2, <2>3
  <2>5. (s \ {x}) \cup {x} = s
    BY <2>2
  <2> QED BY <2>4, <2>5
<1> HIDE DEF N
<1>4. Nat \subseteq N
  BY <1>2, <1>3, SetInduction
<1> QED BY <1>1, <1>4 DEF N

\* h gives the sum of v over each subset of K.
Summing(v, K, h) ==
    /\ h \in [SUBSET K -> Int]
    /\ h[{}] = 0
    /\ \A s \in SUBSET K : \A x \in s : h[s] = v[x] + h[s \ {x}]

\* What the recursion in the definition says: for the element it chooses.
Choosing(v, K, h) ==
    h = [s \in SUBSET K |-> IF s = {} THEN 0
                            ELSE v[CHOOSE x \in s : TRUE] + h[s \ {CHOOSE x \in s : TRUE}]]

LEMMA ChoosingExists ==
    ASSUME NEW K, IsFiniteSet(K), NEW v \in [K -> Int]
    PROVE  \E h \in [SUBSET K -> Int] : Choosing(v, K, h)
<1> DEFINE c(s) == CHOOSE x \in s : TRUE
           Up(n) == {s \in SUBSET K : Cardinality(s) <= n}
           Fits(n, g) == \A s \in Up(n) : g[s] = IF s = {} THEN 0 ELSE v[c(s)] + g[s \ {c(s)}]
           N == {n \in Nat : \E g \in [SUBSET K -> Int] : Fits(n, g)}
<1>1. \A s \in SUBSET K : IsFiniteSet(s) /\ Cardinality(s) \in Nat /\ Cardinality(s) <= Cardinality(K)
  BY FS_Subset, FS_CardinalityType
<1>2. \A s \in SUBSET K : s # {} =>
          /\ c(s) \in s /\ c(s) \in K /\ v[c(s)] \in Int
          /\ s \ {c(s)} \in SUBSET K /\ Cardinality(s \ {c(s)}) = Cardinality(s) - 1
  BY <1>1, FS_RemoveElement
<1> HIDE DEF c
<1>3. 0 \in N
  <2> DEFINE g == [s \in SUBSET K |-> 0]
  <2>1. \A s \in Up(0) : s = {}
    BY <1>1, FS_EmptySet
  <2>2. Fits(0, g) /\ g \in [SUBSET K -> Int]
    BY <2>1
  <2> HIDE DEF g
  <2> QED BY <2>2
<1>4. ASSUME NEW n \in Nat, n \in N PROVE n + 1 \in N
  <2>1. PICK g \in [SUBSET K -> Int] : Fits(n, g)
    BY <1>4
  <2> DEFINE h == [s \in SUBSET K |-> IF Cardinality(s) <= n THEN g[s]
                                      ELSE v[c(s)] + g[s \ {c(s)}]]
  <2>2. h \in [SUBSET K -> Int]
    <3> SUFFICES ASSUME NEW s \in SUBSET K, ~(Cardinality(s) <= n)
                 PROVE  v[c(s)] + g[s \ {c(s)}] \in Int
      BY <2>1
    <3>1. s # {}
      <4>1. Cardinality({}) = 0 /\ 0 <= n
        BY FS_EmptySet
      <4> QED BY <4>1
    <3> QED BY <1>2, <2>1, <3>1
  <2>3. ASSUME NEW s \in Up(n + 1) PROVE h[s] = IF s = {} THEN 0 ELSE v[c(s)] + h[s \ {c(s)}]
    <3>1. CASE s = {}
      BY <2>1, <3>1, FS_EmptySet
    <3>2. CASE s # {}
      <4>1. Cardinality(s \ {c(s)}) <= n /\ s \ {c(s)} \in SUBSET K
        BY <1>1, <1>2, <3>2
      <4>2. h[s \ {c(s)}] = g[s \ {c(s)}]
        BY <4>1
      <4>3. h[s] = v[c(s)] + g[s \ {c(s)}]
        BY <2>1, <3>2
      <4> QED BY <3>2, <4>2, <4>3
    <3> QED BY <3>1, <3>2
  <2> HIDE DEF h
  <2> QED BY <2>2, <2>3
<1> HIDE DEF N
<1>5. Cardinality(K) \in N
  BY <1>3, <1>4, SetInduction, FS_CardinalityType
<1>6. PICK g \in [SUBSET K -> Int] : Fits(Cardinality(K), g)
  BY <1>5 DEF N
<1>7. g = [s \in SUBSET K |-> IF s = {} THEN 0 ELSE v[c(s)] + g[s \ {c(s)}]]
  BY <1>1, <1>6
<1> QED BY <1>7 DEF Choosing, c

\* The sum is the same in whichever order it is taken.
LEMMA SumExists ==
    ASSUME NEW K, IsFiniteSet(K), NEW v \in [K -> Int]
    PROVE  \E h : Summing(v, K, h) /\ SumFunction(v) = h[K]
<1> DEFINE c(s) == CHOOSE x \in s : TRUE
           h == CHOOSE g : Choosing(v, K, g)
<1>1. SumFunction(v) = h[K] /\ Choosing(v, K, h)
  <2>1. \E g : Choosing(v, K, g)
    BY ChoosingExists
  <2>2. Choosing(v, K, h)
    BY <2>1
  <2>3. SumFunction(v) = h[K]
    BY DEF SumFunction, SumFunctionOnSet, FoldFunctionOnSet, MapThenFoldSet, Choosing
  <2> QED BY <2>2, <2>3
<1> HIDE DEF h
<1>2. /\ h[{}] = 0
      /\ \A s \in SUBSET K : s # {} => c(s) \in s /\ h[s] = v[c(s)] + h[s \ {c(s)}]
  BY <1>1 DEF Choosing
<1>3. h = [s \in SUBSET K |-> h[s]]
  BY <1>1 DEF Choosing
<1> HIDE DEF c
<1>4. \A s \in SUBSET K : IsFiniteSet(s) /\ Cardinality(s) \in Nat
  BY FS_Subset, FS_CardinalityType
<1> DEFINE Order(s) == h[s] \in Int /\ \A x \in s : h[s] = v[x] + h[s \ {x}]
           N == {n \in Nat : \A s \in SUBSET K : Cardinality(s) <= n => Order(s)}
<1>5. 0 \in N
  <2> SUFFICES ASSUME NEW s \in SUBSET K, Cardinality(s) <= 0 PROVE Order(s)
    OBVIOUS
  <2>1. s = {}
    BY <1>4, FS_EmptySet
  <2> QED BY <1>2, <2>1
<1>6. ASSUME NEW n \in Nat, n \in N PROVE n + 1 \in N
  <2> HIDE DEF Order
  <2> SUFFICES ASSUME NEW s \in SUBSET K, Cardinality(s) <= n + 1 PROVE Order(s)
    OBVIOUS
  <2> USE DEF Order
  <2>1. ASSUME NEW x \in s
        PROVE  s \ {x} \in SUBSET K /\ Order(s \ {x}) /\ v[x] \in Int
               /\ \A y \in s \ {x} : h[(s \ {x}) \ {y}] \in Int
    <3>1. IsFiniteSet(s) /\ Cardinality(s) \in Nat
      BY <1>4
    <3>2. Cardinality(s \ {x}) = Cardinality(s) - 1
      BY <3>1, FS_RemoveElement
    <3>3. \A r \in SUBSET (s \ {x}) : Cardinality(r) <= n
      <4>1. Cardinality(s \ {x}) <= n /\ IsFiniteSet(s \ {x}) /\ Cardinality(s \ {x}) \in Nat
        BY <1>4, <3>1, <3>2
      <4>2. \A r \in SUBSET (s \ {x}) : Cardinality(r) \in Nat /\ Cardinality(r) <= Cardinality(s \ {x})
        BY <1>4, <4>1, FS_Subset
      <4> QED BY <4>1, <4>2
    <3> QED BY <1>6, <3>3
  <2>2. CASE s = {}
    BY <1>2, <2>2
  <2>3. CASE s # {}
    <3>1. c(s) \in s /\ h[s] = v[c(s)] + h[s \ {c(s)}]
      BY <1>2, <2>3
    <3>2. v[c(s)] \in Int /\ h[s \ {c(s)}] \in Int
      BY <2>1, <3>1
    <3>3. ASSUME NEW x \in s, x # c(s) PROVE h[s] = v[x] + h[s \ {x}]
      <4> DEFINE r == (s \ {x}) \ {c(s)}
      <4>1. x \in s \ {c(s)} /\ c(s) \in s \ {x} /\ (s \ {c(s)}) \ {x} = r
        BY <3>1, <3>3
      <4>2. h[s \ {c(s)}] = v[x] + h[r]
        BY <2>1, <3>1, <4>1
      <4>3. h[s \ {x}] = v[c(s)] + h[r] /\ h[r] \in Int /\ v[x] \in Int
        BY <2>1, <4>1
      <4> HIDE DEF r
      <4> QED BY <3>1, <3>2, <4>2, <4>3
    <3>4. h[s] \in Int
      BY <3>1, <3>2
    <3>5. \A x \in s : h[s] = v[x] + h[s \ {x}]
      BY <3>1, <3>3
    <3> QED BY <3>4, <3>5
  <2> QED BY <2>2, <2>3
<1> HIDE DEF N
<1>7. Nat \subseteq N
  BY <1>5, <1>6, SetInduction
<1>8. ASSUME NEW s \in SUBSET K PROVE Order(s)
  <2>1. Cardinality(s) \in N /\ Cardinality(s) <= Cardinality(s)
    BY <1>4, <1>7
  <2> QED BY <2>1 DEF N
<1>9. h \in [SUBSET K -> Int]
  BY <1>3, <1>8
<1> QED BY <1>1, <1>2, <1>8, <1>9 DEF Summing

\* Sums over one set agree when the columns do.
LEMMA SumsAgree ==
    ASSUME NEW K, NEW J, NEW v, NEW w, NEW h, NEW g, Summing(v, K, h), Summing(w, J, g),
           NEW S, IsFiniteSet(S), S \subseteq K, S \subseteq J, \A x \in S : v[x] = w[x]
    PROVE  h[S] = g[S]
<1> DEFINE T == {s \in SUBSET S : h[s] = g[s]}
<1>1. {} \in T
  BY DEF Summing
<1>2. ASSUME NEW s \in SUBSET S, NEW x \in S \ s, s \in T PROVE s \cup {x} \in T
  <2>1. (s \cup {x}) \ {x} = s /\ s \cup {x} \in SUBSET K /\ s \cup {x} \in SUBSET J
    OBVIOUS
  <2>2. h[s \cup {x}] = v[x] + h[s] /\ g[s \cup {x}] = w[x] + g[s]
    BY <2>1 DEF Summing
  <2> QED BY <1>2, <2>2
<1> HIDE DEF T
<1>3. S \in T
  BY <1>1, <1>2, FiniteInduction
<1> QED BY <1>3 DEF T

LEMMA SumType ==
    ASSUME NEW K, IsFiniteSet(K), NEW v \in [K -> Int]
    PROVE  SumFunction(v) \in Int
<1>1. PICK h : Summing(v, K, h) /\ SumFunction(v) = h[K]
  BY SumExists
<1> QED BY <1>1 DEF Summing

LEMMA SumOfNone == ASSUME NEW v, DOMAIN v = {} PROVE SumFunction(v) = 0
<1>1. \E h : h = [s \in SUBSET {} |-> IF s = {} THEN 0
                      ELSE v[CHOOSE x \in s : TRUE] + h[s \ {CHOOSE x \in s : TRUE}]]
  <2>1. [s \in SUBSET {} |-> 0] = [s \in SUBSET {} |-> IF s = {} THEN 0
             ELSE v[CHOOSE x \in s : TRUE]
                      + [r \in SUBSET {} |-> 0][s \ {CHOOSE x \in s : TRUE}]]
    OBVIOUS
  <2> QED BY <2>1
<1> QED BY <1>1 DEF SumFunction, SumFunctionOnSet, FoldFunctionOnSet, MapThenFoldSet

\* One element more.
LEMMA SumGrows ==
    ASSUME NEW K, IsFiniteSet(K), NEW x, x \notin K, NEW w \in [K \cup {x} -> Int], NEW v,
           v = [k \in K |-> w[k]]
    PROVE  SumFunction(w) = SumFunction(v) + w[x]
<1>1. IsFiniteSet(K \cup {x}) /\ v \in [K -> Int]
  BY FS_AddElement
<1>2. PICK h : Summing(w, K \cup {x}, h) /\ SumFunction(w) = h[K \cup {x}]
  BY <1>1, SumExists
<1>3. PICK g : Summing(v, K, g) /\ SumFunction(v) = g[K]
  BY <1>1, SumExists
<1>4. h[K] = g[K] /\ h[K] \in Int /\ w[x] \in Int
  <2>1. h[K] = g[K]
    BY <1>1, <1>2, <1>3, SumsAgree
  <2> QED BY <1>2, <2>1 DEF Summing
<1>5. (K \cup {x}) \ {x} = K
  OBVIOUS
<1>6. h[K \cup {x}] = w[x] + h[K]
  BY <1>2, <1>5 DEF Summing
<1> QED BY <1>2, <1>3, <1>4, <1>6

-----------------------------------------------------------------------------
(* The two overviews.  The loop of build_overview_one_pass keeps, row after *)
(* row, what the queries of build_overview_multi_query would say of the     *)
(* rows it has met.                                                         *)

WellFormed(rows) ==
    \A k \in DOMAIN rows : rows[k].usage \in Usages /\ rows[k].duration \in Int

LEMMA NormalizedUsage == ASSUME NEW u \in Usages PROVE Normalized(u) = u
<1> DEFINE F == {"input", "output", "cached", "cache_creation", "reasoning"}
<1>1. u \in [F -> Nat] /\ u.cached <= u.input /\ u.reasoning <= u.output
  BY DEF Usages
<1>2. /\ positive(u.input) = u.input /\ positive(u.output) = u.output
      /\ positive(u.cache_creation) = u.cache_creation
  BY <1>1 DEF positive
<1>3. clamp(u.cached, u.input) = u.cached /\ clamp(u.reasoning, u.output) = u.reasoning
  BY <1>1 DEF clamp
<1> DEFINE w == Normalized(u)
<1>4. DOMAIN w = F /\ w = [field \in F |-> w[field]]
  BY <1>1 DEF Normalized
<1>5. /\ w.input = u.input /\ w.output = u.output /\ w.cached = u.cached
      /\ w.cache_creation = u.cache_creation /\ w.reasoning = u.reasoning
  BY <1>1, <1>2, <1>3 DEF Normalized
<1> HIDE DEF w
<1>6. \A field \in F : w[field] = u[field]
  BY <1>5
<1>7. u = [field \in F |-> u[field]]
  BY <1>1
<1>8. w = u
  BY <1>4, <1>6, <1>7
<1> QED BY <1>8 DEF w

LEMMA NoUsageFields ==
    /\ DOMAIN NoUsage = {"input", "output", "cached", "cache_creation", "reasoning"}
    /\ NoUsage = [field \in DOMAIN NoUsage |-> 0]
    /\ NoUsage \in Usages
  BY DEF NoUsage, Usage, Usages

LEMMA SumsOfNone == ASSUME NEW rows PROVE Sums(rows, {}) = NoUsage
<1>1. \A field : SumFunction([k \in {} |-> rows[k].usage[field]]) = 0
  BY SumOfNone
<1> QED BY <1>1, NoUsageFields DEF Sums

LEMMA SumsGrow ==
    ASSUME NEW rows, WellFormed(rows), NEW K \in SUBSET DOMAIN rows, IsFiniteSet(K),
           NEW x \in DOMAIN rows, x \notin K
    PROVE  Sums(rows, K \cup {x}) = Plus(Sums(rows, K), rows[x].usage)
<1> DEFINE F == DOMAIN NoUsage
           v(field) == [k \in K |-> rows[k].usage[field]]
           w(field) == [k \in K \cup {x} |-> rows[k].usage[field]]
<1>1. ASSUME NEW field \in F PROVE SumFunction(w(field)) = SumFunction(v(field)) + rows[x].usage[field]
  <2>1. \A k \in K \cup {x} : rows[k].usage[field] \in Int
    BY NoUsageFields DEF WellFormed, Usages
  <2>2. w(field) \in [K \cup {x} -> Int] /\ v(field) = [k \in K |-> w(field)[k]]
        /\ w(field)[x] = rows[x].usage[field]
    BY <2>1
  <2> HIDE DEF v, w
  <2>3. SumFunction(w(field)) = SumFunction(v(field)) + w(field)[x]
    BY <2>2, SumGrows
  <2> QED BY <2>2, <2>3
<1>2. Sums(rows, K \cup {x}) = [field \in F |-> SumFunction(w(field))]
      /\ Sums(rows, K) = [field \in F |-> SumFunction(v(field))]
  BY DEF Sums
<1> HIDE DEF v, w, F
<1> QED BY <1>1, <1>2 DEF Plus

LEMMA CountType ==
    ASSUME NEW rows, NEW K, IsFiniteSet(K), NEW O
    PROVE  Count(rows, K, O) \in Nat
  BY FS_Subset, FS_CardinalityType DEF Count

LEMMA CountOfNone == ASSUME NEW rows, NEW O PROVE Count(rows, {}, O) = 0
<1>1. {k \in {} : rows[k].outcome \in O} = {}
  OBVIOUS
<1> QED BY <1>1, FS_EmptySet DEF Count

LEMMA CountGrows ==
    ASSUME NEW rows, NEW K, IsFiniteSet(K), NEW x, x \notin K, NEW O
    PROVE  /\ rows[x].outcome \in O => Count(rows, K \cup {x}, O) = Count(rows, K, O) + 1
           /\ rows[x].outcome \notin O => Count(rows, K \cup {x}, O) = Count(rows, K, O)
<1> DEFINE C(S) == {k \in S : rows[k].outcome \in O}
<1>1. C(K) \in SUBSET K
      /\ C(K \cup {x}) = IF rows[x].outcome \in O THEN C(K) \cup {x} ELSE C(K)
  OBVIOUS
<1>2. \A S : Count(rows, S, O) = Cardinality(C(S))
  BY DEF Count
<1>3. x \notin C(K)
  OBVIOUS
<1> HIDE DEF C
<1>4. IsFiniteSet(C(K)) /\ Cardinality(C(K)) \in Nat
  BY <1>1, FS_Subset, FS_CardinalityType
<1>5. Cardinality(C(K) \cup {x}) = Cardinality(C(K)) + 1
  BY <1>3, <1>4, FS_AddElement
<1> QED BY <1>1, <1>2, <1>4, <1>5

\* What a loop adds to a counter.
LEMMA CountAdds ==
    ASSUME NEW rows, NEW K, IsFiniteSet(K), NEW x, x \notin K, NEW O
    PROVE  Count(rows, K \cup {x}, O) = Count(rows, K, O) + IF rows[x].outcome \in O THEN 1 ELSE 0
<1>1. Count(rows, K, O) \in Nat
  BY CountType
<1>2. /\ rows[x].outcome \in O => Count(rows, K \cup {x}, O) = Count(rows, K, O) + 1
      /\ rows[x].outcome \notin O => Count(rows, K \cup {x}, O) = Count(rows, K, O)
  BY CountGrows
<1> QED BY <1>1, <1>2

LEMMA TotalsGrow ==
    ASSUME NEW rows, WellFormed(rows), NEW K \in SUBSET DOMAIN rows, IsFiniteSet(K),
           NEW x \in DOMAIN rows, x \notin K
    PROVE  /\ TotalsQuery(rows, {}) = NoTotals
           /\ TotalsQuery(rows, K \cup {x}) = OverTotals(TotalsQuery(rows, K), rows[x])
<1>1. Cardinality({}) = 0 /\ Cardinality(K \cup {x}) = Cardinality(K) + 1
  BY FS_EmptySet, FS_AddElement
<1>2. \A o \in Outcomes : Count(rows, {}, {o}) = 0
  BY CountOfNone
<1>3. ASSUME NEW o \in Outcomes
      PROVE  Count(rows, K \cup {x}, {o})
                 = Count(rows, K, {o}) + IF rows[x].outcome = o THEN 1 ELSE 0
  <2>1. Count(rows, K, {o}) \in Nat
    BY CountType
  <2>2. CASE rows[x].outcome = o
    <3>1. rows[x].outcome \in {o}
      BY <2>2
    <3>2. Count(rows, K \cup {x}, {o}) = Count(rows, K, {o}) + 1
      BY <3>1, CountGrows
    <3> QED BY <2>2, <3>2
  <2>3. CASE rows[x].outcome # o
    <3>1. rows[x].outcome \notin {o}
      BY <2>3
    <3>2. Count(rows, K \cup {x}, {o}) = Count(rows, K, {o})
      BY <3>1, CountGrows
    <3> QED BY <2>1, <2>3, <3>2
  <2> QED BY <2>2, <2>3
<1>4. Sums(rows, {}) = NoUsage /\ Sums(rows, K \cup {x}) = Plus(Sums(rows, K), rows[x].usage)
  BY SumsOfNone, SumsGrow
<1> QED BY <1>1, <1>2, <1>3, <1>4 DEF TotalsQuery, NoTotals, OverTotals

\* The outcomes that a series and a model count.
LEMMA OutcomesGrow ==
    ASSUME NEW rows, NEW K, IsFiniteSet(K), NEW x, x \notin K
    PROVE  LET is(b) == IF b THEN 1 ELSE 0
           IN  /\ Count(rows, {}, {"ok"}) = 0 /\ Count(rows, {}, Failed) = 0
               /\ Count(rows, {}, {"cancelled"}) = 0
               /\ Count(rows, K \cup {x}, {"ok"})
                      = Count(rows, K, {"ok"}) + is(rows[x].outcome = "ok")
               /\ Count(rows, K \cup {x}, Failed)
                      = Count(rows, K, Failed) + is(rows[x].outcome \in Failed)
               /\ Count(rows, K \cup {x}, {"cancelled"})
                      = Count(rows, K, {"cancelled"}) + is(rows[x].outcome = "cancelled")
<1>1. ASSUME NEW O PROVE Count(rows, {}, O) = 0
  BY CountOfNone
<1>2. ASSUME NEW o
      PROVE  Count(rows, K \cup {x}, {o}) = Count(rows, K, {o}) + IF rows[x].outcome = o THEN 1 ELSE 0
  <2> DEFINE O == {o}
  <2> HIDE DEF O
  <2>1. Count(rows, K, O) \in Nat
    BY CountType
  <2>2. /\ rows[x].outcome \in O => Count(rows, K \cup {x}, O) = Count(rows, K, O) + 1
        /\ rows[x].outcome \notin O => Count(rows, K \cup {x}, O) = Count(rows, K, O)
    BY CountGrows
  <2>3. rows[x].outcome \in O <=> rows[x].outcome = o
    BY DEF O
  <2>4. Count(rows, K \cup {x}, O) = Count(rows, K, O) + IF rows[x].outcome = o THEN 1 ELSE 0
    BY <2>1, <2>2, <2>3
  <2> QED BY <2>4 DEF O
<1>3. Count(rows, K \cup {x}, Failed)
          = Count(rows, K, Failed) + IF rows[x].outcome \in Failed THEN 1 ELSE 0
  BY CountAdds
<1> QED BY <1>1, <1>2, <1>3

LEMMA SeriesGrow ==
    ASSUME NEW rows, WellFormed(rows), NEW K \in SUBSET DOMAIN rows, IsFiniteSet(K),
           NEW x \in DOMAIN rows, x \notin K
    PROVE  /\ SeriesOf(rows, {}) = NoSeries
           /\ SeriesOf(rows, K \cup {x}) = OverSeries(SeriesOf(rows, K), rows[x])
<1>1. Sums(rows, {}).input = 0 /\ Sums(rows, {}).output = 0
  BY SumsOfNone DEF NoUsage, Usage
<1>2. Sums(rows, K \cup {x}) = Plus(Sums(rows, K), rows[x].usage)
  BY SumsGrow
<1>3. "input" \in DOMAIN Sums(rows, K) /\ "output" \in DOMAIN Sums(rows, K)
  BY NoUsageFields DEF Sums
<1>4. /\ Sums(rows, K \cup {x}).input = Sums(rows, K).input + rows[x].usage.input
      /\ Sums(rows, K \cup {x}).output = Sums(rows, K).output + rows[x].usage.output
  BY <1>2, <1>3 DEF Plus
<1> QED BY <1>1, <1>4, OutcomesGrow DEF SeriesOf, NoSeries, OverSeries

LEMMA TimedGrows ==
    ASSUME NEW rows, NEW K, NEW x
    PROVE  /\ Timed(rows, {}) = {} /\ Timed(rows, K) \subseteq K
           /\ Timed(rows, K \cup {x}) = Timed(rows, K) \cup Timed(rows, {x})
           /\ rows[x].outcome = "ok" /\ rows[x].duration # Null => Timed(rows, {x}) = {x}
           /\ ~(rows[x].outcome = "ok" /\ rows[x].duration # Null) => Timed(rows, {x}) = {}
  BY DEF Timed

LEMMA DurationsGrow ==
    ASSUME NEW rows, WellFormed(rows), NEW K \in SUBSET DOMAIN rows, IsFiniteSet(K),
           NEW x \in DOMAIN rows, x \notin K
    PROVE  LET Sum(S) == SumFunction([k \in Timed(rows, S) |-> rows[k].duration])
               timed == rows[x].outcome = "ok" /\ rows[x].duration # Null
           IN  /\ Sum({}) = 0 /\ Cardinality(Timed(rows, {})) = 0
               /\ Sum(K \cup {x}) = Sum(K) + IF timed THEN rows[x].duration ELSE 0
               /\ Cardinality(Timed(rows, K \cup {x}))
                      = Cardinality(Timed(rows, K)) + IF timed THEN 1 ELSE 0
<1> DEFINE Sum(S) == SumFunction([k \in Timed(rows, S) |-> rows[k].duration])
           timed == rows[x].outcome = "ok" /\ rows[x].duration # Null
           T == Timed(rows, K)
<1>1. /\ Timed(rows, {}) = {} /\ T \subseteq K
      /\ Timed(rows, K \cup {x}) = IF timed THEN T \cup {x} ELSE T
  <2>1. /\ Timed(rows, {}) = {} /\ T \subseteq K
        /\ Timed(rows, K \cup {x}) = T \cup Timed(rows, {x})
        /\ timed => Timed(rows, {x}) = {x}
        /\ ~timed => Timed(rows, {x}) = {}
    BY TimedGrows
  <2> QED BY <2>1
<1>2. IsFiniteSet(T) /\ Cardinality(T) \in Nat /\ x \notin T
  BY <1>1, FS_Subset, FS_CardinalityType
<1>3. Sum({}) = 0 /\ Cardinality(Timed(rows, {})) = 0
  BY <1>1, SumOfNone, FS_EmptySet
<1> DEFINE v == [k \in T |-> rows[k].duration]
           w == [k \in T \cup {x} |-> rows[k].duration]
<1>4. v \in [T -> Int] /\ w \in [T \cup {x} -> Int] /\ v = [k \in T |-> w[k]]
      /\ w[x] = rows[x].duration
  BY <1>1 DEF WellFormed
<1>5. Sum(K) = SumFunction(v) /\ Sum(K \cup {x}) = IF timed THEN SumFunction(w) ELSE SumFunction(v)
  BY <1>1
<1> HIDE DEF v, w, T
<1>6. SumFunction(w) = SumFunction(v) + w[x] /\ SumFunction(v) \in Int
  BY <1>2, <1>4, SumGrows, SumType
<1>7. Cardinality(T \cup {x}) = Cardinality(T) + 1
  BY <1>2, FS_AddElement
<1>8. Sum(K \cup {x}) = Sum(K) + IF timed THEN rows[x].duration ELSE 0
  BY <1>4, <1>5, <1>6
<1>9. Cardinality(Timed(rows, K \cup {x})) = Cardinality(T) + IF timed THEN 1 ELSE 0
  BY <1>1, <1>2, <1>7
<1> QED BY <1>3, <1>8, <1>9 DEF T

\* A request is summed up in the tier it is priced in.
LEMMA TiersGrow ==
    ASSUME NEW rows, WellFormed(rows), NEW K \in SUBSET DOMAIN rows, IsFiniteSet(K),
           NEW x \in DOMAIN rows, x \notin K, NEW long \in BOOLEAN
    PROVE  /\ TierSums(rows, {}, long) = NoUsage
           /\ TierSums(rows, K \cup {x}, long)
                  = IF Tier(rows, x) = long THEN Plus(TierSums(rows, K, long), rows[x].usage)
                    ELSE TierSums(rows, K, long)
<1> DEFINE G(S) == {k \in S : Tier(rows, k) = long}
<1>1. G({}) = {} /\ G(K) \in SUBSET DOMAIN rows /\ G(K) \subseteq K /\ x \notin G(K)
      /\ G(K \cup {x}) = IF Tier(rows, x) = long THEN G(K) \cup {x} ELSE G(K)
  OBVIOUS
<1>2. \A S : TierSums(rows, S, long) = Sums(rows, G(S))
  BY DEF TierSums
<1> HIDE DEF G
<1>3. IsFiniteSet(G(K))
  BY <1>1, FS_Subset
<1>4. Sums(rows, {}) = NoUsage
      /\ Sums(rows, G(K) \cup {x}) = Plus(Sums(rows, G(K)), rows[x].usage)
  BY <1>1, <1>3, SumsOfNone, SumsGrow
<1> QED BY <1>1, <1>2, <1>4

LEMMA ModelsGrow ==
    ASSUME NEW rows, WellFormed(rows), NEW K \in SUBSET DOMAIN rows, IsFiniteSet(K),
           NEW x \in DOMAIN rows, x \notin K
    PROVE  /\ ModelSums(rows, {}) = NoModel
           /\ ModelSums(rows, K \cup {x}) = OverModel(ModelSums(rows, K), rows[x])
<1>1. Cardinality({}) = 0 /\ Cardinality(K \cup {x}) = Cardinality(K) + 1
  BY FS_EmptySet, FS_AddElement
<1>2. /\ Count(rows, {}, Failed) = 0 /\ Count(rows, {}, {"cancelled"}) = 0
      /\ Count(rows, K \cup {x}, Failed)
             = Count(rows, K, Failed) + IF rows[x].outcome \in Failed THEN 1 ELSE 0
      /\ Count(rows, K \cup {x}, {"cancelled"})
             = Count(rows, K, {"cancelled"}) + IF rows[x].outcome = "cancelled" THEN 1 ELSE 0
  BY OutcomesGrow
<1>3. Sums(rows, {}) = NoUsage /\ Sums(rows, K \cup {x}) = Plus(Sums(rows, K), rows[x].usage)
  BY SumsOfNone, SumsGrow
<1>4. ASSUME NEW long \in BOOLEAN
      PROVE  /\ TierSums(rows, {}, long) = NoUsage
             /\ TierSums(rows, K \cup {x}, long)
                  = IF Tier(rows, x) = long THEN Plus(TierSums(rows, K, long), rows[x].usage)
                    ELSE TierSums(rows, K, long)
  BY TiersGrow
<1>5. Tier(rows, x) \in BOOLEAN
  BY DEF Tier, is_long
<1>6. Normalized(rows[x].usage) = rows[x].usage
  BY NormalizedUsage DEF WellFormed
<1> DEFINE Sum(S) == SumFunction([k \in Timed(rows, S) |-> rows[k].duration])
           timed == rows[x].outcome = "ok" /\ rows[x].duration # Null
<1>7. /\ Sum({}) = 0 /\ Cardinality(Timed(rows, {})) = 0
      /\ Sum(K \cup {x}) = Sum(K) + IF timed THEN rows[x].duration ELSE 0
      /\ Cardinality(Timed(rows, K \cup {x}))
             = Cardinality(Timed(rows, K)) + IF timed THEN 1 ELSE 0
  BY DurationsGrow
<1>8. \A S : ModelSums(rows, S) =
         [count |-> Cardinality(S), usage |-> Sums(rows, S), duration_sum |-> Sum(S),
          duration_count |-> Cardinality(Timed(rows, S)),
          errors |-> Count(rows, S, Failed), cancelled |-> Count(rows, S, {"cancelled"}),
          short |-> TierSums(rows, S, FALSE), long |-> TierSums(rows, S, TRUE)]
  BY DEF ModelSums
<1> HIDE DEF Sum
<1>9. ModelSums(rows, {}) = NoModel
  BY <1>1, <1>2, <1>3, <1>4, <1>7, <1>8 DEF NoModel
<1>10. ModelSums(rows, K \cup {x}) = OverModel(ModelSums(rows, K), rows[x])
  <2>1. /\ TierSums(rows, K \cup {x}, FALSE)
             = IF Tier(rows, x) THEN TierSums(rows, K, FALSE)
               ELSE Plus(TierSums(rows, K, FALSE), rows[x].usage)
        /\ TierSums(rows, K \cup {x}, TRUE)
             = IF Tier(rows, x) THEN Plus(TierSums(rows, K, TRUE), rows[x].usage)
               ELSE TierSums(rows, K, TRUE)
    BY <1>4, <1>5
  <2> DEFINE m == ModelSums(rows, K)
  <2>2. /\ m.count = Cardinality(K) /\ m.usage = Sums(rows, K) /\ m.duration_sum = Sum(K)
        /\ m.duration_count = Cardinality(Timed(rows, K)) /\ m.errors = Count(rows, K, Failed)
        /\ m.cancelled = Count(rows, K, {"cancelled"})
        /\ m.short = TierSums(rows, K, FALSE) /\ m.long = TierSums(rows, K, TRUE)
    BY DEF ModelSums, Sum
  <2> HIDE DEF m
  <2>3. OverModel(m, rows[x]) =
          [count |-> m.count + 1, usage |-> Plus(m.usage, rows[x].usage),
           duration_sum |-> m.duration_sum + IF timed THEN rows[x].duration ELSE 0,
           duration_count |-> m.duration_count + IF timed THEN 1 ELSE 0,
           errors |-> m.errors + IF rows[x].outcome \in Failed THEN 1 ELSE 0,
           cancelled |-> m.cancelled + IF rows[x].outcome = "cancelled" THEN 1 ELSE 0,
           short |-> IF Tier(rows, x) THEN m.short ELSE Plus(m.short, rows[x].usage),
           long |-> IF Tier(rows, x) THEN Plus(m.long, rows[x].usage) ELSE m.long]
    BY <1>6 DEF OverModel, Tier
  <2>4. ModelSums(rows, K \cup {x}) = OverModel(m, rows[x])
    BY <1>1, <1>2, <1>3, <1>7, <1>8, <2>1, <2>2, <2>3
  <2> QED BY <2>4 DEF m
<1> QED BY <1>9, <1>10

-----------------------------------------------------------------------------
(* GROUP BY, one row at a time.                                             *)

\* key is that of the rows of K and of one row more.
Extends(key, old, K, x) == DOMAIN key = K \cup {x} /\ old = [k \in K |-> key[k]] /\ x \notin K

\* What map says of each group is F of it.
Groups(map, key, F) == map = [t \in Range(key) |-> F[Group(key, t)]]

\* A loop that keeps F of each group finds what it has kept of the group of a
\* row, and goes on to keep F of the group with the row.
LEMMA GroupMet ==
    ASSUME NEW key, NEW F, NEW map, Groups(map, key, F), NEW t, NEW default, default = F[{}]
    PROVE  At(map, t, default) = F[Group(key, t)]
<1>1. t \notin Range(key) => Group(key, t) = {}
  BY DEF Range, Group
<1> QED BY <1>1 DEF At, Groups

LEMMA GroupKept ==
    ASSUME NEW K, NEW x, NEW key, NEW old, Extends(key, old, K, x),
           NEW F, NEW map, Groups(map, old, F), NEW next, Groups(next, key, F)
    PROVE  /\ Group(old, key[x]) \subseteq K
           /\ next = Put(map, key[x], F[Group(old, key[x]) \cup {x}])
<1>1. Group(old, key[x]) \subseteq K
  BY DEF Group, Extends
<1>2. Range(key) = Range(old) \cup {key[x]}
  BY DEF Range, Extends
<1>3. Group(key, key[x]) = Group(old, key[x]) \cup {x}
  BY DEF Group, Extends
<1>4. \A t : t # key[x] => Group(key, t) = Group(old, t)
  BY DEF Group, Extends
<1> QED BY <1>1, <1>2, <1>3, <1>4 DEF Put, Groups

LEMMA SeriesKept ==
    ASSUME NEW rows, WellFormed(rows), NEW K \in SUBSET DOMAIN rows, IsFiniteSet(K),
           NEW x \in DOMAIN rows, x \notin K
    PROVE  LET series == SeriesQuery(rows, K)
               bucket == rows[x].ts \div Bucket
           IN  SeriesQuery(rows, K \cup {x})
                   = Put(series, bucket, OverSeries(At(series, bucket, NoSeries), rows[x]))
<1> DEFINE key == [k \in K \cup {x} |-> rows[k].ts \div Bucket]
           old == [k \in K |-> rows[k].ts \div Bucket]
           F == [S \in SUBSET DOMAIN rows |-> SeriesOf(rows, S)]
           map == [t \in Range(old) |-> F[Group(old, t)]]
           next == [t \in Range(key) |-> F[Group(key, t)]]
           group == Group(old, key[x])
           default == F[{}]
<1>1. Extends(key, old, K, x) /\ key[x] = rows[x].ts \div Bucket
  BY DEF Extends
<1>2. \A t : Group(old, t) \in SUBSET DOMAIN rows /\ Group(key, t) \in SUBSET DOMAIN rows
  BY DEF Group
<1>3. SeriesQuery(rows, K) = map
      /\ SeriesQuery(rows, K \cup {x}) = next
  BY <1>2 DEF SeriesQuery
<1>4. /\ \A S \in SUBSET DOMAIN rows : F[S] = SeriesOf(rows, S)
      /\ {} \in SUBSET DOMAIN rows
  OBVIOUS
<1>5. group \in SUBSET DOMAIN rows /\ group \cup {x} \in SUBSET DOMAIN rows
  BY <1>2
<1> HIDE DEF key, old, F
<1>6. /\ group \subseteq K
      /\ At(map, key[x], default) = F[group]
      /\ next = Put(map, key[x], F[group \cup {x}])
  <2>1. /\ Extends(key, old, K, x) /\ Groups(map, old, F) /\ Groups(next, key, F)
        /\ default = F[{}]
    BY <1>1 DEF Groups
  <2> HIDE DEF map, next, group, default
  <2>2. Group(old, key[x]) = group
    BY DEF group
  <2>3. group \subseteq K
    BY <2>1, <2>2, GroupKept
  <2>4. At(map, key[x], default) = F[Group(old, key[x])]
    BY <2>1, GroupMet
  <2>5. next = Put(map, key[x], F[Group(old, key[x]) \cup {x}])
    BY <2>1, GroupKept
  <2> QED BY <2>2, <2>3, <2>4, <2>5
<1>7. IsFiniteSet(group) /\ x \notin group
  BY <1>6, FS_Subset
<1> HIDE DEF group, map, next
<1>8. /\ SeriesOf(rows, {}) = NoSeries
      /\ SeriesOf(rows, group \cup {x}) = OverSeries(SeriesOf(rows, group), rows[x])
  BY <1>5, <1>7, SeriesGrow
<1> QED BY <1>1, <1>3, <1>4, <1>5, <1>6, <1>8

\* The sums of each model, before they are priced.
SumsByModel(rows, found) ==
    LET model == [k \in found |-> rows[k].model]
    IN  [m \in Range(model) |-> ModelSums(rows, Group(model, m))]

LEMMA ModelsKept ==
    ASSUME NEW rows, WellFormed(rows), NEW K \in SUBSET DOMAIN rows, IsFiniteSet(K),
           NEW x \in DOMAIN rows, x \notin K
    PROVE  LET models == SumsByModel(rows, K)
               model  == rows[x].model
           IN  SumsByModel(rows, K \cup {x})
                   = Put(models, model, OverModel(At(models, model, NoModel), rows[x]))
<1> DEFINE key == [k \in K \cup {x} |-> rows[k].model]
           old == [k \in K |-> rows[k].model]
           F == [S \in SUBSET DOMAIN rows |-> ModelSums(rows, S)]
           map == [t \in Range(old) |-> F[Group(old, t)]]
           next == [t \in Range(key) |-> F[Group(key, t)]]
           group == Group(old, key[x])
           default == F[{}]
<1>1. Extends(key, old, K, x) /\ key[x] = rows[x].model
  BY DEF Extends
<1>2. \A t : Group(old, t) \in SUBSET DOMAIN rows /\ Group(key, t) \in SUBSET DOMAIN rows
  BY DEF Group
<1>3. SumsByModel(rows, K) = map
      /\ SumsByModel(rows, K \cup {x}) = next
  BY <1>2 DEF SumsByModel
<1>4. /\ \A S \in SUBSET DOMAIN rows : F[S] = ModelSums(rows, S)
      /\ {} \in SUBSET DOMAIN rows
  OBVIOUS
<1>5. group \in SUBSET DOMAIN rows /\ group \cup {x} \in SUBSET DOMAIN rows
  BY <1>2
<1> HIDE DEF key, old, F
<1>6. /\ group \subseteq K
      /\ At(map, key[x], default) = F[group]
      /\ next = Put(map, key[x], F[group \cup {x}])
  <2>1. /\ Extends(key, old, K, x) /\ Groups(map, old, F) /\ Groups(next, key, F)
        /\ default = F[{}]
    BY <1>1 DEF Groups
  <2> HIDE DEF map, next, group, default
  <2>2. Group(old, key[x]) = group
    BY DEF group
  <2>3. group \subseteq K
    BY <2>1, <2>2, GroupKept
  <2>4. At(map, key[x], default) = F[Group(old, key[x])]
    BY <2>1, GroupMet
  <2>5. next = Put(map, key[x], F[Group(old, key[x]) \cup {x}])
    BY <2>1, GroupKept
  <2> QED BY <2>2, <2>3, <2>4, <2>5
<1>7. IsFiniteSet(group) /\ x \notin group
  BY <1>6, FS_Subset
<1> HIDE DEF group, map, next
<1>8. /\ ModelSums(rows, {}) = NoModel
      /\ ModelSums(rows, group \cup {x}) = OverModel(ModelSums(rows, group), rows[x])
  BY <1>5, <1>7, ModelsGrow
<1> QED BY <1>1, <1>3, <1>4, <1>5, <1>6, <1>8

\* The rows of each value of a key are counted.
LEMMA CountsKept ==
    ASSUME NEW K, IsFiniteSet(K), NEW x, NEW key, NEW old, Extends(key, old, K, x),
           NEW counts, counts = [t \in Range(old) |-> Cardinality(Group(old, t))],
           NEW more, more = [t \in Range(key) |-> Cardinality(Group(key, t))]
    PROVE  more = Put(counts, key[x], At(counts, key[x], 0) + 1)
<1> DEFINE F == [S \in SUBSET (K \cup {x}) |-> Cardinality(S)]
           map == [t \in Range(old) |-> F[Group(old, t)]]
           next == [t \in Range(key) |-> F[Group(key, t)]]
           group == Group(old, key[x])
           default == F[{}]
<1>1. \A t : Group(old, t) \in SUBSET (K \cup {x}) /\ Group(key, t) \in SUBSET (K \cup {x})
  BY DEF Group, Extends
<1>2. counts = map /\ more = next
  BY <1>1
<1>3. /\ \A S \in SUBSET (K \cup {x}) : F[S] = Cardinality(S)
      /\ {} \in SUBSET (K \cup {x})
  OBVIOUS
<1>4. group \in SUBSET (K \cup {x}) /\ group \cup {x} \in SUBSET (K \cup {x})
  BY <1>1
<1> HIDE DEF F
<1>5. /\ group \subseteq K
      /\ At(map, key[x], default) = F[group]
      /\ next = Put(map, key[x], F[group \cup {x}])
  <2>1. Groups(map, old, F) /\ Groups(next, key, F) /\ default = F[{}]
    BY DEF Groups
  <2> HIDE DEF map, next, group, default
  <2>2. Group(old, key[x]) = group
    BY DEF group
  <2>3. group \subseteq K
    BY <2>1, <2>2, GroupKept
  <2>4. At(map, key[x], default) = F[Group(old, key[x])]
    BY <2>1, GroupMet
  <2>5. next = Put(map, key[x], F[Group(old, key[x]) \cup {x}])
    BY <2>1, GroupKept
  <2> QED BY <2>2, <2>3, <2>4, <2>5
<1>6. IsFiniteSet(group) /\ x \notin group
  BY <1>5, FS_Subset DEF Extends
<1> HIDE DEF group, map, next
<1>7. Cardinality({}) = 0 /\ Cardinality(group \cup {x}) = Cardinality(group) + 1
  BY <1>6, FS_EmptySet, FS_AddElement
<1> QED BY <1>2, <1>3, <1>4, <1>5, <1>7

LEMMA ClientsKept ==
    ASSUME NEW rows, NEW K, IsFiniteSet(K), NEW x, x \notin K
    PROVE  LET clients == ClientQuery(rows, K)
               client  == rows[x].client
           IN  ClientQuery(rows, K \cup {x})
                   = Put(clients, client, At(clients, client, 0) + 1)
<1> DEFINE key == [k \in K \cup {x} |-> rows[k].client]
           old == [k \in K |-> rows[k].client]
<1>1. Extends(key, old, K, x) /\ key[x] = rows[x].client
  BY DEF Extends
<1> DEFINE counts == ClientQuery(rows, K)
           more == ClientQuery(rows, K \cup {x})
<1>2. /\ counts = [t \in Range(old) |-> Cardinality(Group(old, t))]
      /\ more = [t \in Range(key) |-> Cardinality(Group(key, t))]
  BY DEF ClientQuery
<1> HIDE DEF counts, more
<1>3. more = Put(counts, key[x], At(counts, key[x], 0) + 1)
  <2> HIDE DEF key, old
  <2> QED BY <1>1, <1>2, CountsKept
<1> QED BY <1>1, <1>3 DEF counts, more

LEMMA StatusKept ==
    ASSUME NEW rows, NEW K, IsFiniteSet(K), NEW x, x \notin K
    PROVE  LET counts == StatusQuery(rows, K)
               status == Coalesce(rows[x].status, 0)
           IN  StatusQuery(rows, K \cup {x})
                   = IF rows[x].outcome \in {"ok", "http_error"}
                     THEN Put(counts, status, At(counts, status, 0) + 1) ELSE counts
<1> DEFINE J == {k \in K : rows[k].outcome \in {"ok", "http_error"}}
           L == {k \in K \cup {x} : rows[k].outcome \in {"ok", "http_error"}}
           key == [k \in L |-> Coalesce(rows[k].status, 0)]
           old == [k \in J |-> Coalesce(rows[k].status, 0)]
           counts == StatusQuery(rows, K)
           more == StatusQuery(rows, K \cup {x})
<1>1. /\ counts = [t \in Range(old) |-> Cardinality(Group(old, t))]
      /\ more = [t \in Range(key) |-> Cardinality(Group(key, t))]
  BY DEF StatusQuery
<1>2. CASE rows[x].outcome \in {"ok", "http_error"}
  <2>1. L = J \cup {x} /\ x \notin J /\ J \subseteq K
    BY <1>2
  <2>2. IsFiniteSet(J)
    BY <2>1, FS_Subset
  <2>3. Extends(key, old, J, x) /\ key[x] = Coalesce(rows[x].status, 0)
    BY <2>1 DEF Extends
  <2> HIDE DEF J, L, key, old, counts, more
  <2>4. more = Put(counts, key[x], At(counts, key[x], 0) + 1)
    BY <1>1, <2>1, <2>2, <2>3, CountsKept
  <2> QED BY <1>2, <2>3, <2>4 DEF counts, more
<1>3. CASE ~(rows[x].outcome \in {"ok", "http_error"})
  <2>1. L = J
    BY <1>3
  <2> QED BY <1>1, <1>3, <2>1
<1> QED BY <1>2, <1>3

-----------------------------------------------------------------------------

\* What the loop keeps of the rows it has met.
Kept(rows, met) ==
    [totals |-> TotalsQuery(rows, met), timed |-> Timed(rows, met),
     series |-> SeriesQuery(rows, met), models |-> SumsByModel(rows, met),
     status |-> StatusQuery(rows, met), clients |-> ClientQuery(rows, met)]

LEMMA NothingKept == ASSUME NEW rows, WellFormed(rows), rows # <<>> PROVE Kept(rows, {}) = NoRows
<1>1. PICK x \in DOMAIN rows : TRUE
  OBVIOUS
<1>2. TotalsQuery(rows, {}) = NoTotals
  BY <1>1, FS_EmptySet, TotalsGrow
<1>3. \A key : DOMAIN key = {} => Range(key) = {}
  BY DEF Range
<1>4. SeriesQuery(rows, {}) = Empty /\ SumsByModel(rows, {}) = Empty /\ ClientQuery(rows, {}) = Empty
  BY <1>3 DEF SeriesQuery, SumsByModel, ClientQuery, Empty
<1>5. StatusQuery(rows, {}) = Empty
  BY <1>3 DEF StatusQuery, Empty
<1> QED BY <1>2, <1>4, <1>5 DEF Kept, NoRows, Timed

LEMMA KeptGrows ==
    ASSUME NEW rows, WellFormed(rows), NEW K \in SUBSET DOMAIN rows, IsFiniteSet(K),
           NEW x \in DOMAIN rows, x \notin K
    PROVE  Kept(rows, K \cup {x}) = OverRow(Kept(rows, K), rows, x)
<1> DEFINE s == Kept(rows, K)
           r == rows[x]
           bucket == r.ts \div Bucket
           status == Coalesce(r.status, 0)
<1>1. /\ s.totals = TotalsQuery(rows, K) /\ s.timed = Timed(rows, K)
      /\ s.series = SeriesQuery(rows, K) /\ s.models = SumsByModel(rows, K)
      /\ s.status = StatusQuery(rows, K) /\ s.clients = ClientQuery(rows, K)
  BY DEF Kept
<1> HIDE DEF s
<1>2. TotalsQuery(rows, K \cup {x}) = OverTotals(s.totals, r)
  BY <1>1, TotalsGrow
<1>3. Timed(rows, K \cup {x}) = s.timed \cup Timed(rows, {x})
  BY <1>1 DEF Timed
<1>4. SeriesQuery(rows, K \cup {x}) = Put(s.series, bucket, OverSeries(At(s.series, bucket, NoSeries), r))
  BY <1>1, SeriesKept
<1>5. SumsByModel(rows, K \cup {x})
          = Put(s.models, r.model, OverModel(At(s.models, r.model, NoModel), r))
  BY <1>1, ModelsKept
<1>6. StatusQuery(rows, K \cup {x})
          = IF r.outcome \in {"ok", "http_error"}
            THEN Put(s.status, status, At(s.status, status, 0) + 1) ELSE s.status
  BY <1>1, StatusKept
<1>7. ClientQuery(rows, K \cup {x}) = Put(s.clients, r.client, At(s.clients, r.client, 0) + 1)
  BY <1>1, ClientsKept
<1>8. OverRow(s, rows, x) = Kept(rows, K \cup {x})
  BY <1>2, <1>3, <1>4, <1>5, <1>6, <1>7 DEF OverRow, Kept
<1> QED BY <1>8 DEF s

\* What the recursion of the loop says.
Passes(rows, found, h) ==
    h = [n \in 0..Len(rows) |->
            IF n = 0 THEN NoRows
            ELSE IF n \in found THEN OverRow(h[n - 1], rows, n) ELSE h[n - 1]]

LEMMA PassesAre ==
    ASSUME NEW S, NEW rows \in Seq(S), WellFormed(rows), rows # <<>>, NEW found \in SUBSET DOMAIN rows
    PROVE  \E h : /\ Passes(rows, found, h)
                  /\ h[Len(rows)] = Kept(rows, found)
<1> DEFINE L == Len(rows)
           met(n) == found \cap (1..n)
           h == [n \in 0..L |-> Kept(rows, met(n))]
<1>1. L \in Nat /\ DOMAIN rows = 1..L
  OBVIOUS
<1> HIDE DEF L
<1>2. met(0) = {} /\ met(L) = found
  BY <1>1
<1>3. ASSUME NEW n \in 1..L
      PROVE  /\ met(n - 1) \in SUBSET DOMAIN rows /\ IsFiniteSet(met(n - 1))
             /\ n \in DOMAIN rows /\ n \notin met(n - 1)
             /\ n \in found => met(n) = met(n - 1) \cup {n}
             /\ n \notin found => met(n) = met(n - 1)
  <2>1. n \in Nat /\ n - 1 \in Nat /\ 1..n = (1..(n - 1)) \cup {n}
    BY <1>1
  <2>2. IsFiniteSet(1..(n - 1))
    BY <2>1, FS_Interval
  <2>3. IsFiniteSet(met(n - 1))
    BY <2>2, FS_Subset
  <2> QED BY <1>1, <2>1, <2>3
<1> HIDE DEF met
<1>4. h[0] = NoRows
  <2>1. 0 \in 0..L
    BY <1>1
  <2>2. h[0] = Kept(rows, met(0))
    BY <2>1
  <2> HIDE DEF h
  <2> QED BY <1>2, <2>2, NothingKept
<1>5. ASSUME NEW n \in 1..L
      PROVE  h[n] = IF n \in found THEN OverRow(h[n - 1], rows, n) ELSE h[n - 1]
  <2>1. h[n] = Kept(rows, met(n)) /\ h[n - 1] = Kept(rows, met(n - 1))
    BY <1>1
  <2>2. CASE n \in found
    BY <1>3, <2>1, <2>2, KeptGrows
  <2>3. CASE n \notin found
    BY <1>3, <2>1, <2>3
  <2> QED BY <2>2, <2>3
<1>6. h[L] = Kept(rows, found)
  BY <1>1, <1>2
<1>7. h = [n \in 0..L |-> h[n]]
  OBVIOUS
<1> HIDE DEF h
<1>8. h = [n \in 0..L |-> IF n = 0 THEN NoRows
                          ELSE IF n \in found THEN OverRow(h[n - 1], rows, n) ELSE h[n - 1]]
  <2>1. \A n \in 0..L : n # 0 => n \in 1..L
    BY <1>1
  <2> QED BY <1>4, <1>5, <1>7, <2>1
<1> QED BY <1>6, <1>8 DEF Passes, L

\* There is but one such function.
LEMMA PassIsOne ==
    ASSUME NEW S, NEW rows \in Seq(S), NEW found, NEW g, NEW h,
           Passes(rows, found, g), Passes(rows, found, h)
    PROVE  g[Len(rows)] = h[Len(rows)]
<1> DEFINE L == Len(rows)
           T == {n \in Nat : n <= L => g[n] = h[n]}
<1>1. L \in Nat
  OBVIOUS
<1> HIDE DEF L
<1>2. ASSUME NEW f, Passes(rows, found, f)
      PROVE  /\ f[0] = NoRows
             /\ \A n \in 1..L : f[n] = IF n \in found THEN OverRow(f[n - 1], rows, n) ELSE f[n - 1]
  <2>1. \A n \in 0..L : f[n] = IF n = 0 THEN NoRows
                               ELSE IF n \in found THEN OverRow(f[n - 1], rows, n) ELSE f[n - 1]
    BY <1>2 DEF Passes, L
  <2>2. 0 \in 0..L /\ \A n \in 1..L : n \in 0..L /\ n # 0
    BY <1>1
  <2> QED BY <2>1, <2>2
<1>3. 0 \in T
  BY <1>2
<1>4. ASSUME NEW n \in Nat, n \in T PROVE n + 1 \in T
  <2> SUFFICES ASSUME n + 1 <= L PROVE g[n + 1] = h[n + 1]
    OBVIOUS
  <2>1. n + 1 \in 1..L /\ (n + 1) - 1 = n /\ g[n] = h[n]
    BY <1>1, <1>4
  <2>2. g[n + 1] = IF n + 1 \in found THEN OverRow(g[n], rows, n + 1) ELSE g[n]
    BY <1>2, <2>1
  <2>3. h[n + 1] = IF n + 1 \in found THEN OverRow(h[n], rows, n + 1) ELSE h[n]
    BY <1>2, <2>1
  <2> QED BY <2>1, <2>2, <2>3
<1> HIDE DEF T
<1>5. L \in T
  BY <1>1, <1>3, <1>4, SetInduction
<1> QED BY <1>1, <1>5 DEF T, L

LEMMA SaidIsAsked == ASSUME NEW rows, NEW found PROVE Said(rows, Kept(rows, found)) = multi_query(rows, found)
<1> DEFINE s == Kept(rows, found)
<1>1. /\ s.totals = TotalsQuery(rows, found) /\ s.timed = Timed(rows, found)
      /\ s.series = SeriesQuery(rows, found) /\ s.models = SumsByModel(rows, found)
      /\ s.status = StatusQuery(rows, found) /\ s.clients = ClientQuery(rows, found)
  BY DEF Kept
<1> HIDE DEF s
<1>2. [m \in DOMAIN s.models |-> ByModel(m, s.models[m])] = ModelQuery(rows, found)
  BY <1>1 DEF SumsByModel, ModelQuery
<1>3. Said(rows, s) = multi_query(rows, found)
  BY <1>1, <1>2 DEF Said, multi_query
<1> QED BY <1>3 DEF s

\* The loop and the queries say the same.
LEMMA OverviewsEqual ==
    ASSUME NEW S, NEW rows \in Seq(S), WellFormed(rows), rows # <<>>, NEW found \in SUBSET DOMAIN rows
    PROVE  one_pass(rows, found) = multi_query(rows, found)
<1> DEFINE h == CHOOSE g : Passes(rows, found, g)
<1>1. PICK g : Passes(rows, found, g) /\ g[Len(rows)] = Kept(rows, found)
  BY PassesAre
<1>2. Passes(rows, found, h)
  BY <1>1
<1>3. one_pass(rows, found) = Said(rows, h[Len(rows)])
  BY DEF one_pass, Passes
<1> HIDE DEF h
<1>4. h[Len(rows)] = g[Len(rows)]
  BY <1>1, <1>2, PassIsOne
<1> QED BY <1>1, <1>3, <1>4, SaidIsAsked

\* What a row says of an exchange is what an upstream reports.
Reported(r) ==
    /\ {"usage", "duration", "model", "session", "counted"} \subseteq DOMAIN r
    /\ r.usage \in Usages /\ r.duration \in Int /\ r.model \in Models
    /\ ~r.counted => r.usage = NoUsage

\* The ids of the table are those of the first exchanges.
TableFilled ==
    /\ DOMAIN table = 1..Cardinality(DOMAIN table)
    /\ \A x \in DOMAIN table : Reported(table[x]) /\ table[x].ts \in Nat

LEMMA RowReported ==
    ASSUME NEW x, NEW ts \in Nat, NEW final, Reported(final)
    PROVE  Reported(Row(x, ts, final)) /\ Row(x, ts, final).ts \in Nat
<1> DEFINE row == Row(x, ts, final)
           F == {"usage", "duration", "model", "session", "counted"}
<1>1. F \subseteq DOMAIN final
  BY DEF Reported
<1>2. /\ F \subseteq DOMAIN row /\ row.ts = ts
      /\ row.usage = final.usage /\ row.duration = final.duration
      /\ row.model = final.model /\ row.counted = final.counted
  BY <1>1 DEF Row
<1> HIDE DEF row
<1>3. Reported(row)
  BY <1>2 DEF Reported
<1> QED BY <1>2, <1>3 DEF row

LEMMA WriteFilled ==
    ASSUME TableFilled, NEW x, NEW ts \in Nat, NEW final, Write(x, ts, final), Reported(final),
           DOMAIN table \cup {x} = 1..Cardinality(DOMAIN table \cup {x})
    PROVE  TableFilled'
<1> DEFINE new == Row(x, ts, final)
<1>1. Reported(new) /\ new.ts \in Nat
  BY RowReported
<1>2. table' = [k \in DOMAIN table \cup {x} |-> IF k = x THEN new ELSE table[k]]
  BY DEF Write, Put
<1> HIDE DEF new
<1>3. DOMAIN table' = DOMAIN table \cup {x}
  BY <1>2
<1>4. \A y \in DOMAIN table' :
          /\ y = x => table'[y] = new
          /\ y # x => y \in DOMAIN table /\ table'[y] = table[y]
  BY <1>2, <1>3
<1>5. ASSUME NEW y \in DOMAIN table' PROVE Reported(table'[y]) /\ table'[y].ts \in Nat
  BY <1>1, <1>4 DEF TableFilled
<1> QED BY <1>3, <1>5 DEF TableFilled, Reported, Usages, NoUsage, Usage

LEMMA NextFilled == IInv /\ TableFilled /\ [Next]_vars => TableFilled'
<1> SUFFICES ASSUME IInv, TableFilled, [Next]_vars PROVE TableFilled'
  OBVIOUS
<1> DEFINE n == Cardinality(DOMAIN table)
<1>1. /\ IsFiniteSet(DOMAIN table) /\ n \in Nat /\ DOMAIN table = 1..n /\ DOMAIN table \subseteq Ids
      /\ clock \in Nat
  BY FS_CardinalityType DEF IInv, Types, TableFilled
<1>2. ASSUME NEW x \in Ids, NEW final \in Finals[x] PROVE final \in Exchanges /\ Reported(final)
  <2>1. final \in Exchanges
    BY FinalsAssumption
  <2> QED BY <2>1 DEF Exchanges, Reported
<1>3. CASE Insert
  <2> DEFINE x == n + 1
             pending(final) == [final EXCEPT !.outcome = "pending", !.status = Null,
                                             !.duration = Null, !.counted = FALSE,
                                             !.usage = NoUsage]
  <2>1. x \in Ids
    BY <1>3 DEF Insert
  <2>2. PICK final \in Finals[x] : Write(x, clock, pending(final))
    BY <1>3 DEF Insert
  <2>3. final \in Exchanges /\ Reported(final)
    BY <1>2, <2>1
  <2>4. /\ DOMAIN pending(final) = DOMAIN final
        /\ pending(final).usage = NoUsage /\ pending(final).duration = Null
        /\ pending(final).model = final.model
    BY <2>3 DEF Exchanges
  <2>5. NoUsage \in Usages /\ Null \in Int
    BY NoUsageFields DEF Null
  <2> HIDE DEF pending
  <2>6. Reported(pending(final))
    BY <2>3, <2>4, <2>5 DEF Reported
  <2>7. DOMAIN table \cup {x} = 1..Cardinality(DOMAIN table \cup {x})
    <3>1. x \notin DOMAIN table /\ DOMAIN table \cup {x} = 1..(n + 1)
      BY <1>1
    <3>2. Cardinality(DOMAIN table \cup {x}) = n + 1
      BY <1>1, <3>1, FS_AddElement
    <3> QED BY <3>1, <3>2
  <2> HIDE DEF x
  <2> QED BY <1>1, <2>2, <2>6, <2>7, WriteFilled
<1>4. CASE Settle
  <2>0. PICK x \in DOMAIN table : \E final \in Finals[x] : Write(x, table[x].ts, final)
    BY <1>4 DEF Settle
  <2>1. PICK final \in Finals[x] : Write(x, table[x].ts, final)
    BY <2>0
  <2>2. Reported(final)
    BY <1>1, <1>2, <2>1
  <2>3. DOMAIN table \cup {x} = 1..Cardinality(DOMAIN table \cup {x}) /\ table[x].ts \in Nat
    BY DEF TableFilled
  <2> QED BY <2>1, <2>2, <2>3, WriteFilled
<1>5. CASE UNCHANGED table
  BY <1>5 DEF TableFilled, Reported, Usages, NoUsage, Usage
<1> QED BY <1>3, <1>4, <1>5 DEF Next, vars, Tick, Connect, Poll, Deliver, Disconnect

LEMMA InitFilled == Init => TableFilled
<1> SUFFICES ASSUME Init PROVE TableFilled
  OBVIOUS
<1>1. DOMAIN table = {} /\ Cardinality({}) = 0
  BY FS_EmptySet DEF Init, Empty
<1> QED BY <1>1 DEF TableFilled

\* The rows there are, as the summaries read them.
LEMMA RowsAre ==
    ASSUME IInv, TableFilled, NEW n, n = Cardinality(DOMAIN table)
    PROVE  /\ n \in Nat /\ DOMAIN table = 1..n /\ DOMAIN Rows = 1..n
           /\ Rows \in Seq({table[x] : x \in 1..n})
           /\ \A x \in 1..n : Rows[x] = table[x] /\ Reported(Rows[x]) /\ Rows[x].ts \in Nat
                                  /\ Rows[x].id = x
<1>1. n \in Nat /\ DOMAIN table = 1..n
  BY FS_CardinalityType DEF IInv, Types, TableFilled
<1>2. Rows = [x \in 1..n |-> table[x]]
  BY DEF Rows
<1>3. DOMAIN Rows = 1..n /\ \A x \in 1..n : Rows[x] = table[x]
  BY <1>2
<1> DEFINE S == {table[x] : x \in 1..n}
<1>4. \A x \in 1..n : table[x] \in S
  OBVIOUS
<1> HIDE DEF S
<1>5. Rows \in Seq(S)
  <2>1. Rows \in [1..n -> S]
    BY <1>2, <1>4
  <2> QED BY ONLY <1>1, <2>1
<1>6. \A x \in 1..n : Reported(table[x]) /\ table[x].ts \in Nat /\ table[x].id = x
  BY <1>1 DEF IInv, RowsStamped, TableFilled
<1> QED BY <1>1, <1>3, <1>5, <1>6 DEF S

\* The overview is the same from the loop and from the queries, for any table
\* of whatever exchanges, window, client and price list: what is said of a
\* dashboard's window does not depend on how many rows it has.
THEOREM OverviewsAlwaysAgree == Spec => []OverviewsAgree
<1>1. IInv /\ TableFilled => OverviewsAgree
  <2> SUFFICES ASSUME IInv, TableFilled, NEW w \in Windows
               PROVE  one_pass(Rows, Where(Rows, w[1], w[2]))
                          = multi_query(Rows, Where(Rows, w[1], w[2]))
    BY DEF OverviewsAgree
  <2> DEFINE n == Cardinality(DOMAIN table)
             S == {table[x] : x \in 1..n}
             found == Where(Rows, w[1], w[2])
  <2>1. Rows \in Seq(S) /\ DOMAIN Rows = 1..n /\ \A x \in 1..n : Reported(Rows[x])
    BY RowsAre
  <2>2. WellFormed(Rows)
    BY <2>1 DEF WellFormed, Reported
  <2>3. Rows # <<>>
    BY DEF Windows, ToSet
  <2>4. found \in SUBSET DOMAIN Rows
    BY DEF Where
  <2> HIDE DEF found, S
  <2>5. one_pass(Rows, found) = multi_query(Rows, found)
    BY <2>1, <2>2, <2>3, <2>4, OverviewsEqual
  <2> QED BY <2>5 DEF found
<1> QED BY StreamInvariant, <1>1, InitFilled, NextFilled, PTL DEF Spec

-----------------------------------------------------------------------------
(* Sums of parts.                                                           *)

LEMMA SumOfPart ==
    ASSUME NEW K, IsFiniteSet(K), NEW v \in [K -> Int], NEW h, Summing(v, K, h),
           NEW A \in SUBSET K, NEW w, w = [k \in A |-> v[k]]
    PROVE  SumFunction(w) = h[A]
<1>1. IsFiniteSet(A) /\ w \in [A -> Int]
  BY FS_Subset
<1>2. PICK g : Summing(w, A, g) /\ SumFunction(w) = g[A]
  BY <1>1, SumExists
<1>3. \A x \in A : w[x] = v[x]
  OBVIOUS
<1>4. g[A] = h[A]
  BY <1>1, <1>2, <1>3, SumsAgree
<1> QED BY <1>2, <1>4

LEMMA SummingOne ==
    ASSUME NEW v, NEW K, NEW h, Summing(v, K, h), NEW S, NEW x, x \notin S, S \cup {x} \in SUBSET K
    PROVE  h[S \cup {x}] = v[x] + h[S]
<1> DEFINE P == S \cup {x}
<1>1. P \in SUBSET K /\ x \in P /\ P \ {x} = S
  OBVIOUS
<1> HIDE DEF P
<1>2. h[P] = v[x] + h[P \ {x}]
  BY <1>1 DEF Summing
<1> QED BY <1>1, <1>2 DEF P

LEMMA SumOfUnion ==
    ASSUME NEW K, IsFiniteSet(K), NEW v \in [K -> Int], NEW h, Summing(v, K, h),
           NEW A \in SUBSET K, NEW B \in SUBSET K, A \cap B = {}
    PROVE  h[A \cup B] = h[A] + h[B]
<1> DEFINE T == {S \in SUBSET B : h[A \cup S] = h[A] + h[S]}
<1>1. {} \in T
  <2>1. A \cup {} = A /\ h[A] \in Int /\ h[{}] = 0
    BY DEF Summing
  <2> QED BY <2>1
<1>2. ASSUME NEW S \in SUBSET B, NEW x \in B \ S, S \in T PROVE S \cup {x} \in T
  <2>1. /\ (A \cup (S \cup {x})) \ {x} = A \cup S /\ (S \cup {x}) \ {x} = S
        /\ A \cup (S \cup {x}) \in SUBSET K /\ S \cup {x} \in SUBSET K
        /\ x \in A \cup (S \cup {x}) /\ x \in S \cup {x}
    OBVIOUS
  <2>2. h[S \cup {x}] = v[x] + h[S]
    <3>1. x \notin S /\ S \cup {x} \in SUBSET K
      BY <2>1
    <3> QED BY <3>1, SummingOne
  <2>5. h[A \cup (S \cup {x})] = v[x] + h[A \cup S]
    <3> DEFINE P == A \cup (S \cup {x})
    <3>1. P \in SUBSET K /\ x \in P /\ P \ {x} = A \cup S
      BY <2>1
    <3> HIDE DEF P
    <3>2. h[P] = v[x] + h[P \ {x}]
      BY <3>1 DEF Summing
    <3> QED BY <3>1, <3>2 DEF P
  <2>3. v[x] \in Int /\ h[A] \in Int /\ h[S] \in Int
    BY DEF Summing
  <2>4. h[A \cup S] = h[A] + h[S]
    BY <1>2
  <2> QED BY <2>2, <2>3, <2>4, <2>5
<1> HIDE DEF T
<1>3. \A S \in SUBSET B : \A x \in B \ S : S \in T => S \cup {x} \in T
  BY <1>2
<1>4. IsFiniteSet(B) /\ {} \in T
  BY <1>1, FS_Subset
<1>5. SUBSET B \subseteq T
  BY ONLY <1>3, <1>4, FiniteInduction
<1> QED BY <1>5 DEF T

\* The sum over a set is that of the sums over its groups.
LEMMA SumOfGroups ==
    ASSUME NEW K, IsFiniteSet(K), NEW v \in [K -> Int], NEW key, key = [k \in K |-> key[k]],
           NEW u, u = [t \in Range(key) |-> SumFunction([k \in Group(key, t) |-> v[k]])]
    PROVE  SumFunction(u) = SumFunction(v)
<1> DEFINE R == Range(key)
           J(S) == {k \in K : key[k] \in S}
<1>1. PICK h : Summing(v, K, h) /\ SumFunction(v) = h[K]
  BY SumExists
<1>2. \A t : Group(key, t) \in SUBSET K
  BY DEF Group
<1>3. ASSUME NEW t \in R PROVE u[t] = h[Group(key, t)] /\ u[t] \in Int
  <2> DEFINE w == [k \in Group(key, t) |-> v[k]]
  <2>1. u[t] = SumFunction(w)
    OBVIOUS
  <2>2. SumFunction(w) = h[Group(key, t)]
    <3>1. w = [k \in Group(key, t) |-> v[k]] /\ Group(key, t) \in SUBSET K
      BY <1>2
    <3> HIDE DEF w
    <3> QED BY <1>1, <3>1, SumOfPart
  <2>3. h[Group(key, t)] \in Int
    BY <1>1, <1>2 DEF Summing
  <2> QED BY <2>1, <2>2, <2>3
<1>4. IsFiniteSet(R)
  <2>1. key \in Surjection(K, R)
    BY DEF Surjection, Range
  <2> QED BY <2>1, FS_Surjection
<1>5. DOMAIN u = R /\ u \in [R -> Int]
  BY <1>3
<1> HIDE DEF R
<1>6. PICK g : Summing(u, R, g) /\ SumFunction(u) = g[R]
  BY <1>4, <1>5, SumExists
<1> DEFINE T == {S \in SUBSET R : g[S] = h[J(S)]}
<1>7. {} \in T
  <2>1. J({}) = {}
    OBVIOUS
  <2> QED BY <1>1, <1>6, <2>1 DEF Summing
<1>8. ASSUME NEW S \in SUBSET R, NEW x \in R \ S, S \in T PROVE S \cup {x} \in T
  <2>1. /\ J(S \cup {x}) = J(S) \cup Group(key, x)
        /\ J(S) \cap Group(key, x) = {}
        /\ J(S) \in SUBSET K /\ Group(key, x) \in SUBSET K
    BY DEF Group
  <2>2. h[J(S) \cup Group(key, x)] = h[J(S)] + h[Group(key, x)]
    <3> DEFINE A == J(S)
               B == Group(key, x)
    <3>1. A \in SUBSET K /\ B \in SUBSET K /\ A \cap B = {}
      BY <2>1
    <3> HIDE DEF A, B
    <3>2. h[A \cup B] = h[A] + h[B]
      BY <1>1, <3>1, SumOfUnion
    <3> QED BY <3>2 DEF A, B
  <2> HIDE DEF J
  <2>3. x \notin S /\ S \cup {x} \in SUBSET R
    OBVIOUS
  <2>4. g[S \cup {x}] = u[x] + g[S]
    BY <1>6, <2>3, SummingOne
  <2>5. u[x] = h[Group(key, x)] /\ g[S] = h[J(S)]
    BY <1>3, <1>8
  <2>6. h[J(S)] \in Int /\ h[Group(key, x)] \in Int
    BY <1>1, <2>1 DEF Summing
  <2>7. h[J(S \cup {x})] = h[J(S) \cup Group(key, x)]
    BY <2>1
  <2>8. g[S \cup {x}] = h[J(S \cup {x})]
    BY <2>2, <2>4, <2>5, <2>6, <2>7
  <2>9. S \cup {x} \in SUBSET R
    BY <2>3
  <2> QED BY <2>8, <2>9
<1> HIDE DEF T
<1>9. R \in T
  BY <1>4, <1>7, <1>8, FiniteInduction
<1>10. J(R) = K
  BY DEF R, Range
<1> QED BY <1>1, <1>6, <1>9, <1>10 DEF T

Numbered(w, J, v, K, order) ==
    /\ order \in [J -> K]
    /\ \A i, j \in J : order[i] = order[j] => i = j
    /\ w = [j \in J |-> v[order[j]]]
Elements(order, J) == {order[j] : j \in J}

\* ... and does not depend on how its elements are numbered.
LEMMA SumOfImage ==
    ASSUME NEW K, IsFiniteSet(K), NEW v \in [K -> Int], NEW h, Summing(v, K, h),
           NEW J, IsFiniteSet(J), NEW order, NEW w, Numbered(w, J, v, K, order)
    PROVE  SumFunction(w) = h[Elements(order, J)]
<1> DEFINE I(S) == {order[j] : j \in S}
<1>1. w \in [J -> Int]
  BY DEF Numbered
<1>2. PICK g : Summing(w, J, g) /\ SumFunction(w) = g[J]
  BY <1>1, SumExists
<1> DEFINE T == {S \in SUBSET J : g[S] = h[I(S)]}
<1>3. {} \in T
  <2>1. I({}) = {}
    OBVIOUS
  <2> QED BY <1>2, <2>1 DEF Summing
<1>4. ASSUME NEW S \in SUBSET J, NEW x \in J \ S, S \in T PROVE S \cup {x} \in T
  <2>1. /\ I(S) \cup {order[x]} \in SUBSET K /\ order[x] \notin I(S)
        /\ I(S \cup {x}) = I(S) \cup {order[x]}
    BY DEF Numbered
  <2> HIDE DEF I
  <2>2. h[I(S) \cup {order[x]}] = v[order[x]] + h[I(S)]
    <3> DEFINE y == order[x]
               P == I(S)
    <3>1. y \notin P /\ P \cup {y} \in SUBSET K
      BY <2>1
    <3> HIDE DEF y, P
    <3>2. (P \cup {y}) \ {y} = P /\ y \in P \cup {y} /\ P \cup {y} \in SUBSET K
      BY <3>1
    <3>3. h[P \cup {y}] = v[y] + h[P]
      BY <3>2 DEF Summing
    <3> QED BY <3>3 DEF y, P
  <2>3. x \notin S /\ S \cup {x} \in SUBSET J
    OBVIOUS
  <2>4. g[S \cup {x}] = w[x] + g[S]
    BY <1>2, <2>3, SummingOne
  <2>5. w[x] = v[order[x]] /\ g[S] = h[I(S)]
    BY <1>4 DEF Numbered
  <2> QED BY <2>1, <2>2, <2>4, <2>5
<1> HIDE DEF T
<1>5. J \in T
  BY <1>3, <1>4, FiniteInduction
<1> QED BY <1>2, <1>5 DEF T, Elements

-----------------------------------------------------------------------------
(* Prices.  What tokens cost is linear in their numbers, so that the tokens *)
(* of several requests may be summed up before they are priced.             *)

LEMMA PriceType == ASSUME NEW m \in Models PROVE price[m] \in [Rates -> Int]
<1> DEFINE fits == {k \in DOMAIN Entries : m \in Entries[k].names}
           Better(k, j) == \/ Entries[k].length > Entries[j].length
                           \/ Entries[k].length = Entries[j].length /\ k <= j
           best == CHOOSE k \in fits : \A j \in fits : Better(k, j)
<1>1. /\ DOMAIN Entries = 1..Len(Entries) /\ Len(Entries) \in Nat
      /\ \A k \in DOMAIN Entries : Entries[k].length \in Nat /\ Entries[k].price \in [Rates -> Int]
  <2> DEFINE E == [names : SUBSET Models, length : Nat \ {0}, price : [Rates -> Int]]
  <2>1. \A e \in E : e.length \in Nat /\ e.price \in [Rates -> Int]
    OBVIOUS
  <2>2. Entries \in Seq(E)
    BY PricingAssumption
  <2> HIDE DEF E
  <2>3. DOMAIN Entries = 1..Len(Entries) /\ Len(Entries) \in Nat
    BY <2>2
  <2>4. \A k \in DOMAIN Entries : Entries[k] \in E
    BY <2>2, <2>3
  <2> QED BY <2>1, <2>3, <2>4
<1>2. price[m] = IF fits = {} THEN FALLBACK ELSE Entries[best].price
  BY DEF price
<1>3. IsFiniteSet(fits)
  <2>1. IsFiniteSet(1..Len(Entries))
    BY <1>1, FS_Interval
  <2>2. fits \subseteq 1..Len(Entries)
    BY <1>1
  <2> QED BY <2>1, <2>2, FS_Subset
<1> DEFINE T == {S \in SUBSET fits : S # {} => \E k \in S : \A j \in S : Better(k, j)}
<1>4. {} \in T
  OBVIOUS
<1>5. ASSUME NEW S \in SUBSET fits, NEW x \in fits \ S, S \in T PROVE S \cup {x} \in T
  <2>0. \A k \in fits : k \in Int /\ Entries[k].length \in Int
    BY <1>1
  <2>1. CASE S = {}
    <3>1. \A j \in S \cup {x} : Better(x, j)
      BY <2>0, <2>1
    <3> QED BY <3>1
  <2>2. CASE S # {}
    <3>1. PICK k \in S : \A j \in S : Better(k, j)
      BY <1>5, <2>2
    <3>2. CASE Better(k, x)
      <4>1. \A j \in S \cup {x} : Better(k, j)
        BY <3>1, <3>2
      <4> QED BY <4>1
    <3>3. CASE ~Better(k, x)
      <4>1. \A j \in S \cup {x} : Better(x, j)
        BY <2>0, <3>1, <3>3
      <4> QED BY <4>1
    <3> QED BY <3>2, <3>3
  <2> QED BY <2>1, <2>2
<1>6. fits \in T
  <2>1. \A S \in SUBSET fits : \A x \in fits \ S : S \in T => S \cup {x} \in T
    BY <1>5
  <2> HIDE DEF Better, T, fits
  <2>2. SUBSET fits \subseteq T
    BY ONLY <1>3, <1>4, <2>1, FiniteInduction
  <2> QED BY <2>2
<1> HIDE DEF Better, T
<1>7. CASE fits = {}
  BY <1>2, <1>7, PricingAssumption
<1>8. CASE fits # {}
  <2>1. \E k \in fits : \A j \in fits : Better(k, j)
    BY <1>6, <1>8 DEF T
  <2>2. best \in fits
    BY <2>1
  <2> HIDE DEF best
  <2>3. best \in DOMAIN Entries
    BY <2>2
  <2> QED BY <1>1, <1>2, <1>8, <2>3
<1> QED BY <1>7, <1>8

LEMMA ReadingLinear ==
    ASSUME NEW i \in Int, NEW k \in Int, NEW c \in Int,
           NEW x \in Int, NEW y \in Int, NEW z \in Int, NEW n \in Int
    PROVE  ((i - k) * x + k * y + c * z) * n = i * (x * n) + k * ((y - x) * n) + c * (z * n)
  BY Z3

LEMMA WritingLinear ==
    ASSUME NEW o \in Int, NEW k \in Int, NEW x \in Int, NEW y \in Int, NEW n \in Int
    PROVE  ((o - k) * x + k * y) * n = o * (x * n) + k * ((y - x) * n)
  BY Z3

LEMMA LinearAdds ==
    ASSUME NEW i \in Int, NEW j \in Int, NEW a \in Int
    PROVE  (i + j) * a = i * a + j * a /\ i * a \in Int /\ j * a \in Int
  BY Z3

\* The weights of the five counts.
Weights(m, long, a) ==
    \A u \in Usages :
        estimate_for_context(m, u, long)
            = (u.input * a[1] + u.cached * a[2] + u.cache_creation * a[3])
                  + (u.output * a[4] + u.reasoning * a[5])

LEMMA EstimateIsLinear ==
    ASSUME NEW m \in Models, NEW long \in BOOLEAN
    PROVE  \E a \in [1..5 -> Int] : Weights(m, long, a)
<1> DEFINE p    == price[m]
           rate == IF p.reasoning > 0 THEN p.reasoning ELSE p.output
           M    == IF long THEN p.input_multiplier ELSE 1
           N    == IF long THEN p.output_multiplier ELSE 1
<1>1. /\ p.input \in Int /\ p.output \in Int /\ p.cache_read \in Int /\ p.cache_creation \in Int
      /\ rate \in Int /\ M \in Int /\ N \in Int
  BY PriceType DEF Rates
<1> DEFINE w1 == p.input * M
           w2 == (p.cache_read - p.input) * M
           w3 == p.cache_creation * M
           w4 == p.output * N
           w5 == (rate - p.output) * N
           a  == [n \in 1..5 |-> CASE n = 1 -> w1 [] n = 2 -> w2 [] n = 3 -> w3
                                   [] n = 4 -> w4 [] OTHER -> w5]
<1>2. ASSUME NEW u \in Usages
      PROVE  estimate_for_context(m, u, long)
                 = ((u.input - u.cached) * p.input + u.cached * p.cache_read
                        + u.cache_creation * p.cache_creation) * M
                   + ((u.output - u.reasoning) * p.output + u.reasoning * rate) * N
  <2>1. /\ u.input \in Nat /\ u.output \in Nat /\ u.cached \in Nat /\ u.cache_creation \in Nat
        /\ u.reasoning \in Nat /\ u.cached <= u.input /\ u.reasoning <= u.output
    BY DEF Usages
  <2>2. /\ positive(u.input) = u.input /\ positive(u.output) = u.output
        /\ positive(u.cache_creation) = u.cache_creation
    BY <2>1 DEF positive
  <2>3. clamp(u.cached, u.input) = u.cached /\ clamp(u.reasoning, u.output) = u.reasoning
    BY <2>1 DEF clamp
  <2> QED BY <2>2, <2>3 DEF estimate_for_context
<1>3. ASSUME NEW u \in Usages
      PROVE  /\ u.input \in Int /\ u.output \in Int /\ u.cached \in Int /\ u.cache_creation \in Int
             /\ u.reasoning \in Int
  BY DEF Usages
<1> HIDE DEF p, rate, M, N
<1>4. w1 \in Int /\ w2 \in Int /\ w3 \in Int /\ w4 \in Int /\ w5 \in Int
  BY <1>1
<1>5. ASSUME NEW u \in Usages
      PROVE  estimate_for_context(m, u, long)
                 = (u.input * w1 + u.cached * w2 + u.cache_creation * w3)
                       + (u.output * w4 + u.reasoning * w5)
  <2>1. ((u.input - u.cached) * p.input + u.cached * p.cache_read
             + u.cache_creation * p.cache_creation) * M
        = u.input * w1 + u.cached * w2 + u.cache_creation * w3
    BY <1>1, <1>3, ReadingLinear
  <2>2. ((u.output - u.reasoning) * p.output + u.reasoning * rate) * N
        = u.output * w4 + u.reasoning * w5
    BY <1>1, <1>3, WritingLinear
  <2> QED BY <1>2, <2>1, <2>2
<1> HIDE DEF w1, w2, w3, w4, w5
<1>6. a \in [1..5 -> Int] /\ a[1] = w1 /\ a[2] = w2 /\ a[3] = w3 /\ a[4] = w4 /\ a[5] = w5
  BY <1>4
<1> HIDE DEF a
<1>7. Weights(m, long, a)
  BY <1>5, <1>6 DEF Weights
<1> QED BY <1>6, <1>7

LEMMA UsagesAdd ==
    ASSUME NEW u \in Usages, NEW w \in Usages
    PROVE  /\ Plus(u, w) \in Usages
           /\ Plus(u, w).input = u.input + w.input /\ Plus(u, w).output = u.output + w.output
           /\ Plus(u, w).cached = u.cached + w.cached
           /\ Plus(u, w).cache_creation = u.cache_creation + w.cache_creation
           /\ Plus(u, w).reasoning = u.reasoning + w.reasoning
<1> DEFINE F == {"input", "output", "cached", "cache_creation", "reasoning"}
           s == Plus(u, w)
<1>1. s = [field \in F |-> u[field] + w[field]]
  BY DEF Plus, Usages
<1>2. /\ u \in [F -> Nat] /\ u.cached <= u.input /\ u.reasoning <= u.output
      /\ w \in [F -> Nat] /\ w.cached <= w.input /\ w.reasoning <= w.output
  BY DEF Usages
<1>3. /\ s.input = u.input + w.input /\ s.output = u.output + w.output
      /\ s.cached = u.cached + w.cached /\ s.reasoning = u.reasoning + w.reasoning
      /\ s.cache_creation = u.cache_creation + w.cache_creation
  BY <1>1
<1>4. s \in [F -> Nat]
  BY <1>1, <1>2
<1> HIDE DEF s
<1>5. s.cached <= s.input /\ s.reasoning <= s.output
  BY <1>2, <1>3
<1>6. s \in Usages
  BY <1>4, <1>5 DEF Usages
<1> QED BY <1>3, <1>6 DEF s

LEMMA EstimateAdds ==
    ASSUME NEW m \in Models, NEW long \in BOOLEAN, NEW u \in Usages, NEW w \in Usages
    PROVE  /\ estimate_for_context(m, u, long) \in Int
           /\ estimate_for_context(m, Plus(u, w), long)
                  = estimate_for_context(m, u, long) + estimate_for_context(m, w, long)
<1>1. PICK a \in [1..5 -> Int] : Weights(m, long, a)
  BY EstimateIsLinear
<1> DEFINE s == Plus(u, w)
<1>2. /\ s \in Usages
      /\ s.input = u.input + w.input /\ s.output = u.output + w.output
      /\ s.cached = u.cached + w.cached /\ s.reasoning = u.reasoning + w.reasoning
      /\ s.cache_creation = u.cache_creation + w.cache_creation
  BY UsagesAdd
<1> HIDE DEF s
<1>3. ASSUME NEW v \in Usages
      PROVE  /\ v.input \in Int /\ v.output \in Int /\ v.cached \in Int
             /\ v.cache_creation \in Int /\ v.reasoning \in Int
  BY DEF Usages
<1>4. a[1] \in Int /\ a[2] \in Int /\ a[3] \in Int /\ a[4] \in Int /\ a[5] \in Int
  BY <1>1
<1>5. /\ s.input * a[1] = u.input * a[1] + w.input * a[1]
      /\ u.input * a[1] \in Int /\ w.input * a[1] \in Int
  BY <1>2, <1>3, <1>4, LinearAdds
<1>6. /\ s.cached * a[2] = u.cached * a[2] + w.cached * a[2]
      /\ u.cached * a[2] \in Int /\ w.cached * a[2] \in Int
  BY <1>2, <1>3, <1>4, LinearAdds
<1>7. /\ s.cache_creation * a[3] = u.cache_creation * a[3] + w.cache_creation * a[3]
      /\ u.cache_creation * a[3] \in Int /\ w.cache_creation * a[3] \in Int
  BY <1>2, <1>3, <1>4, LinearAdds
<1>8. /\ s.output * a[4] = u.output * a[4] + w.output * a[4]
      /\ u.output * a[4] \in Int /\ w.output * a[4] \in Int
  BY <1>2, <1>3, <1>4, LinearAdds
<1>9. /\ s.reasoning * a[5] = u.reasoning * a[5] + w.reasoning * a[5]
      /\ u.reasoning * a[5] \in Int /\ w.reasoning * a[5] \in Int
  BY <1>2, <1>3, <1>4, LinearAdds
<1>10. /\ estimate_for_context(m, u, long)
             = (u.input * a[1] + u.cached * a[2] + u.cache_creation * a[3])
                   + (u.output * a[4] + u.reasoning * a[5])
       /\ estimate_for_context(m, w, long)
             = (w.input * a[1] + w.cached * a[2] + w.cache_creation * a[3])
                   + (w.output * a[4] + w.reasoning * a[5])
       /\ estimate_for_context(m, s, long)
             = (s.input * a[1] + s.cached * a[2] + s.cache_creation * a[3])
                   + (s.output * a[4] + s.reasoning * a[5])
  BY <1>1, <1>2 DEF Weights
<1> QED BY <1>5, <1>6, <1>7, <1>8, <1>9, <1>10 DEF s

LEMMA EstimateOfNone ==
    ASSUME NEW m \in Models, NEW long \in BOOLEAN
    PROVE  estimate_for_context(m, NoUsage, long) = 0
<1>1. PICK a \in [1..5 -> Int] : Weights(m, long, a)
  BY EstimateIsLinear
<1>2. /\ NoUsage \in Usages /\ NoUsage.input = 0 /\ NoUsage.output = 0 /\ NoUsage.cached = 0
      /\ NoUsage.cache_creation = 0 /\ NoUsage.reasoning = 0
  BY NoUsageFields DEF NoUsage, Usage
<1>3. /\ 0 * a[1] = 0 /\ 0 * a[2] = 0 /\ 0 * a[3] = 0 /\ 0 * a[4] = 0 /\ 0 * a[5] = 0
  BY <1>1
<1> QED BY <1>1, <1>2, <1>3 DEF Weights

-----------------------------------------------------------------------------
(* Costs of a window.                                                       *)

CostEach(rows, k) == estimate(rows[k].model, rows[k].usage)

Priceable(rows) ==
    /\ WellFormed(rows)
    /\ IsFiniteSet(DOMAIN rows)
    /\ \A k \in DOMAIN rows : rows[k].model \in Models

\* h gives the cost of each set of rows, one by one.
Costing(rows, h) == Summing([k \in DOMAIN rows |-> CostEach(rows, k)], DOMAIN rows, h)

LEMMA CostType ==
    ASSUME NEW rows, Priceable(rows), NEW k \in DOMAIN rows
    PROVE  CostEach(rows, k) \in Int
<1>1. rows[k].model \in Models /\ rows[k].usage \in Usages
  BY DEF Priceable, WellFormed
<1>2. is_long(rows[k].model, rows[k].usage.input) \in BOOLEAN
  BY DEF is_long
<1>3. estimate_for_context(rows[k].model, rows[k].usage,
                           is_long(rows[k].model, rows[k].usage.input)) \in Int
  BY <1>1, <1>2, EstimateAdds
<1> QED BY <1>3 DEF CostEach, estimate

\* Summed up and then priced, tokens of one tier cost what they cost one by one.
LEMMA TierCost ==
    ASSUME NEW rows, Priceable(rows), NEW m \in Models, NEW long \in BOOLEAN,
           NEW S \in SUBSET DOMAIN rows, NEW g,
           Summing([k \in DOMAIN rows |-> estimate_for_context(m, rows[k].usage, long)],
                   DOMAIN rows, g)
    PROVE  estimate_for_context(m, Sums(rows, S), long) = g[S]
<1> DEFINE v == [k \in DOMAIN rows |-> estimate_for_context(m, rows[k].usage, long)]
           T == {s \in SUBSET S : /\ Sums(rows, s) \in Usages
                                  /\ estimate_for_context(m, Sums(rows, s), long) = g[s]}
<1>1. Summing(v, DOMAIN rows, g)
  OBVIOUS
<1>2. {} \in T
  <2>1. Sums(rows, {}) = NoUsage /\ NoUsage \in Usages
    BY SumsOfNone, NoUsageFields
  <2>2. estimate_for_context(m, NoUsage, long) = 0
    BY EstimateOfNone
  <2>3. g[{}] = 0
    BY <1>1 DEF Summing
  <2> QED BY <2>1, <2>2, <2>3
<1>3. ASSUME NEW s \in SUBSET S, NEW x \in S \ s, s \in T PROVE s \cup {x} \in T
  <2> DEFINE a == Sums(rows, s)
             u == rows[x].usage
  <2>1. a \in Usages /\ estimate_for_context(m, a, long) = g[s]
    BY <1>3
  <2>2. WellFormed(rows) /\ x \in DOMAIN rows /\ u \in Usages /\ IsFiniteSet(s) /\ s \in SUBSET DOMAIN rows
    BY FS_Subset DEF Priceable, WellFormed
  <2>3. Sums(rows, s \cup {x}) = Plus(a, u)
    BY <2>2, SumsGrow
  <2>4. v[x] = estimate_for_context(m, u, long)
    BY <2>2
  <2> HIDE DEF v, a, u
  <2>5. g[s \cup {x}] = v[x] + g[s]
    BY <1>1, SummingOne
  <2>6. Plus(a, u) \in Usages
    BY <2>1, <2>2, UsagesAdd
  <2>7. /\ estimate_for_context(m, a, long) \in Int /\ estimate_for_context(m, u, long) \in Int
        /\ estimate_for_context(m, Plus(a, u), long)
               = estimate_for_context(m, a, long) + estimate_for_context(m, u, long)
    BY <2>1, <2>2, EstimateAdds
  <2>8. estimate_for_context(m, Plus(a, u), long) = g[s \cup {x}]
    BY <2>1, <2>4, <2>5, <2>7
  <2> QED BY <2>3, <2>6, <2>8
<1>4. IsFiniteSet(S)
  BY FS_Subset DEF Priceable
<1>5. \A s \in SUBSET S : \A x \in S \ s : s \in T => s \cup {x} \in T
  BY <1>3
<1> HIDE DEF T
<1>6. SUBSET S \subseteq T
  BY ONLY <1>2, <1>4, <1>5, FiniteInduction
<1>7. S \in T
  BY <1>6
<1> QED BY <1>7 DEF T

OfModel(rows, G, m) == \A k \in G : rows[k].model = m
OfTier(rows, S, long) == \A k \in S : Tier(rows, k) = long

\* One tier of a model.
LEMMA TierCostsEach ==
    ASSUME NEW rows, Priceable(rows), NEW h, Costing(rows, h), NEW m \in Models,
           NEW long \in BOOLEAN, NEW S \in SUBSET DOMAIN rows,
           OfModel(rows, S, m), OfTier(rows, S, long)
    PROVE  estimate_for_context(m, Sums(rows, S), long) = h[S]
<1> DEFINE v == [k \in DOMAIN rows |-> estimate_for_context(m, rows[k].usage, long)]
           c == [k \in DOMAIN rows |-> CostEach(rows, k)]
<1>1. v \in [DOMAIN rows -> Int]
  <2> SUFFICES ASSUME NEW k \in DOMAIN rows
               PROVE  estimate_for_context(m, rows[k].usage, long) \in Int
    OBVIOUS
  <2>1. rows[k].usage \in Usages
    BY DEF Priceable, WellFormed
  <2> QED BY <2>1, EstimateAdds
<1>2. \A k \in S : v[k] = c[k]
  BY DEF CostEach, estimate, Tier, OfModel, OfTier
<1>3. Summing(c, DOMAIN rows, h)
  BY DEF Costing
<1>4. IsFiniteSet(DOMAIN rows) /\ IsFiniteSet(S)
  BY FS_Subset DEF Priceable
<1> DEFINE K == DOMAIN rows
<1>5. PICK g : Summing(v, K, g)
  <2> HIDE DEF v, K
  <2> QED BY <1>1, <1>4, SumExists DEF K
<1>6. estimate_for_context(m, Sums(rows, S), long) = g[S]
  BY <1>5, TierCost
<1> HIDE DEF v, c
<1>7. g[S] = h[S]
  BY <1>2, <1>3, <1>4, <1>5, SumsAgree
<1> QED BY <1>6, <1>7

LEMMA CostOfUnion ==
    ASSUME NEW rows, Priceable(rows), NEW h, Costing(rows, h),
           NEW A \in SUBSET DOMAIN rows, NEW B \in SUBSET DOMAIN rows, A \cap B = {}
    PROVE  h[A \cup B] = h[A] + h[B]
<1> DEFINE c == [k \in DOMAIN rows |-> CostEach(rows, k)]
<1>1. Summing(c, DOMAIN rows, h) /\ IsFiniteSet(DOMAIN rows)
  BY DEF Costing, Priceable
<1>2. c \in [DOMAIN rows -> Int]
  BY CostType
<1> HIDE DEF c
<1> QED BY <1>1, <1>2, SumOfUnion

LEMMA CostOfGroup ==
    ASSUME NEW rows, Priceable(rows), NEW h, Costing(rows, h), NEW m \in Models,
           NEW G \in SUBSET DOMAIN rows, OfModel(rows, G, m)
    PROVE  CostOf(m, ModelSums(rows, G)) = h[G]
<1> DEFINE A == {k \in G : Tier(rows, k) = FALSE}
           B == {k \in G : Tier(rows, k) = TRUE}
<1>1. \A k \in G : Tier(rows, k) \in BOOLEAN
  BY DEF Tier, is_long
<1>2. A \cap B = {} /\ A \in SUBSET DOMAIN rows /\ B \in SUBSET DOMAIN rows
  BY <1>1
<1>8. A \cup B = G
  BY <1>1
<1>3. ASSUME NEW t \in BOOLEAN
      PROVE  LET S == {k \in G : Tier(rows, k) = t}
             IN  estimate_for_context(m, Sums(rows, S), t) = h[S]
  <2> DEFINE S == {k \in G : Tier(rows, k) = t}
  <2>1. S \in SUBSET DOMAIN rows /\ OfModel(rows, S, m) /\ OfTier(rows, S, t)
    BY DEF OfModel, OfTier
  <2> HIDE DEF S
  <2>2. estimate_for_context(m, Sums(rows, S), t) = h[S]
    BY <2>1, TierCostsEach
  <2> QED BY <2>2 DEF S
<1>4. CostOf(m, ModelSums(rows, G))
          = estimate_for_context(m, Sums(rows, A), FALSE) + estimate_for_context(m, Sums(rows, B), TRUE)
  BY DEF CostOf, ModelSums, TierSums
<1>5. estimate_for_context(m, Sums(rows, A), FALSE) = h[A]
  BY <1>3
<1>6. estimate_for_context(m, Sums(rows, B), TRUE) = h[B]
  BY <1>3
<1> HIDE DEF A, B
<1>7. h[A \cup B] = h[A] + h[B]
  BY <1>2, CostOfUnion
<1> QED BY <1>4, <1>5, <1>6, <1>7, <1>8

CostColumn(rows, S, w) == w = [k \in S |-> CostEach(rows, k)]

LEMMA CostOfPart ==
    ASSUME NEW rows, Priceable(rows), NEW h, Costing(rows, h), NEW S \in SUBSET DOMAIN rows,
           NEW w, CostColumn(rows, S, w)
    PROVE  SumFunction(w) = h[S] /\ w \in [S -> Int] /\ IsFiniteSet(S)
<1> DEFINE c == [k \in DOMAIN rows |-> CostEach(rows, k)]
<1>1. Summing(c, DOMAIN rows, h) /\ IsFiniteSet(DOMAIN rows)
  BY DEF Costing, Priceable
<1>2. c \in [DOMAIN rows -> Int]
  BY CostType
<1>3. w = [k \in S |-> c[k]] /\ w \in [S -> Int]
  BY CostType DEF CostColumn
<1> HIDE DEF c
<1>4. SumFunction(w) = h[S]
  BY <1>1, <1>2, <1>3, SumOfPart
<1> QED BY <1>1, <1>3, <1>4, FS_Subset

LEMMA OverviewCost ==
    ASSUME NEW rows, Priceable(rows), NEW h, Costing(rows, h), NEW found \in SUBSET DOMAIN rows
    PROVE  multi_query(rows, found).cost = h[found]
<1> DEFINE model == [k \in found |-> rows[k].model]
           w == [k \in found |-> CostEach(rows, k)]
           u == [m \in Range(model) |-> SumFunction([k \in Group(model, m) |-> w[k]])]
           by == ModelQuery(rows, found)
<1>1. multi_query(rows, found).cost = SumFunction([m \in DOMAIN by |-> by[m].cost])
  BY DEF multi_query, Overview
<1>2. DOMAIN by = Range(model) /\ \A m \in Range(model) :
          by[m].cost = CostOf(m, ModelSums(rows, Group(model, m)))
  BY DEF ModelQuery, ByModel
<1>3. ASSUME NEW m \in Range(model)
      PROVE  CostOf(m, ModelSums(rows, Group(model, m))) = u[m]
  <2> DEFINE G == Group(model, m)
             part == [k \in G |-> w[k]]
  <2>1. /\ G \in SUBSET DOMAIN rows /\ OfModel(rows, G, m)
        /\ \A k \in G : w[k] = CostEach(rows, k)
    BY DEF Group, OfModel
  <2>2. m \in Models
    BY DEF Range, Priceable
  <2>3. CostColumn(rows, G, part) /\ u[m] = SumFunction(part)
    BY <2>1 DEF CostColumn
  <2> HIDE DEF G, part, u
  <2>4. CostOf(m, ModelSums(rows, G)) = h[G]
    BY <2>1, <2>2, CostOfGroup
  <2>5. SumFunction(part) = h[G]
    BY <2>1, <2>3, CostOfPart
  <2> QED BY <2>3, <2>4, <2>5 DEF G
<1>4. [m \in DOMAIN by |-> by[m].cost] = u
  BY <1>2, <1>3
<1>5. SumFunction(w) = h[found] /\ w \in [found -> Int] /\ IsFiniteSet(found)
  <2>1. CostColumn(rows, found, w)
    BY DEF CostColumn
  <2> HIDE DEF w
  <2> QED BY <2>1, CostOfPart
<1>6. model = [k \in found |-> model[k]]
  OBVIOUS
<1> HIDE DEF model, w, by
<1>7. SumFunction(u) = SumFunction(w)
  BY <1>5, <1>6, SumOfGroups
<1> QED BY <1>1, <1>4, <1>5, <1>7

\* The rows without a session and those with one.
Alone(rows, found) == {k \in found : rows[k].session = ""}
Shared(rows, found) == {k \in found : rows[k].session # ""}

SessionCosts(sessions) == [s \in DOMAIN sessions |-> sessions[s].cost]

LEMMA SessionsCost ==
    ASSUME NEW rows, Priceable(rows), NEW h, Costing(rows, h), NEW since, NEW client
    PROVE  SumFunction(SessionCosts(build_sessions(rows, since, client)))
               = h[Shared(rows, Where(rows, since, client))]
<1> DEFINE found == Shared(rows, Where(rows, since, client))
           sessions == build_sessions(rows, since, client)
           session == [k \in found |-> rows[k].session]
           w == [k \in found |-> CostEach(rows, k)]
           u == [s \in Range(session) |-> SumFunction([k \in Group(session, s) |-> w[k]])]
<1>1. DOMAIN sessions = Range(session) /\ \A s \in Range(session) :
          sessions[s].cost = SumFunction([k \in Group(session, s) |-> CostEach(rows, k)])
  BY DEF build_sessions, CostEach, Shared
<1>2. \A s : [k \in Group(session, s) |-> CostEach(rows, k)] = [k \in Group(session, s) |-> w[k]]
  BY DEF Group
<1>3. SessionCosts(sessions) = u
  BY <1>1, <1>2 DEF SessionCosts
<1>4. found \in SUBSET DOMAIN rows
  BY DEF Where, Shared
<1> HIDE DEF found
<1>5. SumFunction(w) = h[found] /\ w \in [found -> Int] /\ IsFiniteSet(found)
  <2>1. CostColumn(rows, found, w)
    BY DEF CostColumn
  <2> HIDE DEF w
  <2> QED BY <1>4, <2>1, CostOfPart
<1>6. session = [k \in found |-> session[k]]
  OBVIOUS
<1> HIDE DEF session, w
<1>0. u = [t \in Range(session) |-> SumFunction([k \in Group(session, t) |-> w[k]])]
  OBVIOUS
<1> HIDE DEF u
<1>7. SumFunction(u) = SumFunction(w)
  BY ONLY <1>0, <1>5, <1>6, SumOfGroups
<1> QED BY <1>3, <1>5, <1>7 DEF found

-----------------------------------------------------------------------------
(* The list, and its pages.                                                 *)

Newer(rows, k, j) ==
    \/ rows[k].ts > rows[j].ts
    \/ rows[k].ts = rows[j].ts /\ rows[k].id > rows[j].id

\* The rows of a table: known by their place.
Placed(rows) ==
    /\ DOMAIN rows \subseteq Nat
    /\ \A k \in DOMAIN rows : rows[k].ts \in Nat /\ rows[k].id = k

Sorted(rows, found, order) ==
    /\ order \in [1..Cardinality(found) -> found]
    /\ \A j, k \in 1..Cardinality(found) : j < k => Newer(rows, order[j], order[k])

LEMMA Oldest ==
    ASSUME NEW rows, Placed(rows), NEW found \in SUBSET DOMAIN rows, IsFiniteSet(found), found # {}
    PROVE  \E k \in found : \A j \in found \ {k} : Newer(rows, j, k)
<1> DEFINE T == {S \in SUBSET found : S # {} => \E k \in S : \A j \in S \ {k} : Newer(rows, j, k)}
<1>1. \A j, k \in found : j # k => Newer(rows, j, k) \/ Newer(rows, k, j)
  BY DEF Placed, Newer
<1>2. \A i, j, k \in found : Newer(rows, i, j) /\ Newer(rows, j, k) => Newer(rows, i, k)
  BY DEF Placed, Newer
<1>3. {} \in T
  OBVIOUS
<1>4. ASSUME NEW S \in SUBSET found, NEW x \in found \ S, S \in T PROVE S \cup {x} \in T
  <2>1. CASE S = {}
    <3>1. \A j \in (S \cup {x}) \ {x} : Newer(rows, j, x)
      BY <2>1
    <3> QED BY <3>1
  <2>2. CASE S # {}
    <3>1. PICK k \in S : \A j \in S \ {k} : Newer(rows, j, k)
      BY <1>4, <2>2
    <3>2. CASE Newer(rows, x, k)
      <4>1. \A j \in (S \cup {x}) \ {k} : Newer(rows, j, k)
        BY <3>1, <3>2
      <4> QED BY <4>1
    <3>3. CASE ~Newer(rows, x, k)
      <4>1. Newer(rows, k, x)
        BY <1>1, <3>1, <3>3
      <4>2. \A j \in (S \cup {x}) \ {x} : Newer(rows, j, x)
        BY <1>2, <3>1, <4>1
      <4> QED BY <4>2
    <3> QED BY <3>2, <3>3
  <2> QED BY <2>1, <2>2
<1>5. \A S \in SUBSET found : \A x \in found \ S : S \in T => S \cup {x} \in T
  BY <1>4
<1>6. IsFiniteSet(found)
  OBVIOUS
<1> HIDE DEF T
<1>7. SUBSET found \subseteq T
  BY ONLY <1>3, <1>5, <1>6, FiniteInduction
<1>8. found \in T
  BY <1>7
<1> QED BY <1>8 DEF T

LEMMA SortedExists ==
    ASSUME NEW rows, Placed(rows), NEW found \in SUBSET DOMAIN rows, IsFiniteSet(found)
    PROVE  \E order : Sorted(rows, found, order)
<1> DEFINE N == {n \in Nat : \A S \in SUBSET found :
                     Cardinality(S) = n => \E order : Sorted(rows, S, order)}
<1>1. \A S \in SUBSET found : IsFiniteSet(S) /\ Cardinality(S) \in Nat
  BY FS_Subset, FS_CardinalityType
<1>2. 0 \in N
  <2> SUFFICES ASSUME NEW S \in SUBSET found, Cardinality(S) = 0
               PROVE  \E order : Sorted(rows, S, order)
    OBVIOUS
  <2>1. Sorted(rows, S, [n \in 1..0 |-> 0])
    BY DEF Sorted
  <2> QED BY <2>1
<1>3. ASSUME NEW n \in Nat, n \in N PROVE n + 1 \in N
  <2> SUFFICES ASSUME NEW S \in SUBSET found, Cardinality(S) = n + 1
               PROVE  \E order : Sorted(rows, S, order)
    OBVIOUS
  <2>1. S # {} /\ IsFiniteSet(S)
    BY <1>1, FS_EmptySet
  <2>2. PICK x \in S : \A j \in S \ {x} : Newer(rows, j, x)
    BY <2>1, Oldest
  <2>3. Cardinality(S \ {x}) = n
    <3>1. Cardinality(S \ {x}) = Cardinality(S) - 1
      BY <2>1, FS_RemoveElement
    <3> QED BY <3>1
  <2>4. PICK order : Sorted(rows, S \ {x}, order)
    BY <1>3, <2>3
  <2> DEFINE more == [k \in 1..(n + 1) |-> IF k = n + 1 THEN x ELSE order[k]]
  <2>5. \A k \in 1..n : order[k] \in S \ {x}
    BY <2>3, <2>4 DEF Sorted
  <2>6. more \in [1..(n + 1) -> S]
    BY <2>5
  <2>7. ASSUME NEW j \in 1..(n + 1), NEW k \in 1..(n + 1), j < k
        PROVE  Newer(rows, more[j], more[k])
    <3>1. j \in 1..n /\ more[j] = order[j]
      BY <2>7
    <3>2. CASE k = n + 1
      BY <2>2, <2>5, <3>1, <3>2
    <3>3. CASE k # n + 1
      <4>1. k \in 1..n /\ more[k] = order[k]
        BY <3>3
      <4>2. Newer(rows, order[j], order[k])
        BY <2>3, <2>4, <2>7, <3>1, <4>1 DEF Sorted
      <4> QED BY <3>1, <4>1, <4>2
    <3> QED BY <3>2, <3>3
  <2> HIDE DEF more
  <2>8. Sorted(rows, S, more)
    BY <2>6, <2>7 DEF Sorted
  <2> QED BY <2>8
<1> HIDE DEF N
<1>4. Cardinality(found) \in N
  BY <1>1, <1>2, <1>3, SetInduction
<1> QED BY <1>4 DEF N

\* The list holds each row once.
LEMMA ListingIs ==
    ASSUME NEW rows, Placed(rows), NEW found \in SUBSET DOMAIN rows, IsFiniteSet(found),
           NEW order, order = Listing(rows, found)
    PROVE  /\ order \in [1..Cardinality(found) -> found]
           /\ \A j, k \in 1..Cardinality(found) : order[j] = order[k] => j = k
           /\ {order[n] : n \in 1..Cardinality(found)} = found
<1> DEFINE c == Cardinality(found)
<1>1. c \in Nat
  BY FS_CardinalityType
<1>2. \E g : Sorted(rows, found, g)
  BY SortedExists
<1>3. Sorted(rows, found, order)
  <2> DEFINE Good(g) == \A j, k \in DOMAIN g : j < k => Newer(rows, g[j], g[k])
  <2>1. order = CHOOSE g \in [1..c -> found] : Good(g)
    BY DEF Listing, Newer
  <2>2. PICK g : Sorted(rows, found, g)
    BY <1>2
  <2>3. g \in [1..c -> found] /\ Good(g)
    BY <2>2 DEF Sorted
  <2> HIDE DEF Good
  <2>4. order \in [1..c -> found] /\ Good(order)
    BY <2>1, <2>3
  <2> QED BY <2>4 DEF Sorted, Good
<1>4. order \in [1..c -> found]
  BY <1>3 DEF Sorted
<1>5. ASSUME NEW j \in 1..c, NEW k \in 1..c, order[j] = order[k] PROVE j = k
  <2>1. ~Newer(rows, order[j], order[k])
    <3>1. order[j] \in DOMAIN rows /\ rows[order[j]].ts \in Nat /\ rows[order[j]].id \in Nat
      BY <1>4 DEF Placed
    <3> QED BY <1>5, <3>1 DEF Newer
  <2>2. ~Newer(rows, order[k], order[j])
    BY <1>5, <2>1
  <2>3. j \in Int /\ k \in Int
    OBVIOUS
  <2>4. ~(j < k) /\ ~(k < j)
    BY <1>3, <2>1, <2>2 DEF Sorted
  <2> QED BY <2>3, <2>4
<1>6. order \in Injection(1..c, found)
  BY <1>4, <1>5 DEF Injection, IsInjective
<1>7. Cardinality(1..c) = c
  BY <1>1, FS_Interval
<1>8. order \in Surjection(1..c, found)
  BY <1>6, <1>7, FS_Injection
<1>9. {order[n] : n \in 1..c} = found
  BY <1>4, <1>8 DEF Surjection
<1> QED BY <1>4, <1>5, <1>9

Line(rows, k) == Put(rows[k], "cost", CostFor(rows[k]))

\* The first n lines of a list.
Lines(rows, order, n) == [k \in 1..n |-> Line(rows, order[k])]

\* How far the first i pages of a list of c rows go.
Upto(c, i) == IF c <= i * PageSize THEN c ELSE i * PageSize

LEMMA UptoType ==
    ASSUME NEW c \in Nat, NEW i \in Nat
    PROVE  /\ Upto(c, i) \in Nat /\ Upto(c, i) <= c /\ Upto(c, 0) = 0
           /\ i * PageSize \in Nat /\ (i + 1) * PageSize = i * PageSize + PageSize
           /\ Upto(c, i) <= Upto(c, i + 1)
           /\ c <= i => Upto(c, i) = c
<1>1. PageSize \in Nat /\ PageSize >= 1
  BY OverviewAssumption
<1>2. i * PageSize \in Nat /\ (i + 1) * PageSize = i * PageSize + PageSize /\ 0 * PageSize = 0
  BY <1>1, Z3
<1>3. i * PageSize >= i
  <2> DEFINE d == PageSize - 1
  <2>1. d \in Nat /\ PageSize = d + 1
    BY <1>1
  <2> HIDE DEF d
  <2>2. i * (d + 1) = i * d + i /\ i * d >= 0
    BY <2>1, Z3
  <2> QED BY <2>1, <2>2
<1> DEFINE a == i * PageSize
           b == (i + 1) * PageSize
<1>4. a \in Nat /\ b = a + PageSize /\ a >= i
  BY <1>2, <1>3
<1>5. Upto(c, i) = (IF c <= a THEN c ELSE a) /\ Upto(c, i + 1) = (IF c <= b THEN c ELSE b)
  BY DEF Upto
<1>6. Upto(c, 0) = 0
  BY <1>2 DEF Upto
<1> HIDE DEF a, b
<1>7. /\ Upto(c, i) \in Nat /\ Upto(c, i) <= c /\ Upto(c, i) <= Upto(c, i + 1)
      /\ c <= i => Upto(c, i) = c
  BY <1>1, <1>4, <1>5
<1> QED BY <1>2, <1>6, <1>7

\* A page goes on where the one before it ended.
GoesOn(page, order, i) ==
    LET c == Len(order)
    IN  /\ DOMAIN page = 1..(Upto(c, i + 1) - Upto(c, i))
        /\ \A n \in DOMAIN page : page[n] = order[Upto(c, i) + n]

LEMMA PageIs ==
    ASSUME NEW S, NEW order \in Seq(S), NEW i \in Nat
    PROVE  GoesOn(Slice(order, i * PageSize, PageSize), order, i)
<1> DEFINE c == Len(order)
           page == Slice(order, i * PageSize, PageSize)
<1>1. PageSize \in Nat /\ PageSize >= 1 /\ c \in Nat
  BY OverviewAssumption
<1> DEFINE a == i * PageSize
<1>2. a \in Nat /\ (i + 1) * PageSize = a + PageSize
  BY <1>1, UptoType
<1>3. Upto(c, i) = (IF c <= a THEN c ELSE a) /\ Upto(c, i + 1) = (IF c <= a + PageSize THEN c ELSE a + PageSize)
  BY <1>2 DEF Upto
<1>4. page = SubSeq(order, a + 1, Min({c, a + PageSize}))
  BY DEF Slice
<1> HIDE DEF a, c
<1>5. Min({c, a + PageSize}) = Upto(c, i + 1)
  <2>1. a + PageSize \in Nat
    BY <1>1, <1>2
  <2>2. Min({c, a + PageSize}) = IF c <= a + PageSize THEN c ELSE a + PageSize
    BY <1>1, <2>1, LeastOfTwo
  <2> QED BY <1>3, <2>2
<1> DEFINE lo == Upto(c, i)
           hi == Upto(c, i + 1)
<1> HIDE DEF page
<1>6. page = SubSeq(order, a + 1, hi)
  BY <1>4, <1>5
<1>7. CASE c <= a
  <2>1. lo = c /\ hi = c /\ a + 1 > hi
    BY <1>1, <1>2, <1>3, <1>7
  <2> HIDE DEF lo, hi
  <2>2. page = <<>>
    BY <1>1, <1>2, <1>6, <2>1
  <2>3. DOMAIN page = {} /\ 1..(hi - lo) = {}
    BY <1>1, <2>1, <2>2
  <2> QED BY <2>3 DEF lo, hi, GoesOn, c, page
<1>8. CASE ~(c <= a)
  <2>1. lo = a /\ hi \in Nat /\ a <= hi /\ hi <= c
    BY <1>1, <1>2, <1>3, <1>8
  <2> HIDE DEF lo, hi
  <2>2. page \in Seq(S) /\ Len(page) = hi - a /\ \A n \in 1..Len(page) : page[n] = order[a + n]
    <3>1. a + 1 \in 1..(Len(order) + 1) /\ hi \in 0..Len(order)
      BY <1>1, <1>2, <2>1 DEF c
    <3>2. /\ SubSeq(order, a + 1, hi) \in Seq(S)
          /\ Len(SubSeq(order, a + 1, hi)) = hi - a
          /\ \A n \in 1..(hi - a) : SubSeq(order, a + 1, hi)[n] = order[(a + 1) + n - 1]
      BY <1>2, <2>1, <3>1
    <3>3. \A n \in 1..(hi - a) : (a + 1) + n - 1 = a + n
      BY <1>2, <2>1
    <3> QED BY <1>6, <3>2, <3>3
  <2>3. DOMAIN page = 1..(hi - lo)
    BY <2>1, <2>2
  <2>4. \A n \in DOMAIN page : page[n] = order[lo + n]
    BY <2>1, <2>2, <2>3
  <2> QED BY <2>3, <2>4 DEF lo, hi, GoesOn, c, page
<1> QED BY <1>7, <1>8

\* The pages in a row are the list.
Pages(rows, since, client, N) ==
    [n \in 1..N |-> build_list(rows, since, client, (n - 1) * PageSize).rows]

LEMMA PagesAre ==
    ASSUME NEW rows, NEW since, NEW client, NEW found, found = Where(rows, since, client),
           IsFiniteSet(found),
           NEW order, order = Listing(rows, found), order \in [1..Cardinality(found) -> found],
           NEW N \in Nat \ {0}, Cardinality(found) <= N
    PROVE  FlattenSeq(Pages(rows, since, client, N)) = Lines(rows, order, Cardinality(found))
<1> DEFINE c == Cardinality(found)
           Page(i) == build_list(rows, since, client, i * PageSize).rows
           seqs == [n \in 1..N |-> Page(n - 1)]
           T == {Line(rows, k) : k \in found}
           g == [i \in 1..N |-> Lines(rows, order, Upto(c, i))]
           Flat(h) == h = [i \in 1..N |-> IF i = 1 THEN seqs[i] ELSE h[i - 1] \o seqs[i]]
<1>0. \A k \in 1..c : order[k] \in found
  OBVIOUS
<1>1. c \in Nat /\ order \in Seq(found) /\ Len(order) = c
  <2>1. c \in Nat
    BY FS_CardinalityType
  <2> HIDE DEF c
  <2> QED BY <2>1 DEF c
<1>2. ASSUME NEW i \in Nat
      PROVE  /\ Upto(c, i) \in Nat /\ Upto(c, i) <= Upto(c, i + 1) /\ Upto(c, i + 1) <= c
             /\ Page(i) = [n \in 1..(Upto(c, i + 1) - Upto(c, i)) |-> Line(rows, order[Upto(c, i) + n])]
  <2> DEFINE page == Slice(order, i * PageSize, PageSize)
  <2>1. Page(i) = [n \in DOMAIN page |-> Line(rows, page[n])]
    BY DEF build_list, Line
  <2>2. GoesOn(page, order, i)
    BY <1>1, PageIs
  <2> HIDE DEF page
  <2>3. /\ DOMAIN page = 1..(Upto(c, i + 1) - Upto(c, i))
        /\ \A n \in DOMAIN page : page[n] = order[Upto(c, i) + n]
    BY <1>1, <2>2 DEF GoesOn
  <2> HIDE DEF c
  <2>4. i + 1 \in Nat
    OBVIOUS
  <2>5. Upto(c, i) \in Nat /\ Upto(c, i) <= Upto(c, i + 1)
    BY <1>1, UptoType
  <2>6. Upto(c, i + 1) <= c
    BY <1>1, <2>4, UptoType
  <2> HIDE DEF Page
  <2> QED BY <2>1, <2>3, <2>5, <2>6
<1> HIDE DEF Page, c
<1>3. ASSUME NEW n \in Nat, n <= c
      PROVE  Lines(rows, order, n) \in Seq(T) /\ Len(Lines(rows, order, n)) = n
  <2>1. \A k \in 1..n : order[k] \in found
    BY <1>0, <1>1, <1>3
  <2>2. \A k \in 1..n : Line(rows, order[k]) \in T
    BY <2>1
  <2> HIDE DEF T
  <2> QED BY <2>2 DEF Lines
<1>4. ASSUME NEW i \in Nat
      PROVE  Lines(rows, order, Upto(c, i)) \o Page(i) = Lines(rows, order, Upto(c, i + 1))
  <2> DEFINE a == Upto(c, i)
             b == Upto(c, i + 1)
             p == Lines(rows, order, a)
             q == Page(i)
             r == Lines(rows, order, b)
  <2>1. a \in Nat /\ a <= b /\ b <= c /\ q = [n \in 1..(b - a) |-> Line(rows, order[a + n])]
    BY <1>2
  <2>2. b \in Nat /\ a <= c
    BY <1>1, <1>2, UptoType, <2>1
  <2> HIDE DEF a, b
  <2>3. p \in Seq(T) /\ Len(p) = a /\ r \in Seq(T) /\ Len(r) = b
    BY <1>3, <2>1, <2>2
  <2>4. q \in Seq(T) /\ Len(q) = b - a
    <3>1. b - a \in Nat
      BY <2>1, <2>2
    <3>2. \A n \in 1..(b - a) : a + n \in 1..c
      BY <1>1, <2>1, <2>2
    <3>3. \A n \in 1..(b - a) : Line(rows, order[a + n]) \in T
      BY <1>0, <3>2
    <3> HIDE DEF T, q
    <3> QED BY <2>1, <3>1, <3>3
  <2>5. /\ \A n \in 1..a : p[n] = Line(rows, order[n])
        /\ \A n \in 1..b : r[n] = Line(rows, order[n])
        /\ \A n \in 1..(b - a) : q[n] = Line(rows, order[a + n])
    BY <2>1 DEF Lines
  <2> HIDE DEF p, q, r, T
  <2>6. a + (b - a) = b /\ a \in Nat /\ b \in Nat
    BY <2>1, <2>2
  <2>7. /\ p \o q \in Seq(T) /\ Len(p \o q) = b
        /\ \A n \in 1..b : (p \o q)[n] = IF n <= a THEN p[n] ELSE q[n - a]
    <3>1. /\ p \o q \in Seq(T) /\ Len(p \o q) = Len(p) + Len(q)
          /\ \A n \in 1..(Len(p) + Len(q)) :
                 (p \o q)[n] = IF n <= Len(p) THEN p[n] ELSE q[n - Len(p)]
      BY ONLY <2>3, <2>4, ConcatProperties
    <3> QED BY ONLY <2>3, <2>4, <2>6, <3>1
  <2>8. ASSUME NEW n \in 1..b PROVE (p \o q)[n] = r[n]
    <3>1. CASE n <= a
      <4>1. n \in 1..a
        BY <2>6, <3>1
      <4> QED BY <2>5, <2>7, <3>1, <4>1
    <3>2. CASE ~(n <= a)
      <4>1. n - a \in 1..(b - a) /\ a + (n - a) = n
        BY <2>6, <3>2
      <4> QED BY <2>5, <2>7, <3>2, <4>1
    <3> QED BY <3>1, <3>2
  <2>9. p \o q = r
    BY <2>3, <2>7, <2>8
  <2> QED BY <2>9 DEF p, q, r, a, b
<1>5. Len(seqs) = N /\ \A i \in 1..N : seqs[i] = Page(i - 1)
  OBVIOUS
<1> HIDE DEF seqs
<1>6. Flat(g)
  <2>1. ASSUME NEW i \in 1..N PROVE g[i] = IF i = 1 THEN seqs[i] ELSE g[i - 1] \o seqs[i]
    <3>1. i - 1 \in Nat /\ (i - 1) + 1 = i
      OBVIOUS
    <3>2. Lines(rows, order, Upto(c, i - 1)) \o seqs[i] = Lines(rows, order, Upto(c, i))
      BY <1>4, <1>5, <3>1
    <3>3. CASE i = 1
      <4>1. seqs[1] = Page(0)
        BY <1>5, <3>3
      <4>2. Upto(c, 0) = 0 /\ 0 + 1 = 1 /\ Upto(c, 1) \in Nat /\ \A n : n \in 1..(Upto(c, 1) - 0) => 0 + n = n
        BY <1>1, UptoType
      <4>3. Page(0) = [n \in 1..(Upto(c, 0 + 1) - Upto(c, 0)) |-> Line(rows, order[Upto(c, 0) + n])]
        BY <1>2
      <4>4. Page(0) = [n \in 1..Upto(c, 1) |-> Line(rows, order[n])]
        BY <4>2, <4>3
      <4> QED BY <3>3, <4>1, <4>4 DEF Lines
    <3>4. CASE i # 1
      <4>1. i - 1 \in 1..N
        BY <3>4
      <4> QED BY <3>2, <3>4, <4>1
    <3> QED BY <3>3, <3>4
  <2> HIDE DEF g
  <2>2. g = [i \in 1..N |-> g[i]]
    BY DEF g
  <2> QED BY <2>1, <2>2
<1> DEFINE h == CHOOSE f : Flat(f)
<1>7. Flat(h)
  BY <1>6
<1>8. FlattenSeq(seqs) = h[N]
  BY <1>5 DEF FlattenSeq
<1> HIDE DEF h
<1> DEFINE M == {n \in Nat : n + 1 \in 1..N => h[n + 1] = g[n + 1]}
<1>9. 0 \in M
  <2>1. 1 \in 1..N => h[1] = seqs[1] /\ g[1] = seqs[1]
    BY <1>6, <1>7
  <2> QED BY <2>1
<1>10. ASSUME NEW n \in Nat, n \in M PROVE n + 1 \in M
  <2> SUFFICES ASSUME (n + 1) + 1 \in 1..N PROVE h[(n + 1) + 1] = g[(n + 1) + 1]
    OBVIOUS
  <2> DEFINE i == (n + 1) + 1
  <2>1. i \in 1..N /\ i # 1 /\ i - 1 = n + 1 /\ n + 1 \in 1..N
    OBVIOUS
  <2>2. h[n + 1] = g[n + 1]
    BY <1>10, <2>1
  <2> HIDE DEF i, g
  <2>3. h[i] = h[i - 1] \o seqs[i]
    BY <1>7, <2>1
  <2>4. g[i] = g[i - 1] \o seqs[i]
    BY <1>6, <2>1
  <2>5. h[i] = g[i]
    BY <2>1, <2>2, <2>3, <2>4
  <2> QED BY <2>5 DEF i
<1> HIDE DEF M
<1>11. N - 1 \in M
  <2>1. N - 1 \in Nat
    OBVIOUS
  <2> QED BY <1>9, <1>10, <2>1, SetInduction
<1>12. h[N] = g[N]
  <2>1. (N - 1) + 1 = N /\ N \in 1..N
    OBVIOUS
  <2> HIDE DEF g
  <2> QED BY <1>11, <2>1 DEF M
<1>13. g[N] = Lines(rows, order, c)
  <2>1. Upto(c, N) = c
    BY <1>1, UptoType DEF c
  <2> QED BY <2>1
<1> QED BY <1>8, <1>12, <1>13 DEF seqs, Page, c, Pages

-----------------------------------------------------------------------------
(* What is said of the costs of a window.                                   *)

LEMMA LinePriced ==
    ASSUME NEW rows, NEW k, Reported(rows[k])
    PROVE  Line(rows, k).session = rows[k].session /\ Priced(Line(rows, k)) = CostEach(rows, k)
<1> DEFINE line == Line(rows, k)
<1>1. line.session = rows[k].session /\ line.cost = CostFor(rows[k])
  BY DEF Line, Put, Reported
<1> HIDE DEF line
<1>2. CASE rows[k].counted
  <2>1. line.cost = {CostEach(rows, k)}
    BY <1>1, <1>2 DEF CostFor, CostEach
  <2>2. Priced(line) = CostEach(rows, k)
    BY <2>1 DEF Priced
  <2> QED BY <1>1, <2>2 DEF line
<1>3. CASE ~rows[k].counted
  <2>1. line.cost = {}
    BY <1>1, <1>3 DEF CostFor
  <2>2. rows[k].usage = NoUsage /\ rows[k].model \in Models
    BY <1>3 DEF Reported
  <2>3. is_long(rows[k].model, NoUsage.input) \in BOOLEAN
    BY DEF is_long
  <2>4. CostEach(rows, k) = 0
    BY <2>2, <2>3, EstimateOfNone DEF CostEach, estimate
  <2> QED BY <1>1, <2>1, <2>4 DEF line, Priced
<1> QED BY <1>2, <1>3

\* A list, or a part of it, costs what its rows cost.
Lists(order, n, found) ==
    /\ n \in Nat /\ order \in [1..n -> found]
    /\ \A j, k \in 1..n : order[j] = order[k] => j = k
    /\ {order[k] : k \in 1..n} = found

LineCosts(w, rows, order, J) == w = [k \in J |-> CostEach(rows, order[k])]

LEMMA CostOfLines ==
    ASSUME NEW rows, Priceable(rows), NEW h, Costing(rows, h), NEW found \in SUBSET DOMAIN rows,
           NEW order, NEW n, Lists(order, n, found), NEW J \in SUBSET (1..n),
           NEW w, LineCosts(w, rows, order, J)
    PROVE  SumFunction(w) = h[Elements(order, J)]
<1> DEFINE c == [k \in DOMAIN rows |-> CostEach(rows, k)]
           o == [k \in J |-> order[k]]
<1>1. c \in [DOMAIN rows -> Int] /\ Summing(c, DOMAIN rows, h) /\ IsFiniteSet(DOMAIN rows)
  BY CostType DEF Costing, Priceable
<1>2. IsFiniteSet(J)
  <2>1. n \in Nat /\ IsFiniteSet(1..n)
    BY FS_Interval DEF Lists
  <2> QED BY <2>1, FS_Subset
<1>3. \A k \in J : order[k] \in DOMAIN rows
  BY DEF Lists
<1>4. \A i, j \in J : o[i] = o[j] => i = j
  BY DEF Lists
<1>5. Numbered(w, J, c, DOMAIN rows, o)
  BY <1>3, <1>4 DEF LineCosts, Numbered
<1>6. Elements(o, J) = Elements(order, J)
  BY DEF Elements
<1> HIDE DEF c, o
<1>7. SumFunction(w) = h[Elements(o, J)]
  BY <1>1, <1>2, <1>5, SumOfImage
<1> QED BY <1>6, <1>7

LEMMA ListConsistent ==
    ASSUME NEW rows, Priceable(rows), \A k \in DOMAIN rows : Reported(rows[k]),
           NEW since, NEW client, NEW found, found = Where(rows, since, client),
           NEW order, NEW n, Lists(order, n, found), n = Cardinality(found),
           NEW listed, listed = Lines(rows, order, n)
    PROVE  Consistent(multi_query(rows, found), build_sessions(rows, since, client), listed)
<1> DEFINE alone == {k \in DOMAIN listed : listed[k].session = ""}
           w == [k \in 1..n |-> CostEach(rows, order[k])]
           a == [k \in alone |-> CostEach(rows, order[k])]
           sessions == build_sessions(rows, since, client)
<1>1. found \in SUBSET DOMAIN rows /\ n \in Nat
  BY DEF Where, Lists
<1>2. DOMAIN listed = 1..n /\ Len(listed) = n
  BY <1>1 DEF Lines
<1>3. \A k \in 1..n : order[k] \in found /\ listed[k] = Line(rows, order[k])
  BY DEF Lines, Lists
<1>4. \A k \in 1..n : /\ listed[k].session = rows[order[k]].session
                      /\ Priced(listed[k]) = CostEach(rows, order[k])
  BY <1>1, <1>3, LinePriced
<1>5. PICK h : Costing(rows, h)
  <2> DEFINE c == [k \in DOMAIN rows |-> CostEach(rows, k)]
             K == DOMAIN rows
  <2>1. c \in [K -> Int] /\ IsFiniteSet(K)
    BY CostType DEF Priceable
  <2> HIDE DEF c, K
  <2>2. \E h : Summing(c, K, h)
    BY <2>1, SumExists
  <2> QED BY <2>2 DEF c, K, Costing
<1>6. [k \in DOMAIN listed |-> Priced(listed[k])] = w
  BY <1>2, <1>4
<1>7. [k \in alone |-> Priced(listed[k])] = a /\ alone \in SUBSET (1..n)
  BY <1>2, <1>4
<1>8. multi_query(rows, found).cost = h[found]
  BY <1>1, <1>5, OverviewCost
<1>9. SumFunction(w) = h[found]
  <2>1. LineCosts(w, rows, order, 1..n) /\ 1..n \in SUBSET (1..n)
    BY DEF LineCosts
  <2> HIDE DEF w
  <2>2. SumFunction(w) = h[Elements(order, 1..n)]
    BY <1>1, <1>5, <2>1, CostOfLines
  <2> QED BY <2>2 DEF Lists, Elements
<1>10. SumFunction(a) = h[Alone(rows, found)]
  <2>1. LineCosts(a, rows, order, alone)
    BY DEF LineCosts
  <2>2. Elements(order, alone) = Alone(rows, found)
    <3>1. \A k \in alone : order[k] \in Alone(rows, found)
      BY <1>2, <1>3, <1>4 DEF Alone
    <3>2. \A x \in Alone(rows, found) : \E k \in 1..n : order[k] = x
      BY DEF Alone, Lists
    <3>3. ASSUME NEW x \in Alone(rows, found) PROVE \E k \in alone : order[k] = x
      <4>1. PICK k \in 1..n : order[k] = x
        BY <3>2
      <4>2. rows[x].session = ""
        BY DEF Alone
      <4>3. k \in alone
        BY <1>2, <1>4, <4>1, <4>2
      <4> QED BY <4>1, <4>3
    <3> QED BY <3>1, <3>3 DEF Elements
  <2> HIDE DEF a, alone
  <2>3. SumFunction(a) = h[Elements(order, alone)]
    BY <1>1, <1>5, <1>7, <2>1, CostOfLines
  <2> QED BY <2>2, <2>3
<1>11. SumFunction(SessionCosts(sessions)) = h[Shared(rows, found)]
  BY <1>5, SessionsCost
<1>12. h[found] = h[Shared(rows, found)] + h[Alone(rows, found)]
  <2> DEFINE A == Shared(rows, found)
             B == Alone(rows, found)
  <2>1. A \cup B = found
    BY DEF Alone, Shared
  <2>2. A \in SUBSET DOMAIN rows /\ B \in SUBSET DOMAIN rows /\ A \cap B = {}
    BY <1>1 DEF Alone, Shared
  <2> HIDE DEF A, B
  <2>3. h[A \cup B] = h[A] + h[B]
    BY <1>5, <2>2, CostOfUnion
  <2> QED BY <2>1, <2>3 DEF A, B
<1>13. multi_query(rows, found).totals.count = Cardinality(found)
  BY DEF multi_query, Overview, TotalsQuery
<1> HIDE DEF w, a, sessions, alone
<1>14. multi_query(rows, found).cost = TotalCost(listed)
  BY <1>6, <1>8, <1>9 DEF TotalCost
<1>15. multi_query(rows, found).cost
           = SumFunction(SessionCosts(sessions))
                 + SumFunction([k \in alone |-> Priced(listed[k])])
  BY <1>7, <1>8, <1>10, <1>11, <1>12
<1> QED BY <1>2, <1>13, <1>14, <1>15 DEF Consistent, SessionCosts, sessions, alone

\* The cost of a window is the cost of its requests, in the overview, for the
\* sessions and in the pages of the list, for any table of whatever exchanges,
\* price list, window, client and size of a page: that tokens are summed up
\* for each model and tier before they are priced changes nothing.
THEOREM CostsAlwaysAddUp == Spec => []CostsAddUp
<1>1. IInv /\ TableFilled => CostsAddUp
  <2> SUFFICES ASSUME IInv, TableFilled, NEW w \in Windows
               PROVE  Consistent(build_overview(Rows, w[1], w[2]), build_sessions(Rows, w[1], w[2]),
                          FlattenSeq(Pages(Rows, w[1], w[2], Cardinality(Ids))))
    BY DEF CostsAddUp, Pages
  <2> DEFINE n == Cardinality(DOMAIN table)
             S == {table[x] : x \in 1..n}
             rows == Rows
             since == w[1]
             client == w[2]
             found == Where(rows, since, client)
             order == Listing(rows, found)
             c == Cardinality(found)
             N == Cardinality(Ids)
  <2>1. /\ n \in Nat /\ DOMAIN table = 1..n /\ DOMAIN rows = 1..n /\ rows \in Seq(S)
        /\ \A x \in 1..n : Reported(rows[x]) /\ rows[x].ts \in Nat /\ rows[x].id = x
    BY RowsAre
  <2>2. rows # <<>>
    BY DEF Windows, ToSet
  <2>3. IsFiniteSet(1..n) /\ IsFiniteSet(Ids) /\ 1..n \subseteq Ids /\ n # 0
    <3>1. n # 0
      BY <2>1, <2>2
    <3>2. IsFiniteSet(1..n) /\ DOMAIN table \subseteq Ids
      BY <2>1, FS_Interval DEF IInv, Types
    <3>3. IsFiniteSet(Ids)
      BY ApiAssumption
    <3> QED BY <2>1, <3>1, <3>2, <3>3
  <2> HIDE DEF rows, S, n
  <2>4. WellFormed(rows) /\ Priceable(rows) /\ Placed(rows)
    BY <2>1, <2>3 DEF WellFormed, Priceable, Placed, Reported
  <2>5. found \in SUBSET DOMAIN rows /\ IsFiniteSet(found) /\ c \in Nat
    <3>1. found \in SUBSET DOMAIN rows
      BY DEF Where
    <3> HIDE DEF found
    <3> QED BY <2>1, <2>3, <3>1, FS_Subset, FS_CardinalityType
  <2>6. N \in Nat \ {0} /\ c <= N
    <3>1. found \subseteq Ids /\ Ids # {}
      BY <2>1, <2>3, <2>5
    <3> HIDE DEF found
    <3> QED BY <2>3, <3>1, FS_Subset, FS_CardinalityType, FS_EmptySet
  <2>7. found = Where(rows, since, client) /\ order = Listing(rows, found)
    OBVIOUS
  <2> HIDE DEF found, order, N, since, client
  <2>8. /\ order \in [1..c -> found]
        /\ \A j, k \in 1..c : order[j] = order[k] => j = k
        /\ {order[k] : k \in 1..c} = found
    BY <2>4, <2>5, <2>7, ListingIs
  <2>9. Lists(order, c, found)
    BY <2>5, <2>8 DEF Lists
  <2>10. FlattenSeq(Pages(rows, since, client, N)) = Lines(rows, order, c)
    BY <2>5, <2>6, <2>7, <2>8, PagesAre
  <2>11. build_overview(rows, since, client) = multi_query(rows, found)
    <3>1. one_pass(rows, found) = multi_query(rows, found)
      BY <2>1, <2>2, <2>4, <2>5, OverviewsEqual
    <3> QED BY <2>7, <3>1 DEF build_overview
  <2>12. Consistent(multi_query(rows, found), build_sessions(rows, since, client),
                    Lines(rows, order, c))
    BY <2>1, <2>4, <2>7, <2>9, ListConsistent
  <2> QED BY <2>10, <2>11, <2>12 DEF rows, since, client, N
<1> QED BY StreamInvariant, <1>1, InitFilled, NextFilled, PTL DEF Spec
=============================================================================
