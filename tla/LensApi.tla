------------------------------- MODULE LensApi -------------------------------
(***************************************************************************)
(* The dashboard's server, lens/src/api.rs, over the table of exchanges:   *)
(* one connection to its stream of changes, and the summaries of           *)
(* LensOverview.  The ingester (LensIngest) is reduced to what it leaves   *)
(* in the table: rows are inserted and settled, and stamped with the       *)
(* second in which that happens.                                           *)
(*                                                                         *)
(* The stream polls the table for rows stamped since the last stamp it has *)
(* seen, and forgets what it has sent from time to time.  A query that     *)
(* fails changes nothing and is not an action.                             *)
(***************************************************************************)
EXTENDS LensOverview

CONSTANTS
    Ids,        \* 1..n: the exchanges, in the order in which they are inserted
    Finals,     \* what each exchange may be once it is settled
    Limit,      \* the limit of a poll: 200
    MaxSeen,    \* the changes remembered: 1000
    MaxClock,   \* bound: seconds
    Rate        \* rows the ingester stamps in any two seconds, at most

ASSUME ApiAssumption ==
    /\ IsFiniteSet(Ids) /\ Ids = 1..Cardinality(Ids)
    /\ {Limit, MaxSeen, MaxClock, Rate} \subseteq Nat \ {0}

\* What an upstream reports of an exchange: more is not cached than was sent,
\* and more is not reasoning than was answered.
Usages ==
    {u \in [{"input", "output", "cached", "cache_creation", "reasoning"} -> Nat] :
        u.cached <= u.input /\ u.reasoning <= u.output}

\* Where no tokens are counted none are reported in part.
Exchanges ==
    {e \in [model : Models, outcome : Outcomes, status : Int, duration : Int,
            counted : BOOLEAN, usage : Usages, client : STRING, session : STRING] :
        ~e.counted => e.usage = NoUsage}

ASSUME FinalsAssumption == \A x \in Ids : Finals[x] \subseteq Exchanges

VARIABLES
    clock,   \* now, in seconds
    table,   \* the rows there are
    stream,  \* the locals of the task behind the connection
    sent     \* history: the last row of each exchange the client has got

vars == <<clock, table, stream, sent>>

Off == [status |-> "off", since |-> 0, cursor |-> 0, seen |-> Empty, batch |-> <<>>]

Init == clock = 1 /\ table = Empty /\ stream = Off /\ sent = Empty

-----------------------------------------------------------------------------
(* The ingester.                                                            *)

Tick ==
    /\ clock < MaxClock
    /\ clock' = clock + 1
    /\ UNCHANGED <<table, stream, sent>>

Stamped == {x \in DOMAIN table : table[x].updated_at >= clock - 1}

Row(x, ts, final) ==
    [k \in DOMAIN final \cup {"id", "ts", "updated_at"} |->
        CASE k = "id"         -> x
          [] k = "ts"         -> ts
          [] k = "updated_at" -> clock
          [] OTHER            -> final[k]]

Write(x, ts, final) ==
    /\ Cardinality(Stamped \cup {x}) <= Rate
    /\ table' = Put(table, x, Row(x, ts, final))
    /\ UNCHANGED <<clock, stream, sent>>

Insert ==
    LET x == Cardinality(DOMAIN table) + 1
    IN  /\ x \in Ids
        /\ \E final \in Finals[x] :
               Write(x, clock, [final EXCEPT !.outcome = "pending", !.status = Null,
                                             !.duration = Null, !.counted = FALSE,
                                             !.usage = NoUsage])

Settle ==
    \E x \in DOMAIN table : \E final \in Finals[x] :
        /\ table[x].outcome = "pending"
        /\ <<final.model, final.client, final.session>>
               = <<table[x].model, table[x].client, table[x].session>>
        /\ Write(x, table[x].ts, final)

-----------------------------------------------------------------------------
(* stream().                                                                *)

Connect ==
    /\ stream.status = "off"
    /\ stream' = [Off EXCEPT !.status = "on", !.cursor = clock, !.since = clock]
    /\ UNCHANGED <<clock, table, sent>>

\* Mutant: rows of the second last seen are not asked for again.
SinceNext(cursor) == cursor + 1

Since(cursor) == cursor - 1

Found == {x \in DOMAIN table : table[x].updated_at >= Since(stream.cursor)}

\* What the query may give: rows of one stamp come in any order.
Orders ==
    {order \in [1..Cardinality(Found) -> Found] :
        /\ \A x \in Found : \E k \in DOMAIN order : order[k] = x
        /\ \A j, k \in DOMAIN order :
               j < k => table[order[j]].updated_at <= table[order[k]].updated_at}

\* With nothing to work off, the task sleeps and asks again.
Poll ==
    /\ stream.status = "on" /\ stream.batch = <<>>
    /\ \E order \in Orders :
           stream' = [stream EXCEPT
               !.batch = Slice([k \in DOMAIN order |-> table[order[k]]], 0, Limit)]
    /\ UNCHANGED <<clock, table, sent>>

\* One row; it waits in send() while the client is slow.
Deliver ==
    /\ stream.status = "on" /\ stream.batch # <<>>
    /\ LET row    == Head(stream.batch)
           known  == At(stream.seen, row.id, Off) = row
           more   == Put(stream.seen, row.id, row)
       IN  /\ stream' = [stream EXCEPT
                  !.batch  = Tail(@),
                  !.cursor = IF row.updated_at > @ THEN row.updated_at ELSE @,
                  !.seen   = IF known THEN @
                             ELSE IF Cardinality(DOMAIN more) > MaxSeen THEN Empty ELSE more]
           /\ sent' = IF known THEN sent ELSE Put(sent, row.id, row)
    /\ UNCHANGED <<clock, table>>

Disconnect ==
    /\ stream.status = "on"
    /\ stream' = [Off EXCEPT !.status = "gone"]
    /\ UNCHANGED <<clock, table, sent>>

Next == Tick \/ Insert \/ Settle \/ Connect \/ Poll \/ Deliver \/ Disconnect

\* The task polls as long as the client is there, and the client reads.
Fairness == WF_vars(Poll) /\ WF_vars(Deliver)

Spec == Init /\ [][Next]_vars /\ Fairness

-----------------------------------------------------------------------------
(* The stream.                                                              *)

Current(x) == At(sent, x, Off) = table[x]

(* The cursor leaves nothing behind: a row stamped before the seconds the    *)
(* next poll asks for has been sent as it is, although stamps are whole      *)
(* seconds, a row may change again in the second in which it was read, and   *)
(* a poll is cut off at its limit.                                           *)
CursorCovers ==
    stream.status = "on" =>
        \A x \in DOMAIN table :
            /\ stream.since <= table[x].updated_at
            /\ table[x].updated_at < Since(stream.cursor)
            => Current(x)

(* A client that stays gets every exchange that is inserted or settled       *)
(* (api.rs:278), in the end as it is in the table.                           *)
CaughtUp ==
    <>[](stream.status = "on" =>
            \A x \in DOMAIN table : stream.since <= table[x].updated_at => Current(x))

-----------------------------------------------------------------------------
(* The summaries.                                                           *)

Rows == [x \in 1..Cardinality(DOMAIN table) |-> table[x]]

\* No summary depends on the stream, and every table is met before anyone
\* connects.
Windows ==
    IF stream.status # "off" THEN {}
    ELSE {r.ts : r \in ToSet(Rows)} \X ({r.client : r \in ToSet(Rows)} \cup {Everyone})

(* The overview is the same whichever of its two implementations gives it,  *)
(* which the size of the window and the filter decide: a window that grows  *)
(* past the threshold does not change what is said of it.                   *)
OverviewsAgree ==
    \A w \in Windows :
        LET found == Where(Rows, w[1], w[2])
        IN  one_pass(Rows, found) = multi_query(Rows, found)

Priced(r) == IF r.cost = {} THEN 0 ELSE CHOOSE cost \in r.cost : TRUE

TotalCost(listed) == SumFunction([n \in DOMAIN listed |-> Priced(listed[n])])

Consistent(overview, sessions, listed) ==
    LET alone == {n \in DOMAIN listed : listed[n].session = ""}
    IN  /\ Len(listed) = overview.totals.count
        /\ overview.cost = TotalCost(listed)
        /\ overview.cost = SumFunction([s \in DOMAIN sessions |-> sessions[s].cost])
                               + SumFunction([n \in alone |-> Priced(listed[n])])

(* The cost of a window is the cost of its requests, wherever it is given:  *)
(* in the overview, where tokens are summed up before they are priced, for  *)
(* the sessions, and in the pages of the list.                              *)
CostsAddUp ==
    \A w \in Windows :
        LET Page(n) == build_list(Rows, w[1], w[2], n * PageSize).rows
        IN  Consistent(build_overview(Rows, w[1], w[2]), build_sessions(Rows, w[1], w[2]),
                       FlattenSeq([n \in 1..Cardinality(Ids) |-> Page(n - 1)]))
=============================================================================
