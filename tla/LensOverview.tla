----------------------------- MODULE LensOverview -----------------------------
(***************************************************************************)
(* The answers of lens/src/api.rs that sum up the table of exchanges: the  *)
(* overview, for which there are two implementations, the sessions, and    *)
(* the list.                                                               *)
(*                                                                         *)
(* A row has an outcome, "" for none; its status and its duration are Null *)
(* until it has them; client is what CLIENT_EXPR makes of its tag and its  *)
(* address, session its key or "" for none.                                *)
(***************************************************************************)
EXTENDS Pricing, FiniteSets

CONSTANTS
    OnePassThreshold,  \* ONE_PASS_OVERVIEW_THRESHOLD
    Bucket,            \* bucket_seconds
    PageSize           \* the limit of a list

ASSUME OverviewAssumption == {OnePassThreshold, Bucket, PageSize} \subseteq Nat \ {0}

Null == -1
Coalesce(value, default) == IF value = Null THEN default ELSE value

Everyone == "everyone"

\* The rows of a window, for one client or for all. rows is a sequence, in the
\* order in which they were inserted; a row is known by its place in it.
Where(rows, since, client) ==
    {k \in DOMAIN rows : rows[k].ts >= since /\ client \in {Everyone, rows[k].client}}

\* LIMIT and OFFSET.
Slice(rows, offset, limit) ==
    SubSeq(rows, offset + 1, Min({Len(rows), offset + limit}))

\* COUNT of the rows of found with one of these outcomes.
Count(rows, found, outcomes) == Cardinality({k \in found : rows[k].outcome \in outcomes})

Failed == {"http_error", "transport_error"}

\* The rows whose times are said.
Timed(rows, found) == {k \in found : rows[k].outcome = "ok" /\ rows[k].duration # Null}

\* What is said of these times; the index is rounded.
Latency(rows, timed) ==
    LET order  == SetToSeq(timed)
        sorted == SortSeq([n \in DOMAIN order |-> rows[order[n]].duration], <)
        Percentile(n) == IF sorted = <<>> THEN Null
                         ELSE sorted[1 + ((Len(sorted) - 1) * n + 50) \div 100]
    IN  [p50 |-> Percentile(50), p95 |-> Percentile(95), p99 |-> Percentile(99),
         max |-> Percentile(100)]

-----------------------------------------------------------------------------
(* build_overview_one_pass(): one loop over the rows.                       *)

Outcomes == {"ok", "http_error", "transport_error", "cancelled", "pending"}

NoUsage == Usage(0, 0, 0, 0, 0)

Plus(u, v) == [k \in DOMAIN u |-> u[k] + v[k]]

Normalized(u) ==
    [u EXCEPT !.input = positive(@), !.output = positive(@),
              !.cached = clamp(@, positive(u.input)),
              !.reasoning = clamp(@, positive(u.output)), !.cache_creation = positive(@)]

\* An entry of a map of the loop, which it adds when it is first met.
At(map, key, default) == IF key \in DOMAIN map THEN map[key] ELSE default
Put(map, key, value) == [k \in DOMAIN map \cup {key} |-> IF k = key THEN value ELSE map[k]]

NoSeries == [ok |-> 0, error |-> 0, cancelled |-> 0, input |-> 0, output |-> 0]
NoModel ==
    [count |-> 0, usage |-> NoUsage, duration_sum |-> 0, duration_count |-> 0,
     errors |-> 0, cancelled |-> 0, short |-> NoUsage, long |-> NoUsage]
NoTotals == [count |-> 0, usage |-> NoUsage, by |-> [o \in Outcomes |-> 0]]

\* Mutant: a request that did not reach its upstream is no error.
OverSeriesHttpOnly(series, r) ==
    [ok        |-> series.ok + IF r.outcome = "ok" THEN 1 ELSE 0,
     error     |-> series.error + IF r.outcome = "http_error" THEN 1 ELSE 0,
     cancelled |-> series.cancelled + IF r.outcome = "cancelled" THEN 1 ELSE 0,
     input     |-> series.input + r.usage.input,
     output    |-> series.output + r.usage.output]

OverSeries(series, r) ==
    [ok        |-> series.ok + IF r.outcome = "ok" THEN 1 ELSE 0,
     error     |-> series.error + IF r.outcome \in Failed THEN 1 ELSE 0,
     cancelled |-> series.cancelled + IF r.outcome = "cancelled" THEN 1 ELSE 0,
     input     |-> series.input + r.usage.input,
     output    |-> series.output + r.usage.output]

OverModel(m, r) ==
    LET usage == Normalized(r.usage)
        long  == is_long(r.model, usage.input)
        timed == r.outcome = "ok" /\ r.duration # Null
    IN  [count          |-> m.count + 1,
         usage          |-> Plus(m.usage, r.usage),
         duration_sum   |-> m.duration_sum + IF timed THEN r.duration ELSE 0,
         duration_count |-> m.duration_count + IF timed THEN 1 ELSE 0,
         errors         |-> m.errors + IF r.outcome \in Failed THEN 1 ELSE 0,
         cancelled      |-> m.cancelled + IF r.outcome = "cancelled" THEN 1 ELSE 0,
         short          |-> IF long THEN m.short ELSE Plus(m.short, usage),
         long           |-> IF long THEN Plus(m.long, usage) ELSE m.long]

OverTotals(t, r) ==
    [count |-> t.count + 1, usage |-> Plus(t.usage, r.usage),
     by    |-> [o \in Outcomes |-> t.by[o] + IF r.outcome = o THEN 1 ELSE 0]]

OverRow(s, rows, k) ==
    LET r      == rows[k]
        bucket == r.ts \div Bucket
        status == Coalesce(r.status, 0)
    IN  [totals    |-> OverTotals(s.totals, r),
         timed     |-> s.timed \cup Timed(rows, {k}),
         series    |-> Put(s.series, bucket, OverSeries(At(s.series, bucket, NoSeries), r)),
         models    |-> Put(s.models, r.model, OverModel(At(s.models, r.model, NoModel), r)),
         status    |-> IF r.outcome \in {"ok", "http_error"}
                       THEN Put(s.status, status, At(s.status, status, 0) + 1) ELSE s.status,
         clients   |-> Put(s.clients, r.client, At(s.clients, r.client, 0) + 1)]

Empty == [k \in {} |-> 0]

\* The costs of the two tiers of a model.
CostOf(model, m) ==
    estimate_for_context(model, m.short, FALSE) + estimate_for_context(model, m.long, TRUE)
SavedOf(model, m) ==
    savings_for_context(model, m.short.cached, FALSE)
        + savings_for_context(model, m.long.cached, TRUE)

ByModel(model, m) ==
    [count |-> m.count, usage |-> m.usage, errors |-> m.errors, cancelled |-> m.cancelled,
     avg_ms |-> IF m.duration_count = 0 THEN Null ELSE m.duration_sum \div m.duration_count,
     cost |-> CostOf(model, m), savings |-> SavedOf(model, m)]

\* The lists of models and clients are cut to 20 and 10 entries behind this.
Overview(rows, totals, timed, series, by_model, by_status, by_client) ==
    [totals    |-> totals,
     cost      |-> SumFunction([m \in DOMAIN by_model |-> by_model[m].cost]),
     savings   |-> SumFunction([m \in DOMAIN by_model |-> by_model[m].savings]),
     latency   |-> Latency(rows, timed),
     series    |-> series,
     by_model  |-> by_model,
     by_status |-> by_status,
     by_client |-> by_client]

Said(rows, s) ==
    Overview(rows, s.totals, s.timed, s.series,
             [m \in DOMAIN s.models |-> ByModel(m, s.models[m])], s.status, s.clients)

NoRows == [totals |-> NoTotals, timed |-> {}, series |-> Empty, models |-> Empty,
           status |-> Empty, clients |-> Empty]

one_pass(rows, found) ==
    LET pass[n \in 0..Len(rows)] ==
            IF n = 0 THEN NoRows
            ELSE IF n \in found THEN OverRow(pass[n - 1], rows, n) ELSE pass[n - 1]
    IN  Said(rows, pass[Len(rows)])

-----------------------------------------------------------------------------
(* build_overview_multi_query(): a query for each part.                     *)

Sums(rows, found) ==
    [field \in DOMAIN NoUsage |-> SumFunction([k \in found |-> rows[k].usage[field]])]

\* GROUP BY: for each value of the key, what is said of the rows that have it.
Group(key, value) == {k \in DOMAIN key : key[k] = value}

\* Mutant: the tier is that of the sum, not of each request.
TierOfSum(rows, k) ==
    is_long(rows[k].model,
            SumFunction([j \in {j \in DOMAIN rows : rows[j].model = rows[k].model} |->
                             rows[j].usage.input]))

\* context_tier_case: the tier of each request.
Tier(rows, k) == is_long(rows[k].model, rows[k].usage.input)

TotalsQuery(rows, found) ==
    [count |-> Cardinality(found), usage |-> Sums(rows, found),
     by    |-> [o \in Outcomes |-> Count(rows, found, {o})]]

SeriesOf(rows, group) ==
    [ok        |-> Count(rows, group, {"ok"}),
     error     |-> Count(rows, group, Failed),
     cancelled |-> Count(rows, group, {"cancelled"}),
     input     |-> Sums(rows, group).input,
     output    |-> Sums(rows, group).output]

SeriesQuery(rows, found) ==
    LET bucket == [k \in found |-> rows[k].ts \div Bucket]
    IN  [t \in Range(bucket) |-> SeriesOf(rows, Group(bucket, t))]

\* Tokens are summed up for each model and tier, and then priced.
TierSums(rows, group, long) == Sums(rows, {k \in group : Tier(rows, k) = long})

ModelSums(rows, group) ==
    [count          |-> Cardinality(group),
     usage          |-> Sums(rows, group),
     duration_sum   |-> SumFunction([k \in Timed(rows, group) |-> rows[k].duration]),
     duration_count |-> Cardinality(Timed(rows, group)),
     errors         |-> Count(rows, group, Failed),
     cancelled      |-> Count(rows, group, {"cancelled"}),
     short          |-> TierSums(rows, group, FALSE),
     long           |-> TierSums(rows, group, TRUE)]

ModelQuery(rows, found) ==
    LET model == [k \in found |-> rows[k].model]
    IN  [m \in Range(model) |-> ByModel(m, ModelSums(rows, Group(model, m)))]

StatusQuery(rows, found) ==
    LET status == [k \in {k \in found : rows[k].outcome \in {"ok", "http_error"}} |->
                       Coalesce(rows[k].status, 0)]
    IN  [c \in Range(status) |-> Cardinality(Group(status, c))]

ClientQuery(rows, found) ==
    LET client == [k \in found |-> rows[k].client]
    IN  [c \in Range(client) |-> Cardinality(Group(client, c))]

multi_query(rows, found) ==
    Overview(rows, TotalsQuery(rows, found), Timed(rows, found), SeriesQuery(rows, found),
             ModelQuery(rows, found), StatusQuery(rows, found), ClientQuery(rows, found))

build_overview(rows, since, client) ==
    LET found == Where(rows, since, client)
    IN  IF client # Everyone \/ Cardinality(found) >= OnePassThreshold
        THEN one_pass(rows, found)
        ELSE multi_query(rows, found)

-----------------------------------------------------------------------------
(* Sessions and the list.                                                   *)

\* cost_for: the set of the one cost, or of none while nothing is known of the
\* tokens.
CostFor(r) == IF r.counted THEN {estimate(r.model, r.usage)} ELSE {}

\* The price of a session is that of its requests, one by one.
build_sessions(rows, since, client) ==
    LET found   == {k \in Where(rows, since, client) : rows[k].session # ""}
        session == [k \in found |-> rows[k].session]
    IN  [s \in Range(session) |->
            LET group == Group(session, s)
            IN  [count |-> Cardinality(group), ok |-> Count(rows, group, {"ok"}),
                 errors |-> Count(rows, group, Failed),
                 input |-> Sums(rows, group).input, output |-> Sums(rows, group).output,
                 cost |-> SumFunction([k \in group |-> estimate(rows[k].model, rows[k].usage)])]]

\* The newest first, of one moment the larger id.
Listing(rows, found) ==
    LET Newer(k, j) == \/ rows[k].ts > rows[j].ts
                       \/ rows[k].ts = rows[j].ts /\ rows[k].id > rows[j].id
    IN  CHOOSE order \in [1..Cardinality(found) -> found] :
            \A j, k \in DOMAIN order : j < k => Newer(order[j], order[k])

\* A page of the list.
build_list(rows, since, client, offset) ==
    LET found == Where(rows, since, client)
        page  == Slice(Listing(rows, found), offset, PageSize)
    IN  [total |-> Cardinality(found),
         rows  |-> [n \in DOMAIN page |-> Put(rows[page[n]], "cost", CostFor(rows[page[n]]))]]
=============================================================================
