------------------------- MODULE Algorithms_proofs -------------------------
(***************************************************************************)
(* The sequential algorithms of the router.                                *)
(*                                                                         *)
(* That names and ids stay apart, for every set of them and every hash:    *)
(* the loop of new() starts from a sound map, each alias leaves it sound,  *)
(* and what a sound map sends to the upstream can be told apart and told   *)
(* back.  That a free alias is always found is a pigeonhole argument: one  *)
(* probe more than there are names in use.                                 *)
(*                                                                         *)
(* The clamping of efforts, for every set of levels a model may have.      *)
(*                                                                         *)
(* And the decoder of a streamed body, for every body and every way to cut *)
(* it.  parse_sse_bytes is followed through the body byte by byte (At and  *)
(* Read: the lines and the events of the first n bytes).  The invariant of *)
(* the decoder says that what it has taken from its buffer reads as Read   *)
(* says, that the buffer is the rest of the body, and that no end of a     *)
(* line waits in it; a round of its loop moves it on by a line and its     *)
(* end, which is where At has one line more.  That what it gives up for    *)
(* its length the parser gives up as well follows from the sizes alone.    *)
(***************************************************************************)
EXTENDS AliasMap, RequestControls, SseDecoder,
        SequenceTheorems, FiniteSetTheorems, WellFoundedInduction, TLAPS


-----------------------------------------------------------------------------
(* AliasMap: the identity maps.                                             *)

\* The map of a request's names that has dealt with those of done.
Sound(m, names, done) ==
    /\ DOMAIN m.forward = done
    /\ m.used = (names \cap Fitting) \cup {m.forward[s] : s \in done}
    /\ IsFiniteSet(m.used)
    /\ Cardinality(m.used) <= Cardinality((names \cap Fitting) \cup done)
    /\ \A s \in done : m.forward[s] \notin names \cap Fitting
    /\ \A s, t \in done : m.forward[s] = m.forward[t] => s = t

-----------------------------------------------------------------------------

\* Every set of natural numbers that is not empty has a least element: the
\* intervals below its elements have a least one among them.
LEMMA LeastOf ==
    ASSUME NEW T, T \subseteq Nat, T # {}
    PROVE  \E k \in T : \A j \in T : k <= j
<1> DEFINE Below == {0..k : k \in T}
<1>1. Below \subseteq FiniteSubsetsOf(Nat)
  <2>1. ASSUME NEW k \in T PROVE 0..k \in SUBSET Nat /\ IsFiniteSet(0..k)
    <3>1. 0 \in Int /\ k \in Int
      OBVIOUS
    <3> QED BY <3>1, FS_Interval
  <2> QED BY <2>1 DEF FiniteSubsetsOf
<1>2. Below # {}
  OBVIOUS
<1>3. PICK least \in Below : \A b \in Below : <<b, least>> \notin StrictSubsetOrdering(Nat)
  <2> HIDE DEF Below
  <2> QED BY <1>1, <1>2, WFMin, FS_StrictSubsetOrderingWellFounded
<1>4. PICK k \in T : least = 0..k
  OBVIOUS
<1>5. ASSUME NEW j \in T, j < k PROVE FALSE
  <2>1. 0..j \in Below
    OBVIOUS
  <2>2. 0..j \subseteq 0..k /\ 0..j # 0..k
    <3>1. k \in 0..k /\ k \notin 0..j
      BY <1>5
    <3>2. 0..j \subseteq 0..k
      BY <1>5
    <3> QED BY <3>1, <3>2
  <2>3. 0..j \in SUBSET Nat /\ 0..k \in SUBSET Nat
    OBVIOUS
  <2> QED BY <1>3, <1>4, <2>1, <2>2, <2>3 DEF StrictSubsetOrdering
<1> QED BY <1>5

\* While no more names are in use than there are, a free probe exists, and
\* the alias is not in use.
LEMMA AliasIsFree ==
    ASSUME NEW s \in Identifiers, NEW used, IsFiniteSet(used),
           Cardinality(used) <= Cardinality(Identifiers)
    PROVE  unique_alias(s, used) \notin used
<1> DEFINE n == Cardinality(used)
           probes == 0..n
           f == [k \in probes |-> Candidate(s, k)]
<1>1. n \in Nat /\ Cardinality(Identifiers) \in Nat
  BY AliasAssumption, FS_CardinalityType
<1>2. FreeProbes(s, used) # {}
  <2> SUFFICES ASSUME FreeProbes(s, used) = {} PROVE FALSE
    OBVIOUS
  <2>1. f \in [probes -> used]
    BY DEF FreeProbes
  <2>2. IsFiniteSet(probes) /\ Cardinality(probes) = n + 1
    BY <1>1, FS_Interval
  <2>3. PICK j \in probes, k \in probes : j # k /\ f[j] = f[k]
    <3>1. n < Cardinality(probes)
      BY <1>1, <2>2
    <3> HIDE DEF f, probes
    <3> QED BY <2>1, <2>2, <3>1, FS_PigeonHole
  <2>4. j \in 0..Cardinality(Identifiers) /\ k \in 0..Cardinality(Identifiers)
    BY <1>1
  <2> QED BY <2>3, <2>4, AliasAssumption
<1>3. FreeProbes(s, used) \subseteq Nat
  BY <1>1 DEF FreeProbes
<1>4. \E k \in FreeProbes(s, used) : \A j \in FreeProbes(s, used) : k <= j
  BY <1>2, <1>3, LeastOf
<1> DEFINE First == CHOOSE k \in FreeProbes(s, used) : \A j \in FreeProbes(s, used) : k <= j
<1>5. First \in FreeProbes(s, used)
  BY <1>4
<1>6. Candidate(s, First) \notin used
  BY <1>5 DEF FreeProbes
<1> QED BY <1>6 DEF unique_alias

-----------------------------------------------------------------------------

\* The map new() begins with is sound: nothing has an alias yet.
THEOREM NewMapIsSound ==
    ASSUME NEW names, names \subseteq Identifiers
    PROVE  Sound(NewMap(names), names, {})
<1>1. IsFiniteSet(names \cap Fitting)
  BY AliasAssumption, FS_Subset
<1>2. Cardinality(names \cap Fitting) \in Nat
  BY <1>1, FS_CardinalityType
<1>3. (names \cap Fitting) \cup {} = names \cap Fitting
  OBVIOUS
<1> QED BY <1>1, <1>2, <1>3 DEF Sound, NewMap

\* In whatever order the loop takes the names, an alias it gives is that of
\* no other name, whether left alone or renamed.
THEOREM AliasKeepsSound ==
    ASSUME NEW names, names \subseteq Identifiers,
           NEW done, done \subseteq names \ Fitting,
           NEW m, Sound(m, names, done),
           NEW s \in names \ Fitting, s \notin done
    PROVE  Sound(Assign(m, s), names, done \cup {s})
<1> DEFINE kept == names \cap Fitting
           alias == unique_alias(s, m.used)
           after == Assign(m, s)
<1>1. IsFiniteSet(kept \cup done) /\ Cardinality(kept \cup done) <= Cardinality(Identifiers)
  <2>1. kept \cup done \subseteq Identifiers
    OBVIOUS
  <2> QED BY <2>1, AliasAssumption, FS_Subset
<1>2. /\ IsFiniteSet(m.used) /\ Cardinality(m.used) \in Nat
      /\ Cardinality(kept \cup done) \in Nat /\ Cardinality(Identifiers) \in Nat
  BY <1>1, AliasAssumption, FS_CardinalityType DEF Sound
<1>3. Cardinality(m.used) <= Cardinality(Identifiers)
  <2>1. Cardinality(m.used) <= Cardinality(kept \cup done)
    BY DEF Sound
  <2> QED BY <2>1, <1>1, <1>2
<1>4. alias \notin m.used
  BY <1>2, <1>3, AliasIsFree
<1>5. after.used = m.used \cup {alias}
  BY DEF Assign
<1>6. /\ DOMAIN after.forward = done \cup {s}
      /\ after.forward[s] = alias
      /\ \A t \in done : after.forward[t] = m.forward[t]
  BY DEF Assign, Sound
<1>7. IsFiniteSet(after.used) /\ Cardinality(after.used) = Cardinality(m.used) + 1
  BY <1>2, <1>4, <1>5, FS_AddElement
<1>8. Cardinality(kept \cup (done \cup {s})) = Cardinality(kept \cup done) + 1
  <2>1. s \notin kept \cup done
    OBVIOUS
  <2>2. kept \cup (done \cup {s}) = (kept \cup done) \cup {s}
    OBVIOUS
  <2> QED BY <1>1, <2>1, <2>2, FS_AddElement
<1>9. after.used = kept \cup {after.forward[t] : t \in done \cup {s}}
  <2>1. m.used = kept \cup {m.forward[t] : t \in done}
    BY DEF Sound
  <2>2. {after.forward[t] : t \in done \cup {s}} = {m.forward[t] : t \in done} \cup {alias}
    BY <1>6
  <2> QED BY <1>5, <2>1, <2>2
<1>10. \A t \in done : m.forward[t] \in m.used
  BY DEF Sound
<1>11. \A t \in done \cup {s} : after.forward[t] \notin kept
  <2>1. kept \subseteq m.used
    BY DEF Sound
  <2>2. \A t \in done : m.forward[t] \notin kept
    BY DEF Sound
  <2> QED BY <1>4, <1>6, <2>1, <2>2
<1>12. \A t, u \in done \cup {s} : after.forward[t] = after.forward[u] => t = u
  <2>1. \A t, u \in done : m.forward[t] = m.forward[u] => t = u
    BY DEF Sound
  <2> QED BY <1>4, <1>6, <1>10, <2>1
<1>13. Cardinality(after.used) <= Cardinality(kept \cup (done \cup {s}))
  <2>1. Cardinality(m.used) <= Cardinality(kept \cup done)
    BY DEF Sound
  <2> QED BY <2>1, <1>2, <1>7, <1>8
<1> QED BY <1>6, <1>7, <1>9, <1>11, <1>12, <1>13 DEF Sound

\* Once every name that does not fit has its alias, what goes upstream tells
\* the names of the request apart, and the way back gives each its own.
THEOREM NamesStayApart ==
    ASSUME NEW names, names \subseteq Identifiers,
           NEW m, Sound(m, names, names \ Fitting)
    PROVE  /\ \A s, t \in names : wire_name(m, s) = wire_name(m, t) => s = t
           /\ \A s \in names : original_name(m, wire_name(m, s)) = s
<1>1. /\ DOMAIN m.forward = names \ Fitting
      /\ \A s \in names \ Fitting : m.forward[s] \notin names \cap Fitting
      /\ \A s, t \in names \ Fitting : m.forward[s] = m.forward[t] => s = t
  BY DEF Sound
<1>2. ASSUME NEW s \in names, NEW t \in names, wire_name(m, s) = wire_name(m, t) PROVE s = t
  BY <1>1, <1>2 DEF wire_name
<1>3. ASSUME NEW s \in names PROVE original_name(m, wire_name(m, s)) = s
  <2>1. CASE s \in Fitting
    BY <1>1, <2>1 DEF wire_name, original_name
  <2>2. CASE s \notin Fitting
    <3>1. wire_name(m, s) = m.forward[s] /\ s \in DOMAIN m.forward
      BY <1>1, <2>2 DEF wire_name
    <3>2. \A t \in DOMAIN m.forward : m.forward[t] = wire_name(m, s) => t = s
      BY <1>1, <3>1
    <3> DEFINE Original == CHOOSE t \in DOMAIN m.forward : m.forward[t] = wire_name(m, s)
    <3>3. Original \in DOMAIN m.forward /\ m.forward[Original] = wire_name(m, s)
      BY <3>1
    <3>4. Original = s
      <4> HIDE DEF Original
      <4> QED BY <3>2, <3>3
    <3> QED BY <3>1, <3>4 DEF original_name
  <2> QED BY <2>1, <2>2
<1> QED BY <1>2, <1>3

-----------------------------------------------------------------------------
(* RequestControls: the efforts.                                            *)

LEMMA RankOf ==
    ASSUME NEW e, OnLadder(e)
    PROVE  Rank(e) \in 1..6 /\ EFFORT_LADDER[Rank(e)] = e
<1>1. DOMAIN EFFORT_LADDER = 1..6
  BY DEF EFFORT_LADDER
<1>2. \E k \in 1..6 : EFFORT_LADDER[k] = e
  BY <1>1 DEF OnLadder, ToSet
<1> QED BY <1>1, <1>2 DEF Rank

\* Two efforts of one rank are one.
LEMMA RankSeparates ==
    ASSUME NEW e, NEW f, OnLadder(e), OnLadder(f), Rank(e) = Rank(f)
    PROVE  e = f
  BY RankOf

\* How far a level is from e, and of two equally far ones the lower: a total
\* order of the levels.
Nearer(e, c, f) ==
    \/ Distance(e, c) < Distance(e, f)
    \/ Distance(e, c) = Distance(e, f) /\ Rank(c) <= Rank(f)

\* A set of levels of which one is on the ladder has a nearest one.
LEMMA NearestExists ==
    ASSUME NEW e, OnLadder(e), NEW known, known # {}, \A f \in known : OnLadder(f)
    PROVE  \E c \in known : \A f \in known : Nearer(e, c, f)
<1> DEFINE Near(d) == \E f \in known : Distance(e, f) = d
<1>1. \A f \in known : Rank(f) \in 1..6 /\ Rank(e) \in 1..6 /\ Distance(e, f) \in 0..5
  BY RankOf DEF Distance
<1>2. \E d \in 0..5 : Near(d) /\ \A c \in 0..5 : c < d => ~Near(c)
  <2>1. Near(0) \/ Near(1) \/ Near(2) \/ Near(3) \/ Near(4) \/ Near(5)
    BY <1>1
  <2> HIDE DEF Near
  <2> QED BY <2>1
<1>3. PICK d \in 0..5 : Near(d) /\ \A c \in 0..5 : c < d => ~Near(c)
  BY <1>2
<1>4. \A f \in known : d <= Distance(e, f)
  BY <1>1, <1>3
<1>5. CASE \E c \in known : Distance(e, c) = d /\ Rank(c) <= Rank(e)
  <2>1. PICK c \in known : Distance(e, c) = d /\ Rank(c) <= Rank(e)
    BY <1>5
  <2>2. \A f \in known : Distance(e, f) = d => Rank(c) <= Rank(f)
    BY <1>1, <2>1 DEF Distance
  <2> QED BY <1>1, <1>4, <2>1, <2>2 DEF Nearer
<1>6. CASE \A c \in known : Distance(e, c) = d => Rank(c) > Rank(e)
  <2>1. PICK c \in known : Distance(e, c) = d
    BY <1>3
  <2>2. \A f \in known : Distance(e, f) = d => Rank(c) = Rank(f)
    BY <1>1, <1>6, <2>1 DEF Distance
  <2> QED BY <1>1, <1>4, <2>1, <2>2 DEF Nearer
<1> QED BY <1>1, <1>5, <1>6

\* An effort is kept, or replaced by the nearest level, of two the lower
\* (README.md:410).
THEOREM ClampNearest ==
    ASSUME NEW e, OnLadder(e), NEW levels, \E f \in levels : OnLadder(f)
    PROVE  LET c == clamp_effort(e, levels)
           IN  /\ c \in levels /\ OnLadder(c)
               /\ \A f \in levels : OnLadder(f) => Nearer(e, c, f)
<1> DEFINE known == {level \in levels : OnLadder(level)}
<1>1. CASE e \in levels
  <2>1. clamp_effort(e, levels) = e
    BY <1>1 DEF clamp_effort
  <2>2. \A f : OnLadder(f) => Nearer(e, e, f)
    BY RankOf DEF Nearer, Distance
  <2> QED BY <1>1, <2>1, <2>2
<1>2. CASE e \notin levels
  <2>1. clamp_effort(e, levels) = CHOOSE c \in known : \A f \in known : Nearer(e, c, f)
    BY <1>2 DEF clamp_effort, Nearer
  <2>2. \E c \in known : \A f \in known : Nearer(e, c, f)
    <3>1. known # {} /\ \A f \in known : OnLadder(f)
      OBVIOUS
    <3> HIDE DEF known
    <3> QED BY <3>1, NearestExists
  <2>3. clamp_effort(e, levels) \in known
        /\ \A f \in known : Nearer(e, clamp_effort(e, levels), f)
    <3> HIDE DEF known
    <3> QED BY <2>1, <2>2
  <2> QED BY <2>3
<1> QED BY <1>1, <1>2

\* A client that asks for more effort never gets less, whatever levels the
\* model has: the ties that go down and the levels that are not on the ladder
\* do not turn two efforts round.
THEOREM ClampMonotone ==
    ASSUME NEW e, NEW f, OnLadder(e), OnLadder(f), Rank(e) <= Rank(f),
           NEW levels, \E level \in levels : OnLadder(level)
    PROVE  Rank(clamp_effort(e, levels)) <= Rank(clamp_effort(f, levels))
<1> DEFINE c == clamp_effort(e, levels)
           d == clamp_effort(f, levels)
<1>1. c \in levels /\ OnLadder(c) /\ d \in levels /\ OnLadder(d)
  BY ClampNearest
<1>2. Nearer(e, c, d) /\ Nearer(f, d, c)
  BY <1>1, ClampNearest
<1>3. Rank(e) \in 1..6 /\ Rank(f) \in 1..6 /\ Rank(c) \in 1..6 /\ Rank(d) \in 1..6
  BY <1>1, RankOf
<1> HIDE DEF c, d
<1>4. Rank(c) <= Rank(d)
  BY <1>2, <1>3 DEF Nearer, Distance
<1> QED BY <1>4 DEF c, d

-----------------------------------------------------------------------------
(* Induction, and functions defined by it.                                  *)

LEMMA UpTo ==
    ASSUME NEW N \in Nat, NEW T, 0 \in T, \A k \in 0..N : k \in T /\ k # N => k + 1 \in T
    PROVE  0..N \subseteq T
<1> SUFFICES ASSUME (0..N) \ T # {} PROVE FALSE
  OBVIOUS
<1>1. PICK x \in (0..N) \ T : \A y \in (0..N) \ T : x <= y
  <2>1. (0..N) \ T \subseteq Nat
    OBVIOUS
  <2> QED BY <2>1, LeastOf
<1>2. x # 0 /\ x - 1 \in 0..N /\ x - 1 # N /\ ~(x <= x - 1) /\ x = (x - 1) + 1
  BY <1>1
<1>3. x - 1 \in T
  BY <1>1, <1>2
<1> QED BY <1>1, <1>2, <1>3

Follows(f, step, N) == \A n \in 1..N : f[n] = step[<<n, f[n - 1]>>]

\* f goes from start through D, by step at every place.
Walks(f, start, step, N, D) ==
    /\ f \in [0..N -> D] /\ f[0] = start
    /\ Follows(f, step, N)

LEMMA WalkExists ==
    ASSUME NEW N \in Nat, NEW D, NEW start \in D, NEW step \in [(1..N) \X D -> D]
    PROVE  \E f : Walks(f, start, step, N, D)
<1> DEFINE T == {n \in Nat : n <= N => \E f : Walks(f, start, step, n, D)}
<1>1. 0 \in T
  <2> DEFINE f == [k \in 0..0 |-> start]
  <2>1. Walks(f, start, step, 0, D)
    BY DEF Walks, Follows
  <2> QED BY <2>1
<1>2. ASSUME NEW n \in 0..N, n \in T, n # N PROVE n + 1 \in T
  <2>1. PICK f : Walks(f, start, step, n, D)
    BY <1>2
  <2> DEFINE g == [k \in 0..(n + 1) |-> IF k = n + 1 THEN step[<<n + 1, f[n]>>] ELSE f[k]]
  <2>2. f \in [0..n -> D] /\ f[n] \in D /\ n + 1 \in 1..N
    BY <1>2, <2>1 DEF Walks, Follows
  <2>3. step[<<n + 1, f[n]>>] \in D
    BY <2>2
  <2>4. g \in [0..(n + 1) -> D] /\ g[0] = start
    BY <2>1, <2>2, <2>3 DEF Walks, Follows
  <2>5. ASSUME NEW k \in 1..(n + 1) PROVE g[k] = step[<<k, g[k - 1]>>]
    <3>1. CASE k = n + 1
      <4>1. g[k] = step[<<n + 1, f[n]>>] /\ g[k - 1] = f[n]
        BY <3>1
      <4> QED BY <3>1, <4>1
    <3>2. CASE k \in 1..n
      <4>1. g[k] = f[k] /\ g[k - 1] = f[k - 1]
        BY <3>2
      <4> QED BY <2>1, <3>2, <4>1 DEF Walks, Follows
    <3> QED BY <3>1, <3>2
  <2>6. Walks(g, start, step, n + 1, D)
    BY <2>4, <2>5 DEF Walks, Follows
  <2>7. n + 1 \in Nat
    OBVIOUS
  <2> QED BY <2>6, <2>7
<1> HIDE DEF T
<1>3. N \in T
  BY <1>1, <1>2, UpTo
<1> QED BY <1>3 DEF T

LEMMA WalksAgree ==
    ASSUME NEW N \in Nat, NEW f, NEW g, NEW step, f[0] = g[0],
           Follows(f, step, N), Follows(g, step, N)
    PROVE  \A n \in 0..N : f[n] = g[n]
<1> DEFINE T == {n \in 0..N : f[n] = g[n]}
<1>1. 0 \in T
  OBVIOUS
<1>2. ASSUME NEW n \in 0..N, n \in T, n # N PROVE n + 1 \in T
  <2>1. n + 1 \in 1..N /\ (n + 1) - 1 = n /\ f[n] = g[n]
    BY <1>2
  <2>2. /\ f[n + 1] = step[<<n + 1, f[(n + 1) - 1]>>]
        /\ g[n + 1] = step[<<n + 1, g[(n + 1) - 1]>>]
    BY <2>1 DEF Follows
  <2>3. f[n + 1] = g[n + 1]
    BY <2>1, <2>2
  <2> QED BY <2>1, <2>3
<1> HIDE DEF T
<1>3. 0..N \subseteq T
  BY <1>1, <1>2, UpTo
<1> QED BY <1>3 DEF T

-----------------------------------------------------------------------------
(* What the readers keep, and that they do.                                 *)

Texts   == Seq(Tokens)
Payload == Seq(Texts)

Splits == [lines : Seq(Texts), line : Texts, cr : BOOLEAN]

InProgress == [data_lines : Payload, event_size : Nat, event_lines : Nat]

Statuses == {"reading", "done", "failed"}

Readings == [events : Seq(Payload), event : InProgress, status : Statuses]

Decoders ==
    [buffer : Texts, scan_offset : Nat, event : InProgress, status : Statuses, out : Seq(Payload)]

LEMMA TokensAre == Tokens = {CR, LF, Field, Done, "x", Invalid} /\ CR # LF /\ CR # Invalid /\ LF # Invalid
BY DEF Tokens, CR, LF, Field, Done, Invalid

LEMMA AfterTokenType ==
    ASSUME NEW s \in Splits, NEW token \in Tokens
    PROVE  AfterToken(s, token) \in Splits
<1>1. s.lines \in Seq(Texts) /\ s.line \in Texts /\ s.cr \in BOOLEAN
  BY DEF Splits
<1>2. Append(s.lines, s.line) \in Seq(Texts) /\ Append(s.line, token) \in Texts
  BY <1>1 DEF Texts
<1>3. <<>> \in Texts
  BY DEF Texts
<1>4. CASE token = LF /\ s.cr
  BY <1>4 DEF AfterToken, Splits
<1>5. CASE IsEnd(token) /\ ~(token = LF /\ s.cr)
  <2>1. AfterToken(s, token) = [lines |-> Append(s.lines, s.line), line |-> <<>>, cr |-> token = CR]
    BY <1>5 DEF AfterToken
  <2> QED BY <1>2, <1>3, <2>1 DEF Splits
<1>6. CASE ~IsEnd(token) /\ ~(token = LF /\ s.cr)
  <2>1. AfterToken(s, token) = [s EXCEPT !.line = Append(@, token), !.cr = FALSE]
    BY <1>6 DEF AfterToken
  <2> QED BY <1>2, <2>1 DEF Splits
<1> QED BY <1>4, <1>5, <1>6

LEMMA NoEventType == NoEvent \in InProgress /\ NoEvent.event_size = 0
<1>1. <<>> \in Payload
  BY DEF Payload
<1> QED BY <1>1 DEF NoEvent, InProgress

LEMMA CostsType ==
    ASSUME NEW e \in InProgress, NEW line \in Texts
    PROVE  /\ Costs(e, line) \in InProgress
           /\ Costs(e, line).data_lines = e.data_lines
           /\ Costs(e, line).event_size = e.event_size + Len(line) + 1
<1>1. Len(line) \in Nat
  BY DEF Texts
<1> DEFINE size == e.event_size + Len(line) + 1
           count == IF line = <<>> THEN e.event_lines ELSE e.event_lines + 1
<1>2. size \in Nat /\ count \in Nat
  BY <1>1 DEF InProgress
<1>3. Costs(e, line) = [e EXCEPT !.event_size = size, !.event_lines = count]
  BY DEF Costs
<1> HIDE DEF size, count
<1>4. Costs(e, line) \in InProgress /\ Costs(e, line).data_lines = e.data_lines
      /\ Costs(e, line).event_size = size
  BY <1>2, <1>3 DEF InProgress
<1> QED BY <1>4 DEF size

LEMMA TakesType ==
    ASSUME NEW e \in InProgress, NEW line \in Texts
    PROVE  Takes(e, line) \in InProgress /\ Takes(e, line).event_size = e.event_size
<1>1. CASE line # <<>> /\ Head(line) = Field
  <2>1. Tail(line) \in Texts
    BY <1>1 DEF Texts
  <2>2. Append(e.data_lines, Tail(line)) \in Payload
    BY <2>1 DEF InProgress, Payload
  <2> QED BY <1>1, <2>2 DEF Takes, InProgress
<1>2. CASE ~(line # <<>> /\ Head(line) = Field)
  BY <1>2 DEF Takes
<1> QED BY <1>1, <1>2

LEMMA DispatchedType ==
    ASSUME NEW data_lines \in Payload
    PROVE  Dispatched(data_lines) \in Seq(Payload)
BY DEF Dispatched

\* What the reader goes on with behind an event.
Afterwards(data_lines) == IF IsDone(data_lines) THEN "done" ELSE "reading"

LEMMA AfterwardsType ==
    ASSUME NEW data_lines
    PROVE  Afterwards(data_lines) \in {"done", "reading"}
BY DEF Afterwards

\* OverLine, case by case.
LEMMA OverLineCases ==
    ASSUME NEW s \in Readings, NEW line \in Texts
    PROVE  LET e == Costs(s.event, line)
           IN  /\ s.status # "reading" => OverLine(s, line) = s
               /\ s.status = "reading" /\ TooLarge(e) =>
                      OverLine(s, line) = [s EXCEPT !.status = "failed"]
               /\ s.status = "reading" /\ ~TooLarge(e) /\ line = <<>> =>
                      OverLine(s, line) =
                          [events |-> s.events \o Dispatched(s.event.data_lines), event |-> NoEvent,
                           status |-> Afterwards(s.event.data_lines)]
               /\ s.status = "reading" /\ ~TooLarge(e) /\ line # <<>> =>
                      OverLine(s, line) = [s EXCEPT !.event = Takes(e, line)]
<1>1. s.event \in InProgress
  BY DEF Readings
<1>2. Costs(s.event, line).data_lines = s.event.data_lines
  BY <1>1, CostsType
<1> QED BY <1>2 DEF OverLine, Afterwards

LEMMA OverLineType ==
    ASSUME NEW s \in Readings, NEW line \in Texts
    PROVE  OverLine(s, line) \in Readings
<1> DEFINE e == Costs(s.event, line)
<1>1. /\ s.events \in Seq(Payload) /\ s.event \in InProgress /\ s.event.data_lines \in Payload
      /\ e \in InProgress /\ Takes(e, line) \in InProgress
  BY CostsType, TakesType DEF Readings, InProgress
<1>2. CASE s.status # "reading"
  BY <1>2, OverLineCases
<1>3. CASE s.status = "reading" /\ TooLarge(e)
  <2>1. OverLine(s, line) = [s EXCEPT !.status = "failed"]
    BY <1>3, OverLineCases
  <2> QED BY <2>1 DEF Readings, Statuses
<1>4. CASE s.status = "reading" /\ ~TooLarge(e) /\ line = <<>>
  <2>1. s.events \o Dispatched(s.event.data_lines) \in Seq(Payload)
    BY <1>1, DispatchedType, ConcatProperties
  <2>2. OverLine(s, line) =
            [events |-> s.events \o Dispatched(s.event.data_lines), event |-> NoEvent,
             status |-> Afterwards(s.event.data_lines)]
    BY <1>4, OverLineCases
  <2> QED BY <2>1, <2>2, NoEventType, AfterwardsType DEF Readings, Statuses
<1>5. CASE s.status = "reading" /\ ~TooLarge(e) /\ line # <<>>
  <2>1. OverLine(s, line) = [s EXCEPT !.event = Takes(e, line)]
    BY <1>5, OverLineCases
  <2>2. Takes(e, line) \in InProgress
    BY <1>1
  <2> HIDE DEF e
  <2> QED BY <2>1, <2>2 DEF Readings
<1> QED BY <1>2, <1>3, <1>4, <1>5


-----------------------------------------------------------------------------
(* The two loops of parse_sse_bytes, one token or one line more at a time.  *)

NoLines == [lines |-> <<>>, line |-> <<>>, cr |-> FALSE]
Unread  == [events |-> <<>>, event |-> NoEvent, status |-> "reading"]

\* The loops as steps, which their states walk by.
TokenStep(bytes) == [p \in (1..Len(bytes)) \X Splits |-> AfterToken(p[2], bytes[p[1]])]
LineStep(lines)  == [p \in (1..Len(lines)) \X Readings |-> OverLine(p[2], lines[p[1]])]

LEMMA NoLinesType == NoLines \in Splits
BY DEF NoLines, Splits, Texts

LEMMA UnreadType == Unread \in Readings
BY NoEventType DEF Unread, Readings, Statuses

\* The states a loop goes through.
TokenRun(f, bytes) ==
    /\ f \in [0..Len(bytes) -> Splits] /\ f[0] = NoLines
    /\ \A n \in 1..Len(bytes) : f[n] = AfterToken(f[n - 1], bytes[n])

LineRun(f, lines) ==
    /\ f \in [0..Len(lines) -> Readings] /\ f[0] = Unread
    /\ \A n \in 1..Len(lines) : f[n] = OverLine(f[n - 1], lines[n])

LEMMA TokenRunExists ==
    ASSUME NEW bytes \in Texts
    PROVE  \E f : TokenRun(f, bytes) /\ AfterTokens(bytes) = f[Len(bytes)]
<1> DEFINE N == Len(bytes)
           G(f) == [n \in 0..N |-> IF n = 0 THEN [lines |-> <<>>, line |-> <<>>, cr |-> FALSE]
                                   ELSE AfterToken(f[n - 1], bytes[n])]
<1>1. N \in Nat /\ \A n \in 1..N : bytes[n] \in Tokens
  BY DEF Texts
<1>2. TokenStep(bytes) \in [(1..N) \X Splits -> Splits]
  BY <1>1, AfterTokenType DEF TokenStep
<1>3. PICK h : Walks(h, NoLines, TokenStep(bytes), N, Splits)
  <2> HIDE DEF N
  <2> QED BY <1>1, <1>2, WalkExists, NoLinesType
<1>4. h \in [0..N -> Splits] /\ h[0] = NoLines
      /\ \A n \in 1..N : h[n] = AfterToken(h[n - 1], bytes[n])
  <2>1. ASSUME NEW n \in 1..N PROVE h[n] = AfterToken(h[n - 1], bytes[n])
    <3>1. h[n - 1] \in Splits /\ h[n] = TokenStep(bytes)[<<n, h[n - 1]>>]
      BY <1>1, <1>3 DEF Walks, Follows
    <3> QED BY <1>1, <3>1 DEF TokenStep
  <2> QED BY <1>3, <2>1 DEF Walks, Follows
<1>5. h = G(h)
  BY <1>1, <1>4 DEF NoLines
<1> DEFINE c == CHOOSE f : f = G(f)
<1>6. c = G(c) /\ AfterTokens(bytes) = c[N]
  <2>1. AfterTokens(bytes) = c[N]
    BY DEF AfterTokens
  <2> QED BY <1>5, <2>1
<1> HIDE DEF c
<1>7. c[0] = NoLines /\ \A n \in 1..N : c[n] = AfterToken(c[n - 1], bytes[n])
  <2>1. ASSUME NEW n \in 0..N
        PROVE  c[n] = IF n = 0 THEN [lines |-> <<>>, line |-> <<>>, cr |-> FALSE]
                      ELSE AfterToken(c[n - 1], bytes[n])
    BY ONLY <1>6
  <2> QED BY <1>1, <2>1 DEF NoLines
<1> DEFINE T == {n \in 0..N : c[n] = h[n]}
<1>8. 0 \in T
  BY <1>1, <1>4, <1>7
<1>9. ASSUME NEW n \in 0..N, n \in T, n # N PROVE n + 1 \in T
  <2>1. n + 1 \in 1..N /\ (n + 1) - 1 = n /\ c[n] = h[n]
    BY <1>1, <1>9
  <2>2. /\ c[n + 1] = AfterToken(c[(n + 1) - 1], bytes[n + 1])
        /\ h[n + 1] = AfterToken(h[(n + 1) - 1], bytes[n + 1])
    BY <1>4, <1>7, <2>1
  <2>3. c[n + 1] = h[n + 1]
    BY <2>1, <2>2
  <2> QED BY <2>1, <2>3
<1> HIDE DEF T, N
<1>10. 0..N \subseteq T
  BY <1>1, <1>8, <1>9, UpTo
<1>11. c[N] = h[N]
  BY <1>1, <1>10 DEF T
<1> QED BY <1>4, <1>6, <1>11 DEF N, TokenRun

\* A run over more tokens begins like one over fewer.
LEMMA TokenRunsAgree ==
    ASSUME NEW s \in Texts, NEW t \in Texts, NEW f, NEW g, TokenRun(f, s), TokenRun(g, t),
           Len(s) <= Len(t), \A n \in 1..Len(s) : s[n] = t[n]
    PROVE  \A n \in 0..Len(s) : f[n] = g[n]
<1>1. Len(s) \in Nat /\ Len(t) \in Nat
  BY DEF Texts
<1>2. ASSUME NEW n \in 1..Len(s)
      PROVE  /\ f[n] = TokenStep(s)[<<n, f[n - 1]>>]
             /\ g[n] = TokenStep(s)[<<n, g[n - 1]>>]
  <2>1. n \in 1..Len(t) /\ f[n - 1] \in Splits /\ g[n - 1] \in Splits
    BY <1>1 DEF TokenRun
  <2>2. f[n] = AfterToken(f[n - 1], s[n]) /\ g[n] = AfterToken(g[n - 1], s[n])
    BY <2>1 DEF TokenRun
  <2> QED BY <2>1, <2>2 DEF TokenStep
<1>3. f[0] = g[0]
  BY DEF TokenRun
<1>4. Follows(f, TokenStep(s), Len(s)) /\ Follows(g, TokenStep(s), Len(s))
  BY <1>2 DEF Follows
<1> QED BY <1>1, <1>3, <1>4, WalksAgree

LEMMA LineRunExists ==
    ASSUME NEW lines \in Payload
    PROVE  \E f : LineRun(f, lines) /\ OverLines(lines) = f[Len(lines)]
<1> DEFINE N == Len(lines)
           G(f) == [n \in 0..N |-> IF n = 0 THEN [events |-> <<>>, event |-> NoEvent, status |-> "reading"]
                                   ELSE OverLine(f[n - 1], lines[n])]
<1>1. N \in Nat /\ \A n \in 1..N : lines[n] \in Texts
  BY DEF Payload
<1>2. LineStep(lines) \in [(1..N) \X Readings -> Readings]
  BY <1>1, OverLineType DEF LineStep
<1>3. PICK h : Walks(h, Unread, LineStep(lines), N, Readings)
  <2> HIDE DEF N
  <2> QED BY <1>1, <1>2, WalkExists, UnreadType
<1>4. h \in [0..N -> Readings] /\ h[0] = Unread
      /\ \A n \in 1..N : h[n] = OverLine(h[n - 1], lines[n])
  <2>1. ASSUME NEW n \in 1..N PROVE h[n] = OverLine(h[n - 1], lines[n])
    <3>1. h[n - 1] \in Readings /\ h[n] = LineStep(lines)[<<n, h[n - 1]>>]
      BY <1>1, <1>3 DEF Walks, Follows
    <3> QED BY <1>1, <3>1 DEF LineStep
  <2> QED BY <1>3, <2>1 DEF Walks, Follows
<1>5. h = G(h)
  BY <1>1, <1>4 DEF Unread
<1> DEFINE c == CHOOSE f : f = G(f)
<1>6. c = G(c) /\ OverLines(lines) = c[N]
  <2>1. OverLines(lines) = c[N]
    BY DEF OverLines
  <2> QED BY <1>5, <2>1
<1> HIDE DEF c
<1>7. c[0] = Unread /\ \A n \in 1..N : c[n] = OverLine(c[n - 1], lines[n])
  <2>1. ASSUME NEW n \in 0..N
        PROVE  c[n] = IF n = 0 THEN [events |-> <<>>, event |-> NoEvent, status |-> "reading"]
                      ELSE OverLine(c[n - 1], lines[n])
    BY ONLY <1>6
  <2> QED BY <1>1, <2>1 DEF Unread
<1> DEFINE T == {n \in 0..N : c[n] = h[n]}
<1>8. 0 \in T
  BY <1>1, <1>4, <1>7
<1>9. ASSUME NEW n \in 0..N, n \in T, n # N PROVE n + 1 \in T
  <2>1. n + 1 \in 1..N /\ (n + 1) - 1 = n /\ c[n] = h[n]
    BY <1>1, <1>9
  <2>2. /\ c[n + 1] = OverLine(c[(n + 1) - 1], lines[n + 1])
        /\ h[n + 1] = OverLine(h[(n + 1) - 1], lines[n + 1])
    BY <1>4, <1>7, <2>1
  <2>3. c[n + 1] = h[n + 1]
    BY <2>1, <2>2
  <2> QED BY <2>1, <2>3
<1> HIDE DEF T, N
<1>10. 0..N \subseteq T
  BY <1>1, <1>8, <1>9, UpTo
<1>11. c[N] = h[N]
  BY <1>1, <1>10 DEF T
<1> QED BY <1>4, <1>6, <1>11 DEF N, LineRun

\* A run over more lines begins like one over fewer.
LEMMA LineRunsAgree ==
    ASSUME NEW s \in Payload, NEW t \in Payload, NEW f, NEW g, LineRun(f, s), LineRun(g, t),
           Len(s) <= Len(t), \A n \in 1..Len(s) : s[n] = t[n]
    PROVE  \A n \in 0..Len(s) : f[n] = g[n]
<1>1. Len(s) \in Nat /\ Len(t) \in Nat
  BY DEF Payload
<1>2. ASSUME NEW n \in 1..Len(s)
      PROVE  /\ f[n] = LineStep(s)[<<n, f[n - 1]>>]
             /\ g[n] = LineStep(s)[<<n, g[n - 1]>>]
  <2>1. n \in 1..Len(t) /\ f[n - 1] \in Readings /\ g[n - 1] \in Readings
    BY <1>1 DEF LineRun
  <2>2. f[n] = OverLine(f[n - 1], s[n]) /\ g[n] = OverLine(g[n - 1], s[n])
    BY <2>1 DEF LineRun
  <2> QED BY <2>1, <2>2 DEF LineStep
<1>3. f[0] = g[0]
  BY DEF LineRun
<1>4. Follows(f, LineStep(s), Len(s)) /\ Follows(g, LineStep(s), Len(s))
  BY <1>2 DEF Follows
<1> QED BY <1>1, <1>3, <1>4, WalksAgree


\* What has been read of r after n of its bytes.
At(r, n)   == AfterTokens(SubSeq(r, 1, n))
Read(r, n) == OverLines(At(r, n).lines)

LEMMA PrefixOf ==
    ASSUME NEW r \in Texts, NEW n \in 0..Len(r)
    PROVE  /\ SubSeq(r, 1, n) \in Texts /\ Len(SubSeq(r, 1, n)) = n
           /\ \A i \in 1..n : SubSeq(r, 1, n)[i] = r[i]
<1>1. Len(r) \in Nat /\ \A i \in 1..Len(r) : r[i] \in Tokens
  BY DEF Texts
<1>2. \A i \in 1..n : r[i] \in Tokens
  BY <1>1
<1>3. /\ SubSeq(r, 1, n) \in Seq(Tokens)
      /\ Len(SubSeq(r, 1, n)) = IF 1 <= n THEN n - 1 + 1 ELSE 0
      /\ \A i \in 1..(n - 1 + 1) : SubSeq(r, 1, n)[i] = r[1 + i - 1]
  <2>1. n \in Int /\ 1 \in Int
    BY <1>1
  <2> QED BY <1>2, <2>1, SubSeqProperties
<1> QED BY <1>1, <1>3 DEF Texts

LEMMA AtRun ==
    ASSUME NEW r \in Texts
    PROVE  \E g : TokenRun(g, r) /\ \A n \in 0..Len(r) : At(r, n) = g[n]
<1>1. PICK g : TokenRun(g, r)
  BY TokenRunExists
<1>2. ASSUME NEW n \in 0..Len(r) PROVE At(r, n) = g[n]
  <2> DEFINE s == SubSeq(r, 1, n)
  <2>1. s \in Texts /\ Len(s) = n /\ \A i \in 1..n : s[i] = r[i]
    BY PrefixOf
  <2>2. Len(r) \in Nat
    BY DEF Texts
  <2>3. PICK f : TokenRun(f, s) /\ AfterTokens(s) = f[Len(s)]
    BY <2>1, TokenRunExists
  <2> HIDE DEF s
  <2>4. \A k \in 0..Len(s) : f[k] = g[k]
    BY <1>1, <2>1, <2>2, <2>3, TokenRunsAgree
  <2>5. At(r, n) = AfterTokens(s)
    BY DEF At, s
  <2> QED BY <2>1, <2>2, <2>3, <2>4, <2>5
<1> QED BY <1>1, <1>2

LEMMA AtSteps ==
    ASSUME NEW r \in Texts
    PROVE  /\ At(r, 0) = NoLines
           /\ \A n \in 0..Len(r) : At(r, n) \in Splits
           /\ \A n \in 0..(Len(r) - 1) : At(r, n + 1) = AfterToken(At(r, n), r[n + 1])
<1>1. PICK g : TokenRun(g, r) /\ \A n \in 0..Len(r) : At(r, n) = g[n]
  BY AtRun
<1>2. Len(r) \in Nat
  BY DEF Texts
<1>3. ASSUME NEW n \in 0..(Len(r) - 1) PROVE At(r, n + 1) = AfterToken(At(r, n), r[n + 1])
  <2>1. n \in 0..Len(r) /\ n + 1 \in 0..Len(r) /\ n + 1 \in 1..Len(r) /\ (n + 1) - 1 = n
    BY <1>2
  <2>2. g[n + 1] = AfterToken(g[(n + 1) - 1], r[n + 1])
    BY <1>1, <2>1 DEF TokenRun
  <2> QED BY <1>1, <2>1, <2>2
<1> QED BY <1>1, <1>2, <1>3 DEF TokenRun

LEMMA AtAll ==
    ASSUME NEW r \in Texts
    PROVE  At(r, Len(r)) = AfterTokens(r)
BY SubSeqFull DEF At, Texts

LEMMA AtLonger ==
    ASSUME NEW r \in Texts, NEW c \in Texts, NEW n \in 0..Len(r)
    PROVE  At(r \o c, n) = At(r, n)
<1>1. CASE n = 0
  BY <1>1, AtSteps, ConcatProperties DEF Texts
<1>2. CASE n # 0
  <2>1. n \in 1..Len(r) /\ 1 \in 1..Len(r)
    BY <1>2 DEF Texts
  <2>2. SubSeq(r \o c, 1, n) = SubSeq(r, 1, n)
    BY <2>1, SubSeqOfConcat1 DEF Texts
  <2> QED BY <2>2 DEF At
<1> QED BY <1>1, <1>2

LEMMA OverLinesType ==
    ASSUME NEW lines \in Payload
    PROVE  OverLines(lines) \in Readings
<1>1. PICK f : LineRun(f, lines) /\ OverLines(lines) = f[Len(lines)]
  BY LineRunExists
<1>2. Len(lines) \in Nat
  BY DEF Payload
<1> QED BY <1>1, <1>2 DEF LineRun

LEMMA OverNoLines == OverLines(<<>>) = Unread
<1>1. <<>> \in Payload /\ Len(<<>>) = 0
  BY DEF Payload
<1>2. PICK f : LineRun(f, <<>>) /\ OverLines(<<>>) = f[Len(<<>>)]
  BY <1>1, LineRunExists
<1> QED BY <1>1, <1>2 DEF LineRun

LEMMA OverLinesAppend ==
    ASSUME NEW lines \in Payload, NEW line \in Texts
    PROVE  OverLines(Append(lines, line)) = OverLine(OverLines(lines), line)
<1> DEFINE t == Append(lines, line)
           N == Len(lines)
<1>1. /\ t \in Payload /\ Len(t) = N + 1 /\ N \in Nat /\ t[N + 1] = line
      /\ \A n \in 1..N : lines[n] = t[n]
  BY DEF Payload
<1>2. PICK f : LineRun(f, lines) /\ OverLines(lines) = f[N]
  BY LineRunExists
<1> HIDE DEF t
<1>3. PICK g : LineRun(g, t) /\ OverLines(t) = g[Len(t)]
  BY <1>1, LineRunExists
<1> HIDE DEF N
<1>4. \A n \in 0..Len(lines) : f[n] = g[n]
  BY <1>1, <1>2, <1>3, LineRunsAgree DEF N
<1>5. f[N] = g[N]
  BY <1>1, <1>4 DEF N
<1>6. g[N + 1] = OverLine(g[(N + 1) - 1], t[N + 1])
  <2>1. N + 1 \in 1..Len(t)
    BY <1>1
  <2> QED BY <1>3, <2>1 DEF LineRun
<1>7. (N + 1) - 1 = N
  BY <1>1
<1> QED BY <1>1, <1>2, <1>3, <1>5, <1>6, <1>7 DEF t

-----------------------------------------------------------------------------
(* More of the body leaves what was found, and leaves an end as it is.      *)

LEMMA PrefixPointwise ==
    ASSUME NEW S, NEW s \in Seq(S), NEW t \in Seq(S)
    PROVE  IsPrefix(s, t) <=> Len(s) <= Len(t) /\ \A i \in 1..Len(s) : s[i] = t[i]
<1>1. Len(s) \in Nat /\ Len(t) \in Nat /\ \A i \in 1..Len(s) : s[i] \in S
  OBVIOUS
<1>2. SubSeq(s, 1, Len(s)) = s
  BY SubSeqFull
<1>3. ASSUME Len(s) <= Len(t)
      PROVE  SubSeq(t, 1, Len(s)) = s <=> \A i \in 1..Len(s) : s[i] = t[i]
  <2> DEFINE u == SubSeq(t, 1, Len(s))
  <2>1. \A i \in 1..Len(s) : t[i] \in S
    BY <1>1, <1>3
  <2>2. u \in Seq(S) /\ Len(u) = Len(s) /\ \A i \in 1..Len(s) : u[i] = t[i]
    <3>1. /\ u \in Seq(S) /\ Len(u) = IF 1 <= Len(s) THEN Len(s) - 1 + 1 ELSE 0
          /\ \A i \in 1..(Len(s) - 1 + 1) : u[i] = t[1 + i - 1]
      <4>1. 1 \in Int /\ Len(s) \in Int
        BY <1>1
      <4> QED BY <2>1, <4>1, SubSeqProperties
    <3> QED BY <1>1, <3>1
  <2> HIDE DEF u
  <2>3. (\A i \in 1..Len(s) : s[i] = t[i]) => u = s
    BY <2>2, SeqEqual
  <2> QED BY <2>2, <2>3 DEF u
<1> QED BY <1>2, <1>3 DEF IsPrefix

LEMMA PrefixOn ==
    ASSUME NEW s \in Seq(Payload), NEW t \in Seq(Payload), NEW u \in Seq(Payload),
           IsPrefix(s, t), IsPrefix(t, u)
    PROVE  IsPrefix(s, u)
<1>1. /\ Len(s) <= Len(t) /\ \A i \in 1..Len(s) : s[i] = t[i]
      /\ Len(t) <= Len(u) /\ \A i \in 1..Len(t) : t[i] = u[i]
  BY PrefixPointwise
<1>2. Len(s) \in Nat /\ Len(t) \in Nat /\ Len(u) \in Nat
  OBVIOUS
<1>3. Len(s) <= Len(u) /\ \A i \in 1..Len(s) : s[i] = u[i]
  BY <1>1, <1>2
<1> QED BY <1>3, PrefixPointwise

Keeps(s, t) == IsPrefix(s.events, t.events) /\ (s.status # "reading" => t = s)

LEMMA KeepsItself ==
    ASSUME NEW s \in Readings
    PROVE  Keeps(s, s)
<1>1. s.events \in Seq(Payload)
  BY DEF Readings
<1>2. IsPrefix(s.events, s.events)
  BY <1>1, PrefixPointwise
<1> QED BY <1>2 DEF Keeps

LEMMA KeepsOn ==
    ASSUME NEW s \in Readings, NEW t \in Readings, NEW u \in Readings, Keeps(s, t), Keeps(t, u)
    PROVE  Keeps(s, u)
<1>1. s.events \in Seq(Payload) /\ t.events \in Seq(Payload) /\ u.events \in Seq(Payload)
  BY DEF Readings
<1>2. IsPrefix(s.events, u.events)
  BY <1>1, PrefixOn DEF Keeps
<1> QED BY <1>2 DEF Keeps

LEMMA PrefixOfConcat ==
    ASSUME NEW S, NEW s \in Seq(S), NEW t \in Seq(S)
    PROVE  IsPrefix(s, s \o t)
<1>1. s \o t \in Seq(S)
  BY ConcatProperties
<1>2. Len(s) <= Len(s \o t) /\ \A i \in 1..Len(s) : s[i] = (s \o t)[i]
  <2>1. Len(s \o t) = Len(s) + Len(t) /\ Len(s) \in Nat /\ Len(t) \in Nat
    BY ConcatProperties
  <2>2. \A i \in 1..Len(s) + Len(t) : (s \o t)[i] = IF i <= Len(s) THEN s[i] ELSE t[i - Len(s)]
    BY ConcatProperties
  <2> QED BY <2>1, <2>2
<1> QED BY <1>1, <1>2, PrefixPointwise

LEMMA OverLineKeeps ==
    ASSUME NEW s \in Readings, NEW line \in Texts
    PROVE  Keeps(s, OverLine(s, line))
<1>1. s.events \in Seq(Payload) /\ s.event.data_lines \in Payload
  BY DEF Readings, InProgress
<1>2. IsPrefix(s.events, s.events)
  BY KeepsItself DEF Keeps
<1>3. IsPrefix(s.events, s.events \o Dispatched(s.event.data_lines))
  BY <1>1, DispatchedType, PrefixOfConcat
<1>4. CASE s.status # "reading"
  BY <1>4, OverLineCases, KeepsItself
<1>5. CASE s.status = "reading"
  <2> DEFINE e == Costs(s.event, line)
  <2>1. CASE TooLarge(e)
    <3>1. OverLine(s, line) = [s EXCEPT !.status = "failed"]
      BY <1>5, <2>1, OverLineCases
    <3>2. OverLine(s, line).events = s.events
      BY <3>1 DEF Readings
    <3> QED BY <1>2, <1>5, <3>2 DEF Keeps
  <2>2. CASE ~TooLarge(e) /\ line = <<>>
    <3> DEFINE found  == s.events \o Dispatched(s.event.data_lines)
               behind == Afterwards(s.event.data_lines)
    <3>1. OverLine(s, line) = [events |-> found, event |-> NoEvent, status |-> behind]
      BY <1>5, <2>2, OverLineCases
    <3>2. IsPrefix(s.events, found)
      BY <1>3
    <3> HIDE DEF found, behind
    <3>3. OverLine(s, line).events = found
      BY ONLY <3>1
    <3> QED BY <1>5, <3>2, <3>3 DEF Keeps
  <2>3. CASE ~TooLarge(e) /\ line # <<>>
    <3>1. OverLine(s, line) = [s EXCEPT !.event = Takes(e, line)]
      BY <1>5, <2>3, OverLineCases
    <3>2. OverLine(s, line).events = s.events
      BY <3>1 DEF Readings
    <3> QED BY <1>2, <1>5, <3>2 DEF Keeps
  <2> QED BY <2>1, <2>2, <2>3
<1> QED BY <1>4, <1>5

EndsLine(s, token) == IsEnd(token) /\ ~(token = LF /\ s.cr)

LEMMA AfterTokenCases ==
    ASSUME NEW s \in Splits, NEW token \in Tokens
    PROVE  /\ EndsLine(s, token) =>
                  AfterToken(s, token) = [lines |-> Append(s.lines, s.line), line |-> <<>>,
                                          cr |-> token = CR]
           /\ IsEnd(token) /\ ~EndsLine(s, token) =>
                  AfterToken(s, token) = [s EXCEPT !.cr = FALSE]
           /\ ~IsEnd(token) =>
                  AfterToken(s, token) = [lines |-> s.lines, line |-> Append(s.line, token),
                                          cr |-> FALSE]
<1>1. EndsLine(s, token) =>
          AfterToken(s, token) = [lines |-> Append(s.lines, s.line), line |-> <<>>,
                                  cr |-> token = CR]
  BY DEF EndsLine, AfterToken
<1>2. IsEnd(token) /\ ~EndsLine(s, token) => AfterToken(s, token) = [s EXCEPT !.cr = FALSE]
  BY DEF EndsLine, AfterToken
<1>3. ASSUME ~IsEnd(token)
      PROVE  AfterToken(s, token) = [lines |-> s.lines, line |-> Append(s.line, token), cr |-> FALSE]
  <2>1. token # LF
    BY <1>3 DEF IsEnd
  <2>2. AfterToken(s, token) = [s EXCEPT !.line = Append(@, token), !.cr = FALSE]
    BY <1>3, <2>1 DEF AfterToken
  <2> QED BY <2>2 DEF Splits
<1> QED BY <1>1, <1>2, <1>3

LEMMA ReadSteps ==
    ASSUME NEW r \in Texts
    PROVE  /\ Read(r, 0) = Unread
           /\ \A n \in 0..Len(r) : Read(r, n) \in Readings
           /\ \A n \in 0..(Len(r) - 1) :
                  /\ EndsLine(At(r, n), r[n + 1]) =>
                         Read(r, n + 1) = OverLine(Read(r, n), At(r, n).line)
                  /\ ~EndsLine(At(r, n), r[n + 1]) => Read(r, n + 1) = Read(r, n)
<1>1. Len(r) \in Nat /\ \A n \in 1..Len(r) : r[n] \in Tokens
  BY DEF Texts
<1>2. ASSUME NEW n \in 0..Len(r)
      PROVE  Read(r, n) \in Readings /\ At(r, n).lines \in Payload /\ At(r, n).line \in Texts
  <2>1. At(r, n).lines \in Payload /\ At(r, n).line \in Texts
    BY AtSteps DEF Splits, Payload
  <2> QED BY <2>1, OverLinesType DEF Read
<1>3. ASSUME NEW n \in 0..(Len(r) - 1)
      PROVE  /\ EndsLine(At(r, n), r[n + 1]) =>
                    Read(r, n + 1) = OverLine(Read(r, n), At(r, n).line)
             /\ ~EndsLine(At(r, n), r[n + 1]) => Read(r, n + 1) = Read(r, n)
  <2> DEFINE s == At(r, n)
             token == r[n + 1]
  <2>1. /\ n \in 0..Len(r) /\ token \in Tokens /\ s \in Splits
        /\ At(r, n + 1) = AfterToken(s, token)
    BY <1>1, AtSteps
  <2>2. s.lines \in Payload /\ s.line \in Texts
    BY <1>2, <2>1
  <2>3. Read(r, n) = OverLines(s.lines) /\ Read(r, n + 1) = OverLines(AfterToken(s, token).lines)
    BY <2>1 DEF Read
  <2> HIDE DEF s, token
  <2>4. EndsLine(s, token) => AfterToken(s, token).lines = Append(s.lines, s.line)
    BY <2>1, AfterTokenCases
  <2>5. ~EndsLine(s, token) => AfterToken(s, token).lines = s.lines
    BY <2>1, AfterTokenCases DEF Splits
  <2>6. OverLines(Append(s.lines, s.line)) = OverLine(OverLines(s.lines), s.line)
    BY <2>2, OverLinesAppend
  <2> QED BY <2>3, <2>4, <2>5, <2>6 DEF s, token
<1>4. Read(r, 0) = Unread
  BY AtSteps, OverNoLines DEF Read, NoLines
<1> QED BY <1>2, <1>3, <1>4

LEMMA ReadKeeps ==
    ASSUME NEW r \in Texts, NEW m \in 0..Len(r), NEW n \in m..Len(r)
    PROVE  Keeps(Read(r, m), Read(r, n))
<1> DEFINE N == Len(r)
           T == {k \in 0..N : k >= m => Keeps(Read(r, m), Read(r, k))}
<1>1. N \in Nat /\ \A k \in 0..N : Read(r, k) \in Readings
  BY ReadSteps DEF Texts
<1>2. Keeps(Read(r, m), Read(r, m))
  BY <1>1, KeepsItself
<1>3. 0 \in T
  BY <1>1, <1>2
<1>4. ASSUME NEW k \in 0..N, k \in T, k # N PROVE k + 1 \in T
  <2>1. k \in 0..(N - 1) /\ k + 1 \in 0..N
    BY <1>1, <1>4
  <2>2. CASE k + 1 = m
    BY <1>2, <2>1, <2>2
  <2>3. CASE k >= m
    <3>1. Keeps(Read(r, m), Read(r, k))
      BY <1>4, <2>3
    <3>2. At(r, k).line \in Texts
      BY <2>1, AtSteps DEF Splits
    <3>3. Keeps(Read(r, k), Read(r, k + 1))
      BY <1>1, <2>1, <3>2, ReadSteps, OverLineKeeps, KeepsItself
    <3>4. Keeps(Read(r, m), Read(r, k + 1))
      BY <1>1, <2>1, <3>1, <3>3, KeepsOn
    <3> QED BY <2>1, <3>4
  <2>4. CASE k + 1 < m
    BY <2>1, <2>4
  <2> QED BY <1>1, <2>1, <2>2, <2>3, <2>4
<1> HIDE DEF T
<1>5. 0..N \subseteq T
  BY <1>1, <1>3, <1>4, UpTo
<1>6. n \in T /\ n >= m
  BY <1>1, <1>5
<1> QED BY <1>6 DEF T

-----------------------------------------------------------------------------
(* A line of the body, from behind one end to the next.                     *)

\* Behind k bytes no line is begun, and what follows is not half of an end.
Clean(r, k) == At(r, k).line = <<>> /\ (At(r, k).cr /\ k < Len(r) => r[k + 1] # LF)

NoEnds(r, k, n) == \A i \in (k + 1)..n : ~IsEnd(r[i])

LEMMA OneMore ==
    ASSUME NEW r \in Texts, NEW k \in 0..Len(r), NEW n \in k..(Len(r) - 1)
    PROVE  Append(SubSeq(r, k + 1, n), r[n + 1]) = SubSeq(r, k + 1, n + 1)
<1>1. Len(r) \in Nat
  BY DEF Texts
<1>2. k + 1 \in 1..Len(r) /\ n + 1 \in (k + 1)..Len(r) /\ (n + 1) - 1 = n
  BY <1>1
<1>3. SubSeq(r, k + 1, n + 1) = SubSeq(r, k + 1, (n + 1) - 1) \o <<r[n + 1]>>
  BY <1>2, SubSeqRecursiveSecond DEF Texts
<1>4. SubSeq(r, k + 1, n) \in Seq(Tokens)
  <2>1. \A i \in (k + 1)..n : r[i] \in Tokens
    BY <1>1 DEF Texts
  <2>2. k + 1 \in Int /\ n \in Int
    BY <1>1
  <2> QED BY <2>1, <2>2, SubSeqProperties
<1>5. r[n + 1] \in Tokens
  BY <1>1, <1>2 DEF Texts
<1>6. Append(SubSeq(r, k + 1, n), r[n + 1]) = SubSeq(r, k + 1, n) \o <<r[n + 1]>>
  BY <1>4, <1>5, AppendIsConcat
<1> QED BY <1>2, <1>3, <1>6

LEMMA Within ==
    ASSUME NEW r \in Texts, NEW k \in 0..Len(r), NEW n \in k..Len(r), Clean(r, k), NoEnds(r, k, n)
    PROVE  /\ At(r, n).lines = At(r, k).lines
           /\ At(r, n).line = SubSeq(r, k + 1, n)
           /\ n # k => ~At(r, n).cr
<1> DEFINE N == Len(r)
           Good(m) == /\ At(r, m).lines = At(r, k).lines
                      /\ At(r, m).line = SubSeq(r, k + 1, m)
                      /\ m # k => ~At(r, m).cr
           T == {m \in 0..N : m >= k /\ m <= n => Good(m)}
<1>1. N \in Nat /\ \A m \in 1..N : r[m] \in Tokens
  BY DEF Texts
<1>2. Good(k)
  <2>1. SubSeq(r, k + 1, k) = <<>>
    <3>1. k + 1 \in Int /\ k \in Int /\ k < k + 1
      BY <1>1
    <3> QED BY <3>1, SubSeqEmpty
  <2> QED BY <2>1 DEF Clean
<1>3. 0 \in T
  <2>1. 0 >= k => k = 0
    BY <1>1
  <2>2. 0 >= k => Good(0)
    BY <1>2, <2>1
  <2> HIDE DEF Good
  <2> QED BY <1>1, <2>2
<1>4. ASSUME NEW m \in 0..N, m \in T, m # N PROVE m + 1 \in T
  <2> SUFFICES ASSUME m + 1 >= k, m + 1 <= n PROVE Good(m + 1)
    BY <1>1, <1>4
  <2>1. CASE m + 1 = k
    BY <1>2, <2>1
  <2>2. CASE m >= k
    <3>1. /\ m \in 0..(N - 1) /\ m + 1 \in (k + 1)..n /\ m \in k..(N - 1) /\ m \in 0..N
          /\ m + 1 \in 1..N /\ m + 1 # k
      BY <1>1, <1>4, <2>2
    <3>2. Good(m)
      BY <1>4, <2>2, <3>1
    <3>3. ~IsEnd(r[m + 1]) /\ r[m + 1] \in Tokens
      BY <1>1, <3>1 DEF NoEnds
    <3>4. At(r, m + 1) = AfterToken(At(r, m), r[m + 1]) /\ At(r, m) \in Splits
      BY <3>1, AtSteps
    <3>5. At(r, m + 1) = [lines |-> At(r, m).lines, line |-> Append(At(r, m).line, r[m + 1]),
                          cr |-> FALSE]
      BY <3>3, <3>4, AfterTokenCases
    <3>6. Append(SubSeq(r, k + 1, m), r[m + 1]) = SubSeq(r, k + 1, m + 1)
      BY <3>1, OneMore
    <3>7. At(r, m + 1).lines = At(r, k).lines
      BY <3>2, <3>5
    <3>8. At(r, m + 1).line = SubSeq(r, k + 1, m + 1)
      <4>1. At(r, m + 1).line = Append(At(r, m).line, r[m + 1])
        BY ONLY <3>5
      <4>2. At(r, m).line = SubSeq(r, k + 1, m)
        BY <3>2
      <4> QED BY <3>6, <4>1, <4>2
    <3>9. ~At(r, m + 1).cr
      BY <3>5
    <3> QED BY <3>7, <3>8, <3>9
  <2> QED BY <1>1, <2>1, <2>2
<1> HIDE DEF T
<1>5. 0..N \subseteq T
  BY <1>1, <1>3, <1>4, UpTo
<1>6. n \in T /\ n >= k
  BY <1>1, <1>5
<1> QED BY <1>6 DEF T

LEMMA LineEnds ==
    ASSUME NEW r \in Texts, NEW k \in 0..(Len(r) - 1), NEW p \in (k + 1)..Len(r),
           Clean(r, k), NoEnds(r, k, p - 1), IsEnd(r[p])
    PROVE  /\ At(r, p).line = <<>> /\ At(r, p).cr = (r[p] = CR)
           /\ Read(r, p) = OverLine(Read(r, k), SubSeq(r, k + 1, p - 1))
<1>1. /\ Len(r) \in Nat /\ p - 1 \in k..Len(r) /\ k \in 0..Len(r) /\ p - 1 \in 0..(Len(r) - 1)
      /\ (p - 1) + 1 = p /\ p - 1 \in 0..Len(r) /\ p \in 1..Len(r)
  BY DEF Texts
<1>2. /\ At(r, p - 1).lines = At(r, k).lines
      /\ At(r, p - 1).line = SubSeq(r, k + 1, p - 1)
      /\ p - 1 # k => ~At(r, p - 1).cr
  BY <1>1, Within
<1>3. EndsLine(At(r, p - 1), r[p])
  <2>1. p - 1 = k => ~(r[p] = LF /\ At(r, p - 1).cr)
    BY <1>1 DEF Clean
  <2> QED BY <1>2, <2>1 DEF EndsLine
<1>4. At(r, p - 1) \in Splits /\ r[p] \in Tokens /\ At(r, p) = AfterToken(At(r, p - 1), r[p])
  <2>1. At(r, (p - 1) + 1) = AfterToken(At(r, p - 1), r[(p - 1) + 1])
    BY <1>1, AtSteps
  <2>2. r[p] \in Tokens
    BY <1>1 DEF Texts
  <2> QED BY <1>1, <2>1, <2>2, AtSteps
<1>5. At(r, p).line = <<>> /\ At(r, p).cr = (r[p] = CR)
  BY <1>3, <1>4, AfterTokenCases
<1>6. Read(r, p - 1) = Read(r, k)
  BY <1>2 DEF Read
<1>7. Read(r, p) = OverLine(Read(r, p - 1), At(r, p - 1).line)
  <2>1. EndsLine(At(r, p - 1), r[(p - 1) + 1]) =>
            Read(r, (p - 1) + 1) = OverLine(Read(r, p - 1), At(r, p - 1).line)
    BY <1>1, ReadSteps
  <2> QED BY <1>1, <1>3, <2>1
<1> QED BY <1>2, <1>5, <1>6, <1>7

LEMMA LineFeedFollows ==
    ASSUME NEW r \in Texts, NEW n \in 0..(Len(r) - 1),
           At(r, n).line = <<>>, At(r, n).cr, r[n + 1] = LF
    PROVE  At(r, n + 1).line = <<>> /\ ~At(r, n + 1).cr /\ Read(r, n + 1) = Read(r, n)
<1>1. Len(r) \in Nat /\ n + 1 \in 1..Len(r) /\ n \in 0..Len(r)
  BY DEF Texts
<1>2. /\ At(r, n) \in Splits /\ r[n + 1] \in Tokens
      /\ At(r, n + 1) = AfterToken(At(r, n), r[n + 1])
  <2>1. r[n + 1] \in Tokens
    BY <1>1 DEF Texts
  <2>2. At(r, n) \in Splits
    BY <1>1, AtSteps
  <2>3. At(r, n + 1) = AfterToken(At(r, n), r[n + 1])
    BY AtSteps
  <2> QED BY <2>1, <2>2, <2>3
<1>3. IsEnd(r[n + 1]) /\ ~EndsLine(At(r, n), r[n + 1])
  BY DEF IsEnd, EndsLine
<1>4. At(r, n + 1) = [At(r, n) EXCEPT !.cr = FALSE]
  BY <1>2, <1>3, AfterTokenCases
<1>5. At(r, n + 1).line = <<>> /\ ~At(r, n + 1).cr
  BY <1>2, <1>4 DEF Splits
<1> QED BY <1>3, <1>5, ReadSteps

-----------------------------------------------------------------------------
(* The decoder, whose buffer is what is left of the body.                   *)

Consumed(d, r) == Len(r) - Len(d.buffer)

\* r is the body; before are the events of earlier scans.
Behind(d, r) ==
    /\ d \in Decoders /\ Len(d.buffer) <= Len(r)
    /\ \A i \in 1..Len(d.buffer) : d.buffer[i] = r[Consumed(d, r) + i]

\* What was read is what parse_sse_bytes reads of the bytes consumed.
Reads(d, r, before) ==
    Read(r, Consumed(d, r)) = [events |-> before \o d.out, event |-> d.event, status |-> d.status]

Reading(d, r, before, eof) ==
    /\ Reads(d, r, before)
    /\ Clean(r, Consumed(d, r))
    /\ At(r, Consumed(d, r)).cr /\ ~eof => Consumed(d, r) < Len(r)
    /\ \A i \in 1..Consumed(d, r) : r[i] # Invalid
    /\ d.event.event_size <= MaxEventBytes

Scanned(d, r, before, eof) ==
    /\ Behind(d, r)
    /\ d.status = "reading" =>
           /\ Reading(d, r, before, eof)
           /\ d.scan_offset <= Len(d.buffer)
           /\ \A i \in 1..d.scan_offset : ~IsEnd(d.buffer[i])
    /\ d.status = "done" => Reads(d, r, before)
    /\ d.status = "failed" => Read(r, Consumed(d, r)).status = "failed" \/ Invalid \in ToSet(r)

\* Nothing whole is left in the buffer.
Settled(d, eof) ==
    \/ d.status # "reading"
    \/ d.scan_offset = Len(d.buffer)
    \/ ~eof /\ d.scan_offset + 1 = Len(d.buffer) /\ d.buffer[Len(d.buffer)] = CR

Awaiting ==
    /\ decoder \in Decoders /\ decoder.status = "reading"
    /\ Scanned([decoder EXCEPT !.out = <<>>], received, events, FALSE)
    /\ Settled(decoder, FALSE)

IInv ==
    /\ received \in Texts /\ events \in Seq(Payload)
    /\ ended \in {"no", "closed", "done", "failed"}
    /\ ended = "no" => Awaiting
    /\ ended # "no" => ChunkingIrrelevant

LEMMA ProcessLine ==
    ASSUME NEW d \in Decoders, NEW line \in Texts, d.status = "reading",
           NEW before \in Seq(Payload)
    PROVE  LET t == process_line(d, line)
           IN  /\ t \in Decoders /\ t.buffer = d.buffer
               /\ Invalid \in ToSet(line) => t.status = "failed"
               /\ Invalid \notin ToSet(line) =>
                      OverLine([events |-> before \o d.out, event |-> d.event,
                                status |-> "reading"], line)
                          = [events |-> before \o t.out, event |-> t.event, status |-> t.status]
               /\ t.status = "reading" => t.event.event_size <= MaxEventBytes
<1> DEFINE e == Costs(d.event, line)
           s == [events |-> before \o d.out, event |-> d.event, status |-> "reading"]
           found == Dispatched(d.event.data_lines)
<1>1. /\ d.event \in InProgress /\ d.event.data_lines \in Payload /\ d.out \in Seq(Payload)
      /\ d.buffer \in Texts /\ d.scan_offset \in Nat
  BY DEF Decoders, InProgress
<1>2. /\ e \in InProgress /\ e.data_lines = d.event.data_lines
      /\ Takes(e, line) \in InProgress /\ Takes(e, line).event_size = e.event_size
  BY <1>1, CostsType, TakesType
<1>3. before \o d.out \in Seq(Payload) /\ found \in Seq(Payload)
  BY <1>1, ConcatProperties, DispatchedType
<1>4. s \in Readings
  BY <1>1, <1>3 DEF Readings, Statuses
<1>5. CASE Invalid \in ToSet(line) \/ TooLarge(e)
  <2>1. process_line(d, line) = [d EXCEPT !.status = "failed"]
    BY <1>5 DEF process_line
  <2>2. /\ process_line(d, line) \in Decoders /\ process_line(d, line).buffer = d.buffer
        /\ process_line(d, line).status = "failed" /\ process_line(d, line).out = d.out
        /\ process_line(d, line).event = d.event
    BY <2>1 DEF Decoders, Statuses
  <2>3. ASSUME TooLarge(e)
        PROVE  OverLine(s, line) = [events |-> before \o d.out, event |-> d.event, status |-> "failed"]
    <3>1. OverLine(s, line) = [s EXCEPT !.status = "failed"]
      BY <1>4, <2>3, OverLineCases
    <3> QED BY <3>1
  <2> QED BY <1>5, <2>2, <2>3
<1>6. CASE Invalid \notin ToSet(line) /\ ~TooLarge(e) /\ line = <<>>
  <2> DEFINE u == [d EXCEPT !.event = e]
             behind == Afterwards(d.event.data_lines)
  <2>1. process_line(d, line) = dispatch(u)
    BY <1>6 DEF process_line
  <2>2. u.event.data_lines = d.event.data_lines /\ u.out = d.out /\ u.status = "reading"
        /\ u.buffer = d.buffer /\ u.scan_offset = d.scan_offset
        /\ u = [buffer |-> d.buffer, scan_offset |-> d.scan_offset, event |-> e,
                status |-> "reading", out |-> d.out]
    BY <1>2 DEF Decoders
  <2>3. dispatch(u) = [buffer |-> d.buffer, scan_offset |-> d.scan_offset, event |-> NoEvent,
                       status |-> behind, out |-> d.out \o found]
    <3>1. IsDone(d.event.data_lines) => behind = "done"
      BY DEF Afterwards
    <3>2. ~IsDone(d.event.data_lines) => behind = "reading"
      BY DEF Afterwards
    <3> HIDE DEF behind, found, u
    <3>3. dispatch(u) = [u EXCEPT !.out = d.out \o found, !.status = behind, !.event = NoEvent]
      BY <2>2, <3>1, <3>2 DEF dispatch, found
    <3> QED BY <2>2, <3>3
  <2>4. d.out \o found \in Seq(Payload)
    BY <1>1, <1>3, ConcatProperties
  <2>5. behind \in {"done", "reading"}
    BY AfterwardsType
  <2>6. OverLine(s, line) = [events |-> (before \o d.out) \o found, event |-> NoEvent,
                             status |-> behind]
    <3>1. s.events = before \o d.out /\ s.event = d.event /\ s.status = "reading"
      OBVIOUS
    <3> HIDE DEF s
    <3> QED BY <1>4, <1>6, <3>1, OverLineCases
  <2>7. (before \o d.out) \o found = before \o (d.out \o found)
    <3>1. before \in Seq(Payload) /\ d.out \in Seq(Payload) /\ found \in Seq(Payload)
      BY <1>1, <1>3
    <3>2. \A a, b, c \in Seq(Payload) : (a \o b) \o c = a \o (b \o c)
      BY ConcatAssociative
    <3> HIDE DEF found
    <3> QED BY ONLY <3>1, <3>2
  <2>8. process_line(d, line) \in Decoders
    <3> HIDE DEF u, behind, found
    <3> QED BY <1>1, <2>1, <2>3, <2>4, <2>5, NoEventType DEF Decoders, Statuses
  <2>9. NoEvent.event_size <= MaxEventBytes
    BY NoEventType, DecoderAssumption DEF DecoderAssumption
  <2>10. LET t == process_line(d, line)
         IN  t.out = d.out \o found /\ t.event = NoEvent /\ t.status = behind /\ t.buffer = d.buffer
    <3> HIDE DEF u, behind, found
    <3> QED BY <2>1, <2>3
  <2> HIDE DEF u, behind, found, s
  <2> QED BY <1>6, <2>6, <2>7, <2>8, <2>9, <2>10 DEF s
<1>7. CASE Invalid \notin ToSet(line) /\ ~TooLarge(e) /\ line # <<>>
  <2> DEFINE f == Takes(e, line)
  <2>1. process_line(d, line) = [d EXCEPT !.event = f]
    BY <1>7 DEF process_line
  <2>2. OverLine(s, line) = [s EXCEPT !.event = f]
    BY <1>4, <1>7, OverLineCases
  <2>3. f \in InProgress /\ f.event_size = e.event_size /\ e.event_size <= MaxEventBytes
    BY <1>2, <1>7, DecoderAssumption DEF TooLarge, DecoderAssumption, InProgress
  <2> HIDE DEF f
  <2>4. LET t == process_line(d, line)
        IN  /\ t \in Decoders /\ t.out = d.out /\ t.event = f /\ t.status = "reading"
            /\ t.buffer = d.buffer
    BY <2>1, <2>3 DEF Decoders
  <2>5. OverLine(s, line) = [events |-> before \o d.out, event |-> f, status |-> "reading"]
    BY <2>2
  <2> QED BY <1>7, <2>3, <2>4, <2>5
<1> QED BY <1>5, <1>6, <1>7

\* A round of the loop, case by case.
Ends(d)  == {i \in (d.scan_offset + 1)..Len(d.buffer) : IsEnd(d.buffer[i])}
First(d) == CHOOSE i \in Ends(d) : \A j \in Ends(d) : i <= j
Both(d)  == d.buffer[First(d)] = CR /\ First(d) < Len(d.buffer) /\ d.buffer[First(d) + 1] = LF
Ended(d) == SubSeq(d.buffer, 1, First(d) - 1)

LEMMA NextLineCases ==
    ASSUME NEW d, NEW eof
    PROVE  /\ d.status # "reading" => NextLine(d, eof) = d
           /\ d.status = "reading" /\ Ends(d) = {} =>
                  NextLine(d, eof) = [d EXCEPT !.scan_offset = Len(d.buffer)]
           /\ d.status = "reading" /\ Ends(d) # {} /\ Waits(d, First(d), eof) =>
                  NextLine(d, eof) = [d EXCEPT !.scan_offset = First(d) - 1]
           /\ d.status = "reading" /\ Ends(d) # {} /\ ~Waits(d, First(d), eof) /\ Both(d) =>
                  NextLine(d, eof) = Drained(process_line(d, Ended(d)), First(d) + 1)
           /\ d.status = "reading" /\ Ends(d) # {} /\ ~Waits(d, First(d), eof) /\ ~Both(d) =>
                  NextLine(d, eof) = Drained(process_line(d, Ended(d)), First(d))
BY DEF NextLine, Ends, First, Both, Ended

LEMMA FirstEnd ==
    ASSUME NEW d \in Decoders, Ends(d) # {}
    PROVE  /\ First(d) \in (d.scan_offset + 1)..Len(d.buffer)
           /\ IsEnd(d.buffer[First(d)])
           /\ \A i \in (d.scan_offset + 1)..(First(d) - 1) : ~IsEnd(d.buffer[i])
<1>1. d.scan_offset \in Nat /\ Len(d.buffer) \in Nat
  BY DEF Decoders, Texts
<1>2. Ends(d) \subseteq Nat
  BY <1>1 DEF Ends
<1>3. First(d) \in Ends(d) /\ \A j \in Ends(d) : First(d) <= j
  <2>1. \E i \in Ends(d) : \A j \in Ends(d) : i <= j
    BY <1>2, LeastOf
  <2> QED BY <2>1 DEF First
<1>4. ASSUME NEW i \in (d.scan_offset + 1)..(First(d) - 1), IsEnd(d.buffer[i]) PROVE FALSE
  <2>1. First(d) \in (d.scan_offset + 1)..Len(d.buffer)
    BY <1>3 DEF Ends
  <2>2. i \in (d.scan_offset + 1)..Len(d.buffer) /\ ~(First(d) <= i)
    BY <1>1, <2>1
  <2>3. i \in Ends(d)
    BY <1>4, <2>2 DEF Ends
  <2> QED BY <1>3, <2>2, <2>3
<1> QED BY <1>3, <1>4 DEF Ends

LEMMA DrainedIs ==
    ASSUME NEW d \in Decoders, NEW c \in 1..Len(d.buffer)
    PROVE  LET t == Drained(d, c)
           IN  /\ t \in Decoders /\ t.scan_offset = 0
               /\ t.event = d.event /\ t.status = d.status /\ t.out = d.out
               /\ Len(t.buffer) = Len(d.buffer) - c
               /\ \A i \in 1..(Len(d.buffer) - c) : t.buffer[i] = d.buffer[c + i]
<1> DEFINE b == SubSeq(d.buffer, c + 1, Len(d.buffer))
           L == Len(d.buffer)
<1>1. L \in Nat /\ \A i \in 1..L : d.buffer[i] \in Tokens
  BY DEF Decoders, Texts
<1>2. b \in Texts /\ Len(b) = L - c /\ \A i \in 1..(L - c) : b[i] = d.buffer[c + i]
  <2>1. c + 1 \in Int /\ L \in Int /\ \A i \in (c + 1)..L : d.buffer[i] \in Tokens
    BY <1>1
  <2>2. /\ b \in Seq(Tokens) /\ Len(b) = IF c + 1 <= L THEN L - (c + 1) + 1 ELSE 0
        /\ \A i \in 1..(L - (c + 1) + 1) : b[i] = d.buffer[(c + 1) + i - 1]
    <3> HIDE DEF L
    <3> QED BY <2>1, SubSeqProperties DEF L
  <2>3. L - (c + 1) + 1 = L - c /\ (~(c + 1 <= L) => L - c = 0)
    BY <1>1
  <2>4. ASSUME NEW i \in 1..(L - c) PROVE b[i] = d.buffer[c + i]
    <3>1. i \in 1..(L - (c + 1) + 1) /\ (c + 1) + i - 1 = c + i
      BY <1>1
    <3> QED BY <2>2, <3>1
  <2> QED BY <2>2, <2>3, <2>4 DEF Texts
<1>3. Drained(d, c) = [d EXCEPT !.buffer = b, !.scan_offset = 0]
  BY DEF Drained
<1> HIDE DEF b
<1>4. LET t == Drained(d, c)
      IN  /\ t \in Decoders /\ t.scan_offset = 0 /\ t.buffer = b
          /\ t.event = d.event /\ t.status = d.status /\ t.out = d.out
  <2>1. b \in Texts /\ 0 \in Nat
    BY <1>2
  <2> QED BY ONLY <1>3, <2>1, d \in Decoders DEF Decoders
<1> QED BY <1>2, <1>4

LEMMA EndedIs ==
    ASSUME NEW d \in Decoders, NEW r \in Texts, Behind(d, r), Ends(d) # {}
    PROVE  /\ Ended(d) \in Texts
           /\ Ended(d) = SubSeq(r, Consumed(d, r) + 1, Consumed(d, r) + First(d) - 1)
<1> DEFINE k == Consumed(d, r)
           i == First(d)
           a == Ended(d)
           b == SubSeq(r, k + 1, k + i - 1)
<1>1. Len(d.buffer) \in Nat /\ Len(r) \in Nat /\ Len(d.buffer) <= Len(r) /\ d.scan_offset \in Nat
  BY DEF Behind, Decoders, Texts
<1>2. i \in 1..Len(d.buffer)
  BY <1>1, FirstEnd
<1>3. k \in Nat /\ k + Len(d.buffer) = Len(r)
  BY <1>1 DEF Consumed
<1> HIDE DEF k, i
<1>4. \A j \in 1..(i - 1) : d.buffer[j] \in Tokens
  BY <1>1, <1>2 DEF Decoders, Texts
<1>5. a \in Seq(Tokens) /\ Len(a) = i - 1 /\ \A j \in 1..(i - 1) : a[j] = d.buffer[j]
  <2>1. 1 \in Int /\ i - 1 \in Int
    BY <1>1, <1>2
  <2>2. /\ a \in Seq(Tokens) /\ Len(a) = IF 1 <= i - 1 THEN (i - 1) - 1 + 1 ELSE 0
        /\ \A j \in 1..((i - 1) - 1 + 1) : a[j] = d.buffer[1 + j - 1]
    BY <1>4, <2>1, SubSeqProperties DEF Ended, i
  <2> QED BY <1>1, <1>2, <2>2
<1>6. b \in Seq(Tokens) /\ Len(b) = i - 1 /\ \A j \in 1..(i - 1) : b[j] = r[k + j]
  <2>1. k + 1 \in Int /\ k + i - 1 \in Int
    BY <1>1, <1>2, <1>3
  <2>2. \A j \in (k + 1)..(k + i - 1) : r[j] \in Tokens
    BY <1>1, <1>2, <1>3 DEF Texts
  <2>3. /\ b \in Seq(Tokens) /\ Len(b) = IF k + 1 <= k + i - 1 THEN (k + i - 1) - (k + 1) + 1 ELSE 0
        /\ \A j \in 1..((k + i - 1) - (k + 1) + 1) : b[j] = r[(k + 1) + j - 1]
    BY <2>1, <2>2, SubSeqProperties
  <2>4. Len(b) = i - 1
    BY <1>1, <1>2, <1>3, <2>3
  <2>5. ASSUME NEW j \in 1..(i - 1) PROVE b[j] = r[k + j]
    <3>1. j \in 1..((k + i - 1) - (k + 1) + 1) /\ (k + 1) + j - 1 = k + j
      BY <1>1, <1>2, <1>3
    <3> QED BY <2>3, <3>1
  <2> QED BY <2>3, <2>4, <2>5
<1>7. \A j \in 1..(i - 1) : d.buffer[j] = r[k + j]
  BY <1>1, <1>2 DEF Behind, k
<1> HIDE DEF a, b
<1>8. a = b
  <2>1. Len(a) = Len(b) /\ \A j \in 1..Len(a) : a[j] = b[j]
    BY <1>5, <1>6, <1>7
  <2> QED BY <1>5, <1>6, <2>1, SeqEqual
<1> QED BY <1>5, <1>8 DEF a, b, k, i, Texts

\* The bytes up to the end of the next line: what of them is read.
LEMMA LineConsumed ==
    ASSUME NEW d \in Decoders, NEW r \in Texts, NEW before \in Seq(Payload), NEW eof \in BOOLEAN,
           Scanned(d, r, before, eof), d.status = "reading", Ends(d) # {},
           ~Waits(d, First(d), eof),
           NEW c, c = IF Both(d) THEN First(d) + 1 ELSE First(d)
    PROVE  LET k == Consumed(d, r)
               q == k + c
           IN  /\ c \in 1..Len(d.buffer) /\ q \in 1..Len(r)
               /\ Read(r, q) = OverLine(Read(r, k), Ended(d))
               /\ Clean(r, q)
               /\ At(r, q).cr /\ ~eof => q < Len(r)
               /\ Invalid \notin ToSet(Ended(d)) => \A j \in 1..q : r[j] # Invalid
<1> DEFINE k == Consumed(d, r)
           i == First(d)
           L == Len(d.buffer)
           N == Len(r)
           p == k + i
           q == k + c
<1>1. Behind(d, r) /\ Reading(d, r, before, eof) /\ d.scan_offset <= L
      /\ \A j \in 1..d.scan_offset : ~IsEnd(d.buffer[j])
  BY DEF Scanned
<1>2. L \in Nat /\ N \in Nat /\ k \in Nat /\ k + L = N /\ d.scan_offset \in Nat
  BY <1>1 DEF Behind, Decoders, Texts, Consumed
<1>3. /\ i \in (d.scan_offset + 1)..L /\ IsEnd(d.buffer[i])
      /\ \A j \in (d.scan_offset + 1)..(i - 1) : ~IsEnd(d.buffer[j])
  BY FirstEnd
<1>4. \A j \in 1..L : d.buffer[j] = r[k + j]
  BY <1>1 DEF Behind
<1>5. Ended(d) \in Texts /\ Ended(d) = SubSeq(r, k + 1, k + i - 1)
  <2>1. Behind(d, r)
    BY <1>1
  <2> QED BY <2>1, EndedIs
<1> HIDE DEF k, i, L, N
<1>16. d.buffer[i] = r[p] /\ (i < L => d.buffer[i + 1] = r[p + 1])
  <2>1. i \in 1..L /\ (i < L => i + 1 \in 1..L) /\ k + (i + 1) = p + 1
    BY <1>2, <1>3
  <2> QED BY <1>4, <2>1
<1>6. Both(d) => r[p] = CR /\ i < L /\ r[p + 1] = LF
  BY <1>16 DEF Both, i, L
<1>7. ~Both(d) /\ r[p] = CR /\ i < L => r[p + 1] # LF
  BY <1>16 DEF Both, i, L
<1>8. r[p] = CR /\ i = L => eof
  BY <1>16 DEF Waits, i, L
<1>9. /\ k \in 0..(N - 1) /\ p \in (k + 1)..N /\ i \in 1..L /\ p - 1 \in Nat
  BY <1>2, <1>3
<1>10. NoEnds(r, k, p - 1)
  <2> SUFFICES ASSUME NEW m \in (k + 1)..(p - 1) PROVE ~IsEnd(r[m])
    BY DEF NoEnds
  <2> DEFINE j == m - k
  <2>1. j \in 1..(i - 1) /\ j \in 1..L /\ k + j = m
    BY <1>2, <1>9
  <2>2. ~IsEnd(d.buffer[j])
    BY <1>1, <1>2, <1>3, <2>1
  <2> QED BY <1>4, <2>1, <2>2
<1>11. IsEnd(r[p]) /\ Clean(r, k)
  BY <1>1, <1>3, <1>4, <1>9 DEF Reading, k
<1>12. /\ At(r, p).line = <<>> /\ At(r, p).cr = (r[p] = CR)
       /\ Read(r, p) = OverLine(Read(r, k), Ended(d))
  <2> HIDE DEF p
  <2>1. /\ At(r, p).line = <<>> /\ At(r, p).cr = (r[p] = CR)
        /\ Read(r, p) = OverLine(Read(r, k), SubSeq(r, k + 1, p - 1))
    BY <1>9, <1>10, <1>11, LineEnds DEF N
  <2>2. p - 1 = k + i - 1
    BY <1>2, <1>9 DEF p
  <2> QED BY <1>5, <2>1, <2>2
<1>13. c \in 1..L /\ q \in 1..N
  BY <1>2, <1>6, <1>9 DEF i
<1>14. Read(r, q) = OverLine(Read(r, k), Ended(d)) /\ Clean(r, q) /\ (At(r, q).cr /\ ~eof => q < N)
  <2>1. CASE Both(d)
    <3>1. q = p + 1 /\ p \in 0..(N - 1)
      BY <1>2, <1>6, <1>9, <2>1 DEF i
    <3>2. At(r, p + 1).line = <<>> /\ ~At(r, p + 1).cr /\ Read(r, p + 1) = Read(r, p)
      BY <1>6, <1>12, <2>1, <3>1, LineFeedFollows DEF N
    <3> QED BY <1>12, <3>1, <3>2 DEF Clean
  <2>2. CASE ~Both(d)
    <3>1. q = p
      BY <2>2 DEF i
    <3>2. At(r, p).cr /\ p < N => r[p + 1] # LF
      <4>1. p < N => i < L
        BY <1>2, <1>9
      <4> QED BY <1>7, <1>12, <2>2, <4>1
    <3>3. At(r, p).cr /\ ~eof => p < N
      BY <1>2, <1>8, <1>9, <1>12
    <3> HIDE DEF p, q
    <3> QED BY <1>12, <3>1, <3>2, <3>3 DEF Clean, N
  <2> QED BY <2>1, <2>2
<1>15. ASSUME Invalid \notin ToSet(Ended(d)), NEW j \in 1..q PROVE r[j] # Invalid
  <2>1. CASE j \in 1..k
    BY <1>1, <2>1 DEF Reading, k
  <2>2. CASE j \in (k + 1)..(p - 1)
    <3> DEFINE m == j - k
    <3>1. m \in 1..(i - 1) /\ k + m = j /\ m \in 1..L
      BY <1>2, <1>9, <2>2
    <3>2. Len(Ended(d)) = i - 1 /\ Ended(d)[m] = d.buffer[m]
      <4>1. \A n \in 1..(i - 1) : d.buffer[n] \in Tokens
        BY <1>2, <1>9 DEF Decoders, Texts, L
      <4>2. 1 \in Int /\ i - 1 \in Int
        BY <1>9
      <4>3. /\ Len(Ended(d)) = IF 1 <= i - 1 THEN (i - 1) - 1 + 1 ELSE 0
            /\ \A n \in 1..((i - 1) - 1 + 1) : Ended(d)[n] = d.buffer[1 + n - 1]
        BY <4>1, <4>2, SubSeqProperties DEF Ended, i
      <4>4. m \in 1..((i - 1) - 1 + 1) /\ 1 + m - 1 = m /\ 1 <= i - 1
        BY <1>9, <3>1
      <4> HIDE DEF m
      <4>5. Ended(d)[m] = d.buffer[m]
        BY <4>3, <4>4
      <4>6. Len(Ended(d)) = i - 1
        BY <1>9, <4>3, <4>4
      <4> QED BY <4>5, <4>6
    <3>3. Ended(d)[m] \in ToSet(Ended(d))
      <4>1. m \in DOMAIN Ended(d)
        BY <1>5, <3>1, <3>2 DEF Texts
      <4> QED BY <4>1 DEF ToSet
    <3>4. r[j] = Ended(d)[m]
      BY <1>4, <3>1, <3>2
    <3> QED BY <1>15, <3>3, <3>4
  <2>3. CASE j = p
    <3>1. r[p] \in {CR, LF}
      BY <1>11 DEF IsEnd
    <3> QED BY <2>3, <3>1, TokensAre
  <2>4. CASE j = p + 1
    <3>1. Both(d)
      BY <1>2, <1>9, <1>15, <2>4 DEF i
    <3> QED BY <1>6, <2>4, <3>1, TokensAre
  <2>5. j \in 1..k \/ j \in (k + 1)..(p - 1) \/ j = p \/ j = p + 1
    <3>1. c \in {i, i + 1}
      BY DEF i
    <3> QED BY <1>2, <1>9, <1>15, <3>1
  <2> QED BY <2>1, <2>2, <2>3, <2>4, <2>5
<1> QED BY <1>13, <1>14, <1>15 DEF k, L, N

\* What is wrong with a line is wrong with the body.
LEMMA EndedWithin ==
    ASSUME NEW d \in Decoders, NEW r \in Texts, Behind(d, r), Ends(d) # {},
           Invalid \in ToSet(Ended(d))
    PROVE  Invalid \in ToSet(r)
<1> DEFINE k == Consumed(d, r)
           i == First(d)
<1>1. Ended(d) \in Texts /\ Ended(d) = SubSeq(r, k + 1, k + i - 1)
  BY EndedIs
<1>2. /\ Len(d.buffer) \in Nat /\ Len(r) \in Nat /\ k \in Nat /\ k + Len(d.buffer) = Len(r)
      /\ d.scan_offset \in Nat
  BY DEF Behind, Decoders, Texts, Consumed
<1>3. i \in 1..Len(d.buffer)
  BY <1>2, FirstEnd
<1>4. PICK m \in DOMAIN Ended(d) : Ended(d)[m] = Invalid
  BY DEF ToSet
<1> HIDE DEF k, i
<1>5. /\ Len(Ended(d)) = IF k + 1 <= k + i - 1 THEN (k + i - 1) - (k + 1) + 1 ELSE 0
      /\ \A j \in 1..((k + i - 1) - (k + 1) + 1) : Ended(d)[j] = r[(k + 1) + j - 1]
  <2>1. k + 1 \in Int /\ k + i - 1 \in Int /\ \A j \in (k + 1)..(k + i - 1) : r[j] \in Tokens
    BY <1>2, <1>3 DEF Texts
  <2> QED BY <1>1, <2>1, SubSeqProperties
<1>6. m \in 1..Len(Ended(d))
  BY <1>1, <1>4 DEF Texts
<1>7. m \in 1..((k + i - 1) - (k + 1) + 1) /\ (k + 1) + m - 1 \in 1..Len(r)
  <2> DEFINE N == Len(r)
             L == Len(d.buffer)
             M == Len(Ended(d))
  <2>1. /\ L \in Nat /\ N \in Nat /\ k \in Nat /\ k + L = N /\ i \in 1..L /\ m \in 1..M
        /\ M = IF k + 1 <= k + i - 1 THEN (k + i - 1) - (k + 1) + 1 ELSE 0
    BY <1>2, <1>3, <1>5, <1>6
  <2> HIDE DEF N, L, M
  <2>2. m \in 1..((k + i - 1) - (k + 1) + 1) /\ (k + 1) + m - 1 \in 1..N
    BY <2>1
  <2> QED BY <2>2 DEF N
<1>8. r[(k + 1) + m - 1] = Invalid
  BY <1>4, <1>5, <1>7
<1>9. (k + 1) + m - 1 \in DOMAIN r
  BY <1>7 DEF Texts
<1> QED BY <1>8, <1>9 DEF ToSet

LEMMA LineTaken ==
    ASSUME NEW d \in Decoders, NEW r \in Texts, NEW before \in Seq(Payload), NEW eof \in BOOLEAN,
           Scanned(d, r, before, eof), d.status = "reading", Ends(d) # {},
           ~Waits(d, First(d), eof),
           NEW c, c = IF Both(d) THEN First(d) + 1 ELSE First(d),
           NEW t, t = Drained(process_line(d, Ended(d)), c)
    PROVE  Scanned(t, r, before, eof) /\ Len(t.buffer) < Len(d.buffer)
<1> DEFINE k == Consumed(d, r)
           q == k + c
           u == process_line(d, Ended(d))
<1>1. Behind(d, r) /\ Reading(d, r, before, eof)
  BY DEF Scanned
<1>2. /\ Len(d.buffer) \in Nat /\ Len(r) \in Nat /\ k \in Nat /\ k + Len(d.buffer) = Len(r)
      /\ \A j \in 1..Len(d.buffer) : d.buffer[j] = r[k + j]
  BY <1>1 DEF Behind, Decoders, Texts, Consumed
<1>3. /\ c \in 1..Len(d.buffer) /\ q \in 1..Len(r)
      /\ Read(r, q) = OverLine(Read(r, k), Ended(d))
      /\ Clean(r, q)
      /\ At(r, q).cr /\ ~eof => q < Len(r)
      /\ Invalid \notin ToSet(Ended(d)) => \A j \in 1..q : r[j] # Invalid
  BY LineConsumed
<1>4. Ended(d) \in Texts
  BY <1>1, EndedIs
<1>5. Read(r, k) = [events |-> before \o d.out, event |-> d.event, status |-> "reading"]
  BY <1>1 DEF Reading, Reads
<1>6. /\ u \in Decoders /\ u.buffer = d.buffer
      /\ Invalid \in ToSet(Ended(d)) => u.status = "failed"
      /\ Invalid \notin ToSet(Ended(d)) =>
             OverLine([events |-> before \o d.out, event |-> d.event, status |-> "reading"], Ended(d))
                 = [events |-> before \o u.out, event |-> u.event, status |-> u.status]
      /\ u.status = "reading" => u.event.event_size <= MaxEventBytes
  BY <1>4, ProcessLine
<1> HIDE DEF k, u
<1>7. /\ t \in Decoders /\ t.scan_offset = 0
      /\ t.event = u.event /\ t.status = u.status /\ t.out = u.out
      /\ Len(t.buffer) = Len(d.buffer) - c
      /\ \A j \in 1..(Len(d.buffer) - c) : t.buffer[j] = d.buffer[c + j]
  <2>1. t = Drained(u, c) /\ c \in 1..Len(u.buffer)
    BY <1>3, <1>6 DEF u
  <2>2. u \in Decoders /\ u.buffer = d.buffer
    BY <1>6
  <2>3. /\ t \in Decoders /\ t.scan_offset = 0
        /\ t.event = u.event /\ t.status = u.status /\ t.out = u.out
        /\ Len(t.buffer) = Len(u.buffer) - c
        /\ \A j \in 1..(Len(u.buffer) - c) : t.buffer[j] = u.buffer[c + j]
    BY ONLY <2>1, <2>2, DrainedIs
  <2> QED BY <2>2, <2>3
<1>8. Consumed(t, r) = q
  <2>1. Len(r) - (Len(d.buffer) - c) = q
    BY <1>2, <1>3
  <2> QED BY <1>7, <2>1 DEF Consumed
<1>9. Behind(t, r)
  <2>1. ASSUME NEW j \in 1..Len(t.buffer) PROVE t.buffer[j] = r[q + j]
    <3>1. c + j \in 1..Len(d.buffer) /\ k + (c + j) = q + j
      <4> DEFINE L == Len(d.buffer)
      <4>1. L \in Nat /\ k \in Nat /\ c \in 1..L /\ j \in 1..(L - c)
        BY <1>2, <1>3, <1>7
      <4> HIDE DEF L
      <4>2. c + j \in 1..L /\ k + (c + j) = q + j
        BY <4>1
      <4> QED BY <4>2 DEF L
    <3>2. t.buffer[j] = d.buffer[c + j] /\ d.buffer[c + j] = r[k + (c + j)]
      BY <1>2, <1>7, <3>1
    <3> QED BY <3>1, <3>2
  <2>2. Len(t.buffer) <= Len(r)
    BY <1>2, <1>3, <1>7
  <2> QED BY <1>7, <1>8, <2>1, <2>2 DEF Behind
<1> HIDE DEF q
<1>10. Invalid \notin ToSet(Ended(d)) => Reads(t, r, before)
  BY <1>3, <1>5, <1>6, <1>7, <1>8 DEF Reads
<1>11. ASSUME t.status = "reading" PROVE Reading(t, r, before, eof)
  <2>1. Invalid \notin ToSet(Ended(d))
    BY <1>6, <1>7, <1>11
  <2>2. t.event.event_size <= MaxEventBytes
    BY <1>6, <1>7, <1>11
  <2> QED BY <1>3, <1>8, <1>10, <2>1, <2>2 DEF Reading
<1>12. ASSUME t.status = "done" PROVE Reads(t, r, before)
  BY <1>6, <1>7, <1>10, <1>12
<1>13. ASSUME t.status = "failed"
       PROVE  Read(r, Consumed(t, r)).status = "failed" \/ Invalid \in ToSet(r)
  <2>1. CASE Invalid \notin ToSet(Ended(d))
    <3>1. Read(r, Consumed(t, r)) =
              [events |-> before \o t.out, event |-> t.event, status |-> t.status]
      BY <1>10, <2>1 DEF Reads
    <3> QED BY <1>13, <3>1
  <2>2. CASE Invalid \in ToSet(Ended(d))
    <3>1. Invalid \in ToSet(r)
      BY <1>1, <2>2, EndedWithin
    <3> QED BY <3>1
  <2> QED BY <2>1, <2>2
<1>14. Len(t.buffer) < Len(d.buffer)
  BY <1>2, <1>3, <1>7
<1>15. t.scan_offset <= Len(t.buffer) /\ \A j \in 1..t.scan_offset : ~IsEnd(t.buffer[j])
  BY <1>2, <1>3, <1>7
<1> QED BY <1>9, <1>11, <1>12, <1>13, <1>14, <1>15 DEF Scanned

LEMMA NextLineKeeps ==
    ASSUME NEW d, NEW r \in Texts, NEW before \in Seq(Payload), NEW eof \in BOOLEAN,
           Scanned(d, r, before, eof)
    PROVE  LET t == NextLine(d, eof)
           IN  /\ Scanned(t, r, before, eof)
               /\ Settled(t, eof) \/ Len(t.buffer) < Len(d.buffer)
               /\ Settled(d, eof) => Settled(t, eof)
<1> DEFINE t == NextLine(d, eof)
<1>1. d \in Decoders /\ Behind(d, r) /\ d.scan_offset \in Nat /\ Len(d.buffer) \in Nat
  BY DEF Scanned, Behind, Decoders, Texts
<1>2. CASE d.status # "reading"
  <2>1. t = d
    BY <1>2, NextLineCases
  <2> QED BY <1>2, <2>1 DEF Settled
<1>3. ASSUME d.status = "reading", NEW n \in 0..Len(d.buffer), t = [d EXCEPT !.scan_offset = n],
             \A i \in 1..n : ~IsEnd(d.buffer[i])
      PROVE  Scanned(t, r, before, eof)
  <2>1. /\ t \in Decoders /\ t.buffer = d.buffer /\ t.status = d.status /\ t.out = d.out
        /\ t.event = d.event /\ t.scan_offset = n
    BY <1>1, <1>3 DEF Decoders
  <2>2. Consumed(t, r) = Consumed(d, r)
    BY <2>1 DEF Consumed
  <2>3. Behind(t, r)
    BY <1>1, <2>1, <2>2 DEF Behind
  <2>4. Reading(t, r, before, eof)
    BY <1>3, <2>1, <2>2 DEF Scanned, Reading, Reads
  <2> HIDE DEF t
  <2> QED BY <1>1, <1>3, <2>1, <2>3, <2>4 DEF Scanned
<1>4. ASSUME d.status = "reading" PROVE \A i \in 1..d.scan_offset : ~IsEnd(d.buffer[i])
  BY <1>4 DEF Scanned
<1>5. CASE d.status = "reading" /\ Ends(d) = {}
  <2>1. t = [d EXCEPT !.scan_offset = Len(d.buffer)]
    BY <1>5, NextLineCases
  <2>2. ASSUME NEW i \in 1..Len(d.buffer) PROVE ~IsEnd(d.buffer[i])
    <3>1. i \in 1..d.scan_offset \/ i \in (d.scan_offset + 1)..Len(d.buffer)
      BY <1>1
    <3> QED BY <1>4, <1>5, <3>1 DEF Ends
  <2>3. Scanned(t, r, before, eof)
    <3>1. Len(d.buffer) \in 0..Len(d.buffer)
      BY <1>1
    <3> HIDE DEF t
    <3> QED BY <1>3, <1>5, <2>1, <2>2, <3>1
  <2>4. t.scan_offset = Len(t.buffer)
    BY <1>1, <2>1 DEF Decoders
  <2> QED BY <2>3, <2>4 DEF Settled
<1>6. CASE d.status = "reading" /\ Ends(d) # {} /\ Waits(d, First(d), eof)
  <2>1. t = [d EXCEPT !.scan_offset = First(d) - 1]
    BY <1>6, NextLineCases
  <2>2. /\ First(d) \in (d.scan_offset + 1)..Len(d.buffer)
        /\ \A i \in (d.scan_offset + 1)..(First(d) - 1) : ~IsEnd(d.buffer[i])
    BY <1>1, <1>6, FirstEnd
  <2>3. First(d) - 1 \in 0..Len(d.buffer)
    BY <1>1, <2>2
  <2>4. ASSUME NEW i \in 1..(First(d) - 1) PROVE ~IsEnd(d.buffer[i])
    <3>1. i \in 1..d.scan_offset \/ i \in (d.scan_offset + 1)..(First(d) - 1)
      BY <1>1, <2>2
    <3> QED BY <1>4, <1>6, <2>2, <3>1
  <2>5. Scanned(t, r, before, eof)
    <3> HIDE DEF t
    <3> QED BY <1>3, <1>6, <2>1, <2>3, <2>4
  <2>6. t.scan_offset = First(d) - 1 /\ t.buffer = d.buffer
    BY <1>1, <2>1 DEF Decoders
  <2>7. d.buffer[First(d)] = CR /\ First(d) = Len(d.buffer) /\ ~eof
    BY <1>6 DEF Waits
  <2>8. t.scan_offset + 1 = Len(t.buffer) /\ t.buffer[Len(t.buffer)] = CR
    BY <1>1, <2>6, <2>7
  <2> QED BY <2>5, <2>7, <2>8 DEF Settled
<1>7. CASE d.status = "reading" /\ Ends(d) # {} /\ ~Waits(d, First(d), eof)
  <2> DEFINE c == IF Both(d) THEN First(d) + 1 ELSE First(d)
  <2>1. t = Drained(process_line(d, Ended(d)), c)
    BY <1>7, NextLineCases
  <2>2. Scanned(t, r, before, eof) /\ Len(t.buffer) < Len(d.buffer)
    <3>1. c = IF Both(d) THEN First(d) + 1 ELSE First(d)
      OBVIOUS
    <3> HIDE DEF c, t
    <3> QED BY <1>1, <1>7, <2>1, <3>1, LineTaken
  <2>3. ~Settled(d, eof)
    <3>1. First(d) \in (d.scan_offset + 1)..Len(d.buffer) /\ IsEnd(d.buffer[First(d)])
      BY <1>1, <1>7, FirstEnd
    <3>2. d.scan_offset # Len(d.buffer)
      BY <1>1, <3>1
    <3>3. d.scan_offset + 1 = Len(d.buffer) => First(d) = Len(d.buffer)
      BY <1>1, <3>1
    <3> QED BY <1>7, <3>2, <3>3 DEF Settled, Waits
  <2> QED BY <2>2, <2>3
<1> QED BY <1>2, <1>5, <1>6, <1>7

SoundDecoders(r, before, eof) == {d \in Decoders : Scanned(d, r, before, eof)}

RoundStep(N, r, before, eof) ==
    [p \in (1..N) \X SoundDecoders(r, before, eof) |-> NextLine(p[2], eof)]

LEMMA LinesKeeps ==
    ASSUME NEW d, NEW r \in Texts, NEW before \in Seq(Payload), NEW eof \in BOOLEAN,
           Scanned(d, r, before, eof)
    PROVE  Scanned(Lines(d, eof), r, before, eof) /\ Settled(Lines(d, eof), eof)
<1> DEFINE N == Len(d.buffer)
           D == SoundDecoders(r, before, eof)
           S == RoundStep(N, r, before, eof)
           G(f) == [n \in 0..N |-> IF n = 0 THEN d ELSE NextLine(f[n - 1], eof)]
<1>1. N \in Nat /\ d \in D
  BY DEF Scanned, Behind, SoundDecoders, Decoders, Texts
<1>2. ASSUME NEW x \in D PROVE NextLine(x, eof) \in D
  <2>1. Scanned(x, r, before, eof)
    BY DEF SoundDecoders
  <2>2. Scanned(NextLine(x, eof), r, before, eof)
    BY <2>1, NextLineKeeps
  <2> QED BY <2>2 DEF SoundDecoders, Scanned, Behind
<1> HIDE DEF N
<1>3. S \in [(1..N) \X D -> D]
  <2> HIDE DEF D
  <2> QED BY <1>2 DEF RoundStep, D
<1>4. PICK h : Walks(h, d, S, N, D)
  <2> HIDE DEF S, D
  <2> QED BY <1>1, <1>3, WalkExists
<1>5. /\ h \in [0..N -> D] /\ h[0] = d
      /\ \A n \in 1..N : h[n] = NextLine(h[n - 1], eof)
  <2>1. ASSUME NEW n \in 1..N PROVE h[n] = NextLine(h[n - 1], eof)
    <3>1. h[n - 1] \in D /\ h[n] = S[<<n, h[n - 1]>>]
      BY <1>1, <1>4 DEF Walks, Follows
    <3> QED BY <1>1, <3>1 DEF RoundStep
  <2> QED BY <1>4, <2>1 DEF Walks
<1>6. h = G(h)
  BY <1>1, <1>5
<1> DEFINE c == CHOOSE f : f = G(f)
<1>7. c = G(c) /\ Lines(d, eof) = c[N]
  <2>1. Lines(d, eof) = c[N]
    BY DEF Lines, N
  <2> QED BY <1>6, <2>1
<1> HIDE DEF c
<1>8. c[0] = d /\ \A n \in 1..N : c[n] = NextLine(c[n - 1], eof)
  <2>1. ASSUME NEW n \in 0..N PROVE c[n] = IF n = 0 THEN d ELSE NextLine(c[n - 1], eof)
    BY ONLY <1>7
  <2> QED BY <1>1, <2>1
<1> DEFINE T == {n \in 0..N : c[n] = h[n] /\ (Settled(h[n], eof) \/ Len(h[n].buffer) <= N - n)}
<1>9. 0 \in T
  <2>1. Len(h[0].buffer) <= N - 0
    BY <1>1, <1>5 DEF N
  <2> QED BY <1>1, <1>5, <1>8, <2>1
<1>10. ASSUME NEW n \in 0..N, n \in T, n # N PROVE n + 1 \in T
  <2>1. /\ n + 1 \in 1..N /\ n + 1 \in 0..N /\ (n + 1) - 1 = n /\ c[n] = h[n]
        /\ Settled(h[n], eof) \/ Len(h[n].buffer) <= N - n
    BY <1>1, <1>10
  <2>2. c[n + 1] = NextLine(c[n], eof) /\ h[n + 1] = NextLine(h[n], eof)
    <3>1. c[n + 1] = NextLine(c[(n + 1) - 1], eof) /\ h[n + 1] = NextLine(h[(n + 1) - 1], eof)
      BY <1>5, <1>8, <2>1
    <3> QED BY <2>1, <3>1
  <2>3. h[n] \in D /\ h[n + 1] \in D
    BY <1>5, <2>1
  <2>4. Scanned(h[n], r, before, eof) /\ Len(h[n].buffer) \in Nat /\ Len(h[n + 1].buffer) \in Nat
    BY <2>3 DEF SoundDecoders, Decoders, Texts
  <2>5. /\ Settled(h[n + 1], eof) \/ Len(h[n + 1].buffer) < Len(h[n].buffer)
        /\ Settled(h[n], eof) => Settled(h[n + 1], eof)
    BY <2>2, <2>4, NextLineKeeps
  <2>6. Settled(h[n + 1], eof) \/ Len(h[n + 1].buffer) <= N - (n + 1)
    BY <1>1, <2>1, <2>4, <2>5
  <2> QED BY <2>1, <2>2, <2>6
<1> HIDE DEF T
<1>11. 0..N \subseteq T
  BY <1>1, <1>9, <1>10, UpTo
<1>12. c[N] = h[N] /\ (Settled(h[N], eof) \/ Len(h[N].buffer) <= N - N) /\ h[N] \in D
  BY <1>1, <1>5, <1>11 DEF T
<1>13. Scanned(h[N], r, before, eof)
  BY <1>12 DEF SoundDecoders
<1>14. Settled(h[N], eof)
  <2>1. CASE Len(h[N].buffer) <= N - N
    <3>1. h[N].scan_offset \in Nat /\ Len(h[N].buffer) \in Nat
      BY <1>12 DEF SoundDecoders, Decoders, Texts
    <3>2. h[N].status = "reading" => h[N].scan_offset <= Len(h[N].buffer)
      BY <1>13 DEF Scanned
    <3>3. h[N].status = "reading" => h[N].scan_offset = Len(h[N].buffer)
      BY <1>1, <2>1, <3>1, <3>2
    <3> QED BY <3>3 DEF Settled
  <2> QED BY <1>12, <2>1
<1> QED BY <1>7, <1>12, <1>13, <1>14

-----------------------------------------------------------------------------
(* The whole body, and how a scan ends.                                     *)

\* What parse_sse_bytes has read before the event in progress is dispatched.
Total(r) ==
    IF At(r, Len(r)).line = <<>> THEN Read(r, Len(r))
    ELSE OverLine(Read(r, Len(r)), At(r, Len(r)).line)

LEMMA ParsedIs ==
    ASSUME NEW r \in Texts
    PROVE  LET s == Total(r)
           IN  /\ s \in Readings
               /\ s.status # "reading" => Parsed(r) = s
               /\ s.status = "reading" =>
                      /\ Parsed(r).events = s.events \o Dispatched(s.event.data_lines)
                      /\ Parsed(r).status = Afterwards(s.event.data_lines)
<1> DEFINE N == Len(r)
           s == Total(r)
           end == AfterTokens(r)
<1>1. At(r, N) = end /\ end \in Splits /\ Read(r, N) \in Readings
  <2>1. N \in 0..Len(r)
    BY DEF Texts
  <2> QED BY <2>1, AtAll, AtSteps, ReadSteps
<1>2. end.lines \in Payload /\ end.line \in Texts
  BY <1>1 DEF Splits, Payload
<1>3. s \in Readings
  BY <1>1, <1>2, OverLineType DEF Total
<1>4. LET split == split_sse_lines(r)
      IN  OverLines(split.ended \o split.rest) = s
  <2>1. CASE end.line = <<>>
    <3>1. end.lines \o <<>> = end.lines
      BY <1>2, ConcatEmptySeq DEF Payload
    <3>2. split_sse_lines(r) = [ended |-> end.lines, rest |-> <<>>]
      BY <2>1 DEF split_sse_lines
    <3>3. s = OverLines(end.lines)
      BY <1>1, <2>1 DEF Total, Read
    <3> QED BY <3>1, <3>2, <3>3
  <2>2. CASE end.line # <<>>
    <3>1. end.lines \o <<end.line>> = Append(end.lines, end.line)
      BY <1>2, AppendIsConcat DEF Payload
    <3>2. split_sse_lines(r) = [ended |-> end.lines, rest |-> <<end.line>>]
      BY <2>2 DEF split_sse_lines
    <3>3. s = OverLine(OverLines(end.lines), end.line)
      BY <1>1, <2>2 DEF Total, Read
    <3>4. OverLines(Append(end.lines, end.line)) = OverLine(OverLines(end.lines), end.line)
      BY <1>2, OverLinesAppend
    <3> DEFINE rest == <<end.line>>
    <3> HIDE DEF rest
    <3>5. split_sse_lines(r) = [ended |-> end.lines, rest |-> rest]
      BY <3>2 DEF rest
    <3>6. split_sse_lines(r).ended \o split_sse_lines(r).rest = Append(end.lines, end.line)
      BY <3>1, <3>5 DEF rest
    <3> QED BY <3>3, <3>4, <3>6
  <2> QED BY <2>1, <2>2
<1> HIDE DEF s
<1>5. /\ s.status # "reading" => Parsed(r) = s
      /\ s.status = "reading" =>
             Parsed(r) = [s EXCEPT !.events = @ \o Dispatched(s.event.data_lines),
                                   !.status = Afterwards(s.event.data_lines)]
  BY <1>4 DEF Parsed, Afterwards
<1>6. ASSUME s.status = "reading"
      PROVE  /\ Parsed(r).events = s.events \o Dispatched(s.event.data_lines)
             /\ Parsed(r).status = Afterwards(s.event.data_lines)
  <2> DEFINE found == s.events \o Dispatched(s.event.data_lines)
             behind == Afterwards(s.event.data_lines)
  <2>1. Parsed(r) = [s EXCEPT !.events = found, !.status = behind]
    BY <1>5, <1>6
  <2> HIDE DEF found, behind
  <2>2. Parsed(r).events = found /\ Parsed(r).status = behind
    BY <1>3, <2>1 DEF Readings
  <2> QED BY <2>2 DEF found, behind
<1> QED BY <1>3, <1>5, <1>6 DEF s

LEMMA ParsedKeeps ==
    ASSUME NEW r \in Texts, NEW k \in 0..Len(r)
    PROVE  /\ Keeps(Read(r, k), Total(r))
           /\ IsPrefix(Read(r, k).events, Parsed(r).events)
           /\ Read(r, k).status # "reading" => Parsed(r) = Read(r, k)
<1> DEFINE N == Len(r)
           a == Read(r, k)
           s == Total(r)
<1>1. N \in k..Len(r) /\ N \in 0..Len(r)
  BY DEF Texts
<1>2. a \in Readings /\ Read(r, N) \in Readings /\ s \in Readings /\ At(r, N).line \in Texts
  BY <1>1, AtSteps, ReadSteps, ParsedIs DEF Splits
<1>3. Keeps(a, Read(r, N))
  BY <1>1, ReadKeeps
<1>4. Keeps(Read(r, N), s)
  BY <1>2, OverLineKeeps, KeepsItself DEF Total
<1>5. Keeps(a, s)
  <2> HIDE DEF a, s
  <2> QED BY <1>2, <1>3, <1>4, KeepsOn
<1>6. IsPrefix(s.events, Parsed(r).events)
  <2>1. s.events \in Seq(Payload) /\ s.event.data_lines \in Payload
    BY <1>2 DEF Readings, InProgress
  <2>2. CASE s.status # "reading"
    <3>1. Parsed(r) = s
      BY <2>2, ParsedIs
    <3> QED BY <1>2, <3>1, KeepsItself DEF Keeps
  <2>3. CASE s.status = "reading"
    <3>1. Parsed(r).events = s.events \o Dispatched(s.event.data_lines)
      BY <2>3, ParsedIs
    <3>2. Dispatched(s.event.data_lines) \in Seq(Payload)
      BY <2>1, DispatchedType
    <3> HIDE DEF s
    <3> QED BY <2>1, <3>1, <3>2, PrefixOfConcat
  <2> QED BY <2>2, <2>3
<1>7. IsPrefix(a.events, Parsed(r).events)
  <2>1. Parsed(r).events \in Seq(Payload)
    <3>1. s.event.data_lines \in Payload /\ s.events \in Seq(Payload)
      BY <1>2 DEF Readings, InProgress
    <3>2. s.events \o Dispatched(s.event.data_lines) \in Seq(Payload)
      BY <3>1, DispatchedType, ConcatProperties
    <3> QED BY <3>1, <3>2, ParsedIs
  <2>2. IsPrefix(a.events, s.events)
    BY <1>5 DEF Keeps
  <2>3. a.events \in Seq(Payload) /\ s.events \in Seq(Payload)
    BY <1>2 DEF Readings
  <2> HIDE DEF a, s
  <2> QED BY <1>6, <2>1, <2>2, <2>3, PrefixOn
<1>8. a.status # "reading" => Parsed(r) = a
  BY <1>5, ParsedIs DEF Keeps
<1> QED BY <1>5, <1>7, <1>8

\* The line that is begun is what is left in the buffer.
LEMMA BufferIsLine ==
    ASSUME NEW d \in Decoders, NEW r \in Texts, NEW before \in Seq(Payload), NEW eof \in BOOLEAN,
           Scanned(d, r, before, eof), d.status = "reading", d.scan_offset = Len(d.buffer)
    PROVE  /\ At(r, Len(r)).lines = At(r, Consumed(d, r)).lines
           /\ At(r, Len(r)).line = d.buffer
           /\ Total(r) = IF d.buffer = <<>> THEN Read(r, Consumed(d, r))
                         ELSE OverLine(Read(r, Consumed(d, r)), d.buffer)
<1> DEFINE k == Consumed(d, r)
           N == Len(r)
           b == SubSeq(r, k + 1, N)
<1>1. /\ Len(d.buffer) \in Nat /\ N \in Nat /\ k \in Nat /\ k + Len(d.buffer) = N
      /\ \A j \in 1..Len(d.buffer) : d.buffer[j] = r[k + j] /\ ~IsEnd(d.buffer[j])
      /\ Clean(r, k) /\ d.buffer \in Texts
  BY DEF Scanned, Behind, Decoders, Texts, Consumed, Reading
<1> HIDE DEF k, N
<1>2. NoEnds(r, k, N)
  <2> SUFFICES ASSUME NEW m \in (k + 1)..N PROVE ~IsEnd(r[m])
    BY DEF NoEnds
  <2>1. m - k \in 1..Len(d.buffer) /\ k + (m - k) = m
    BY <1>1
  <2> QED BY <1>1, <2>1
<1>3. At(r, N).lines = At(r, k).lines /\ At(r, N).line = b
  <2>1. k \in 0..Len(r) /\ N \in k..Len(r)
    BY <1>1 DEF N
  <2> QED BY <1>1, <1>2, <2>1, Within
<1>4. b = d.buffer
  <2>1. \A i \in (k + 1)..N : r[i] \in Tokens
    BY <1>1 DEF Texts, N
  <2>2. k + 1 \in Int /\ N \in Int
    BY <1>1
  <2>3. /\ b \in Seq(Tokens) /\ Len(b) = IF k + 1 <= N THEN N - (k + 1) + 1 ELSE 0
        /\ \A j \in 1..(N - (k + 1) + 1) : b[j] = r[(k + 1) + j - 1]
    BY <2>1, <2>2, SubSeqProperties
  <2>4. Len(b) = Len(d.buffer)
    BY <1>1, <2>3
  <2>5. ASSUME NEW j \in 1..Len(b) PROVE b[j] = d.buffer[j]
    <3>1. j \in 1..(N - (k + 1) + 1) /\ (k + 1) + j - 1 = k + j /\ j \in 1..Len(d.buffer)
      BY <1>1, <2>4
    <3>2. b[j] = r[k + j]
      BY <2>3, <3>1
    <3> QED BY <1>1, <3>1, <3>2
  <2> HIDE DEF b
  <2> QED BY <1>1, <2>3, <2>4, <2>5, SeqEqual DEF Texts
<1>5. Read(r, N) = Read(r, k)
  BY <1>3 DEF Read
<1> QED BY <1>3, <1>4, <1>5 DEF Total, k, N

\* What the decoder gives up for its length, the parser gives up as well.
LEMMA TooLong ==
    ASSUME NEW d \in Decoders, NEW r \in Texts, NEW before \in Seq(Payload), NEW eof \in BOOLEAN,
           Scanned(d, r, before, eof), Settled(d, eof), d.status = "reading",
           d.event.event_size + Len(d.buffer) > MaxEventBytes
    PROVE  Parsed(r).status = "failed"
<1> DEFINE k == Consumed(d, r)
           N == Len(r)
           s == [events |-> before \o d.out, event |-> d.event, status |-> "reading"]
<1>1. /\ Len(d.buffer) \in Nat /\ N \in Nat /\ k \in Nat /\ k + Len(d.buffer) = N
      /\ \A j \in 1..Len(d.buffer) : d.buffer[j] = r[k + j]
      /\ Clean(r, k) /\ d.buffer \in Texts /\ d.event \in InProgress /\ d.event.event_size \in Nat
      /\ d.event.event_size <= MaxEventBytes /\ Read(r, k) = s /\ MaxEventBytes \in Nat
      /\ d.scan_offset \in Nat /\ \A j \in 1..d.scan_offset : ~IsEnd(d.buffer[j])
  BY DecoderAssumption
     DEF Scanned, Behind, Decoders, InProgress, Texts, Consumed, Reading, Reads, DecoderAssumption
<1>2. s \in Readings
  <2>1. k \in 0..Len(r)
    BY <1>1
  <2> QED BY <1>1, <2>1, ReadSteps
<1>3. ASSUME NEW line \in Texts, d.event.event_size + Len(line) + 1 > MaxEventBytes
      PROVE  OverLine(s, line).status = "failed"
  <2>1. TooLarge(Costs(d.event, line))
    BY <1>1, <1>3, CostsType DEF TooLarge
  <2>2. s.status = "reading" /\ s.event = d.event
    OBVIOUS
  <2> HIDE DEF s
  <2>3. OverLine(s, line) = [s EXCEPT !.status = "failed"]
    BY <1>2, <2>1, <2>2, OverLineCases
  <2> QED BY <1>2, <2>3 DEF Readings
<1>4. CASE d.scan_offset = Len(d.buffer)
  <2>1. d.buffer # <<>>
    <3>1. Len(d.buffer) # 0
      BY <1>1
    <3> QED BY <3>1
  <2>2. Total(r) = OverLine(s, d.buffer)
    BY <1>1, <1>4, <2>1, BufferIsLine
  <2>3. Total(r).status = "failed"
    <3>1. d.event.event_size + Len(d.buffer) + 1 > MaxEventBytes
      BY <1>1
    <3>2. OverLine(s, d.buffer).status = "failed"
      <4> HIDE DEF s
      <4> QED BY <1>1, <1>3, <3>1
    <3> QED BY <2>2, <3>2
  <2> QED BY <2>3, ParsedIs
<1>5. CASE ~eof /\ d.scan_offset + 1 = Len(d.buffer) /\ d.buffer[Len(d.buffer)] = CR
  <2> DEFINE line == SubSeq(r, k + 1, N - 1)
  <2>1. k \in 0..(Len(r) - 1) /\ N \in (k + 1)..Len(r) /\ Len(d.buffer) \in 1..Len(d.buffer)
    BY <1>1, <1>5
  <2>2. IsEnd(r[N])
    <3>1. r[N] = CR
      <4>1. d.buffer[Len(d.buffer)] = r[k + Len(d.buffer)]
        BY <1>1, <2>1
      <4> HIDE DEF N, k
      <4> QED BY <1>1, <1>5, <4>1
    <3> QED BY <3>1 DEF IsEnd
  <2>3. NoEnds(r, k, N - 1)
    <3> SUFFICES ASSUME NEW m \in (k + 1)..(N - 1) PROVE ~IsEnd(r[m])
      BY DEF NoEnds
    <3> HIDE DEF k, N
    <3>1. m - k \in 1..d.scan_offset /\ m - k \in 1..Len(d.buffer) /\ k + (m - k) = m
      BY <1>1, <1>5
    <3> QED BY <1>1, <3>1
  <2>4. At(r, N).line = <<>> /\ Read(r, N) = OverLine(Read(r, k), line)
    BY <1>1, <2>1, <2>2, <2>3, LineEnds
  <2>5. line \in Texts /\ Len(line) + 1 = Len(d.buffer)
    <3>1. \A i \in (k + 1)..(N - 1) : r[i] \in Tokens
      BY <1>1 DEF Texts
    <3>2. k + 1 \in Int /\ N - 1 \in Int
      BY <1>1
    <3>3. line \in Seq(Tokens) /\ Len(line) = IF k + 1 <= N - 1 THEN (N - 1) - (k + 1) + 1 ELSE 0
      <4> HIDE DEF k, N
      <4> QED BY <3>1, <3>2, SubSeqProperties
    <3> QED BY <1>1, <2>1, <3>3 DEF Texts
  <2>6. Total(r) = OverLine(s, line)
    BY <1>1, <2>4 DEF Total
  <2>7. Total(r).status = "failed"
    <3> HIDE DEF line, s
    <3>1. d.event.event_size + Len(line) + 1 > MaxEventBytes
      <4>1. Len(line) \in Nat
        BY <2>5 DEF Texts
      <4> QED BY <1>1, <2>5, <4>1
    <3> QED BY <1>3, <2>5, <2>6, <3>1
  <2> QED BY <2>7, ParsedIs
<1> QED BY <1>4, <1>5 DEF Settled

Verdict(r, found, end) ==
    CASE end = "no"     -> TRUE
      [] end = "failed" -> /\ Parsed(r).status = "failed" \/ Invalid \in ToSet(r)
                           /\ IsPrefix(found, Parsed(r).events)
      [] end = "closed" -> /\ Parsed(r).status = "reading" /\ Invalid \notin ToSet(r)
                           /\ found = Parsed(r).events
      [] end = "done"   -> Parsed(r).status = "done" /\ found = Parsed(r).events

\* The end of a loop that has ended the stream, with [DONE] or an error.
LEMMA LoopEnds ==
    ASSUME NEW d, NEW r \in Texts, NEW before \in Seq(Payload), NEW eof \in BOOLEAN,
           Scanned(d, r, before, eof), IsPrefix(before, Parsed(r).events)
    PROVE  /\ d.status = "done" => Verdict(r, before \o d.out, "done")
           /\ d.status = "failed" => Verdict(r, before, "failed")
<1> DEFINE k == Consumed(d, r)
<1>1. k \in 0..Len(r) /\ d \in Decoders
  BY DEF Scanned, Behind, Decoders, Texts, Consumed
<1>2. ASSUME d.status = "done" PROVE Verdict(r, before \o d.out, "done")
  <2> DEFINE found == before \o d.out
  <2>1. Read(r, k) = [events |-> found, event |-> d.event, status |-> "done"]
    BY <1>2 DEF Scanned, Reads
  <2> HIDE DEF found
  <2>2. Read(r, k).status = "done" /\ Read(r, k).events = found
    BY <2>1
  <2>3. Parsed(r) = Read(r, k)
    BY <1>1, <2>2, ParsedKeeps
  <2> QED BY <2>2, <2>3 DEF Verdict, found
<1>3. ASSUME d.status = "failed" PROVE Verdict(r, before, "failed")
  <2>1. Read(r, k).status = "failed" => Parsed(r) = Read(r, k)
    BY <1>1, ParsedKeeps
  <2>2. Read(r, k).status = "failed" \/ Invalid \in ToSet(r)
    BY <1>3 DEF Scanned
  <2>3. Parsed(r).status = "failed" \/ Invalid \in ToSet(r)
    BY <2>1, <2>2
  <2> QED BY <2>3 DEF Verdict
<1> QED BY <1>2, <1>3

LEMMA NothingFoundYet ==
    ASSUME NEW d, NEW r \in Texts, NEW before \in Seq(Payload), NEW eof \in BOOLEAN,
           Scanned(d, r, before, eof), d.status = "reading", d.out = <<>>
    PROVE  IsPrefix(before, Parsed(r).events)
<1> DEFINE k == Consumed(d, r)
<1>1. k \in 0..Len(r)
  BY DEF Scanned, Behind, Decoders, Texts, Consumed
<1>2. before \o <<>> = before
  BY ConcatEmptySeq
<1>3. Read(r, k) = [events |-> before, event |-> d.event, status |-> "reading"]
  BY <1>2 DEF Scanned, Reading, Reads
<1>4. Read(r, k).events = before
  BY ONLY <1>3
<1> QED BY <1>1, <1>4, ParsedKeeps

LEMMA dispatchIs ==
    ASSUME NEW d \in Decoders, d.status = "reading"
    PROVE  LET t == dispatch(d)
           IN  /\ t \in Decoders
               /\ t.out = d.out \o Dispatched(d.event.data_lines)
               /\ t.status = Afterwards(d.event.data_lines)
<1> DEFINE found == d.out \o Dispatched(d.event.data_lines)
           behind == Afterwards(d.event.data_lines)
<1>1. d.event.data_lines \in Payload /\ d.out \in Seq(Payload)
  BY DEF Decoders, InProgress
<1>2. found \in Seq(Payload) /\ behind \in {"done", "reading"}
  BY <1>1, DispatchedType, ConcatProperties, AfterwardsType
<1>3. /\ IsDone(d.event.data_lines) => behind = "done"
      /\ ~IsDone(d.event.data_lines) => behind = "reading"
  BY DEF Afterwards
<1> HIDE DEF found, behind
<1>4. dispatch(d) = [d EXCEPT !.out = found, !.status = behind, !.event = NoEvent]
  BY <1>3 DEF dispatch, found
<1>5. LET t == dispatch(d) IN t \in Decoders /\ t.out = found /\ t.status = behind
  BY <1>2, <1>4, NoEventType DEF Decoders, Statuses
<1> QED BY <1>5 DEF found, behind

\* What is left at the end.
LEMMA EndOfBody ==
    ASSUME NEW d \in Decoders, NEW r \in Texts, NEW before \in Seq(Payload),
           Scanned(d, r, before, TRUE), Settled(d, TRUE), d.status = "reading",
           IsPrefix(before, Parsed(r).events)
    PROVE  LET t == AtEnd(d)
           IN  /\ t.status \in Statuses /\ before \o t.out \in Seq(Payload)
               /\ t.status = "reading" => Verdict(r, before \o t.out, "closed")
               /\ t.status = "done"    => Verdict(r, before \o t.out, "done")
               /\ t.status = "failed"  => Verdict(r, before, "failed")
<1> DEFINE k == Consumed(d, r)
           s == [events |-> before \o d.out, event |-> d.event, status |-> "reading"]
           u == [process_line(d, d.buffer) EXCEPT !.buffer = <<>>, !.scan_offset = 0]
           t == AtEnd(d)
<1>1. /\ Len(d.buffer) \in Nat /\ Len(r) \in Nat /\ k \in Nat /\ k + Len(d.buffer) = Len(r)
      /\ \A j \in 1..Len(d.buffer) : d.buffer[j] = r[k + j]
      /\ \A j \in 1..k : r[j] # Invalid
      /\ d.buffer \in Texts /\ d.out \in Seq(Payload) /\ Read(r, k) = s
      /\ d.scan_offset = Len(d.buffer)
  <2>1. Behind(d, r) /\ Reading(d, r, before, TRUE)
    BY DEF Scanned
  <2>2. d.scan_offset = Len(d.buffer)
    BY DEF Settled
  <2>3. d.buffer \in Texts /\ d.out \in Seq(Payload)
    BY DEF Decoders
  <2>4. Len(d.buffer) \in Nat /\ Len(r) \in Nat
    BY <2>3 DEF Texts
  <2>5. k \in Nat /\ k + Len(d.buffer) = Len(r)
    BY <2>1, <2>4 DEF Behind, Consumed
  <2>6. /\ \A j \in 1..Len(d.buffer) : d.buffer[j] = r[k + j]
        /\ \A j \in 1..k : r[j] # Invalid
    BY <2>1 DEF Behind, Reading
  <2>7. Read(r, k) = s
    BY <2>1 DEF Reading, Reads
  <2> QED BY <2>2, <2>3, <2>4, <2>5, <2>6, <2>7
<1>2. Total(r) = IF d.buffer = <<>> THEN s ELSE OverLine(s, d.buffer)
  BY <1>1, BufferIsLine
<1> HIDE DEF k
\* Dispatching what the parser has read as well ends both alike.
<1>3. ASSUME NEW e \in Decoders, e.status = "reading",
             Total(r) = [events |-> before \o e.out, event |-> e.event, status |-> "reading"],
             t = dispatch(e), Invalid \notin ToSet(r)
      PROVE  /\ t.status \in Statuses /\ before \o t.out \in Seq(Payload)
             /\ t.status = "reading" => Verdict(r, before \o t.out, "closed")
             /\ t.status = "done"    => Verdict(r, before \o t.out, "done")
             /\ t.status # "failed"
  <2> DEFINE found == Dispatched(e.event.data_lines)
             behind == Afterwards(e.event.data_lines)
  <2>1. e.out \in Seq(Payload) /\ e.event.data_lines \in Payload /\ found \in Seq(Payload)
    BY DispatchedType DEF Decoders, InProgress
  <2>2. behind \in {"done", "reading"}
    BY AfterwardsType
  <2>3. t.out = e.out \o found /\ t.status = behind
    BY <1>3, dispatchIs
  <2>4. Total(r).status = "reading" /\ Total(r).events = before \o e.out /\ Total(r).event = e.event
    BY ONLY <1>3
  <2>5. Parsed(r).events = (before \o e.out) \o found /\ Parsed(r).status = behind
    BY <2>4, ParsedIs
  <2>6. (before \o e.out) \o found = before \o (e.out \o found)
    <3>1. \A a, b, c \in Seq(Payload) : (a \o b) \o c = a \o (b \o c)
      BY ConcatAssociative
    <3>2. before \in Seq(Payload) /\ e.out \in Seq(Payload) /\ found \in Seq(Payload)
      BY <2>1
    <3> HIDE DEF found
    <3> QED BY ONLY <3>1, <3>2
  <2>7. before \o (e.out \o found) \in Seq(Payload)
    <3>1. e.out \o found \in Seq(Payload)
      BY <2>1, ConcatProperties
    <3> HIDE DEF found
    <3> QED BY <3>1, ConcatProperties
  <2> HIDE DEF found, behind, t
  <2> QED BY <1>3, <2>2, <2>3, <2>5, <2>6, <2>7 DEF Verdict, Statuses
<1>4. CASE d.buffer = <<>>
  <2>1. t = dispatch(d)
    BY <1>4 DEF AtEnd
  <2>2. Invalid \notin ToSet(r)
    <3>1. k = Len(r)
      BY <1>1, <1>4
    <3> QED BY <1>1, <3>1 DEF ToSet, Texts
  <2>3. Total(r) = s
    BY <1>2, <1>4
  <2> HIDE DEF t
  <2>4. /\ t.status \in Statuses /\ before \o t.out \in Seq(Payload)
        /\ t.status = "reading" => Verdict(r, before \o t.out, "closed")
        /\ t.status = "done"    => Verdict(r, before \o t.out, "done")
        /\ t.status # "failed"
    BY <1>3, <2>1, <2>2, <2>3
  <2> QED BY <2>4 DEF t
<1>5. CASE d.buffer # <<>>
  <2> DEFINE v == process_line(d, d.buffer)
  <2>1. /\ v \in Decoders
        /\ Invalid \in ToSet(d.buffer) => v.status = "failed"
        /\ Invalid \notin ToSet(d.buffer) =>
               OverLine(s, d.buffer) = [events |-> before \o v.out, event |-> v.event,
                                        status |-> v.status]
    BY <1>1, ProcessLine
  <2> HIDE DEF v
  <2>2. /\ u \in Decoders /\ u.out = v.out /\ u.event = v.event /\ u.status = v.status
    <3>1. u = [v EXCEPT !.buffer = <<>>, !.scan_offset = 0] /\ <<>> \in Texts /\ 0 \in Nat
      BY DEF v, Texts
    <3> HIDE DEF u
    <3> QED BY <2>1, <3>1 DEF Decoders
  <2>3. t = IF u.status = "reading" THEN dispatch(u) ELSE u
    BY <1>5 DEF AtEnd
  <2>4. u.status \in Statuses /\ before \o u.out \in Seq(Payload)
    <3>1. u.out \in Seq(Payload) /\ u.status \in Statuses
      BY <2>2 DEF Decoders
    <3> HIDE DEF u
    <3> QED BY <3>1, ConcatProperties
  <2> HIDE DEF u, t
  <2>5. Invalid \notin ToSet(d.buffer) =>
            Total(r) = [events |-> before \o u.out, event |-> u.event, status |-> u.status]
    BY <1>2, <1>5, <2>1, <2>2
  <2>6. Invalid \in ToSet(d.buffer) <=> Invalid \in ToSet(r)
    <3>1. ASSUME NEW j \in 1..Len(d.buffer), d.buffer[j] = Invalid PROVE Invalid \in ToSet(r)
      <4>1. k + j \in 1..Len(r) /\ r[k + j] = Invalid
        BY <1>1, <3>1
      <4> QED BY <4>1 DEF ToSet, Texts
    <3>2. ASSUME NEW j \in 1..Len(r), r[j] = Invalid PROVE Invalid \in ToSet(d.buffer)
      <4>1. j - k \in 1..Len(d.buffer) /\ k + (j - k) = j
        BY <1>1, <3>2
      <4>2. d.buffer[j - k] = Invalid
        BY <1>1, <3>2, <4>1
      <4> QED BY <1>1, <4>1, <4>2 DEF ToSet, Texts
    <3>3. DOMAIN r = 1..Len(r) /\ DOMAIN d.buffer = 1..Len(d.buffer)
      BY <1>1 DEF Texts
    <3> QED BY <3>1, <3>2, <3>3 DEF ToSet
  <2>7. CASE u.status = "reading"
    <3>1. Invalid \notin ToSet(d.buffer)
      BY <2>1, <2>2, <2>7
    <3>2. Total(r) = [events |-> before \o u.out, event |-> u.event, status |-> "reading"]
      BY <2>5, <2>7, <3>1
    <3>3. /\ t.status \in Statuses /\ before \o t.out \in Seq(Payload)
          /\ t.status = "reading" => Verdict(r, before \o t.out, "closed")
          /\ t.status = "done"    => Verdict(r, before \o t.out, "done")
          /\ t.status # "failed"
      BY <1>3, <2>2, <2>3, <2>6, <2>7, <3>1, <3>2
    <3> QED BY <3>3 DEF t
  <2>8. CASE u.status = "done"
    <3>1. Invalid \notin ToSet(d.buffer)
      BY <2>1, <2>2, <2>8
    <3>2. Total(r) = [events |-> before \o u.out, event |-> u.event, status |-> "done"]
      BY <2>5, <2>8, <3>1
    <3>3. Total(r).status = "done" /\ Total(r).events = before \o u.out
      BY ONLY <3>2
    <3>4. Parsed(r) = Total(r)
      BY <3>3, ParsedIs
    <3>5. t = u
      BY <2>3, <2>8
    <3>6. Verdict(r, before \o u.out, "done")
      BY <3>3, <3>4 DEF Verdict
    <3>7. /\ t.status = "done" /\ t.status \in Statuses /\ before \o t.out \in Seq(Payload)
          /\ Verdict(r, before \o t.out, "done")
      BY <2>4, <2>8, <3>5, <3>6
    <3> QED BY <3>7 DEF t
  <2>9. CASE u.status = "failed"
    <3>1. Parsed(r).status = "failed" \/ Invalid \in ToSet(r)
      <4>1. ASSUME Invalid \notin ToSet(d.buffer) PROVE Parsed(r).status = "failed"
        <5>1. Total(r) = [events |-> before \o u.out, event |-> u.event, status |-> "failed"]
          BY <2>5, <2>9, <4>1
        <5>2. Total(r).status = "failed"
          BY ONLY <5>1
        <5> QED BY <5>2, ParsedIs
      <4> QED BY <2>6, <4>1
    <3>2. t = u
      BY <2>3, <2>9
    <3>3. Verdict(r, before, "failed")
      BY <3>1 DEF Verdict
    <3>4. /\ t.status = "failed" /\ t.status \in Statuses /\ before \o t.out \in Seq(Payload)
          /\ Verdict(r, before, "failed")
      BY <2>4, <2>9, <3>2, <3>3
    <3> QED BY <3>4 DEF t
  <2> QED BY <2>4, <2>7, <2>8, <2>9 DEF Statuses
<1> QED BY <1>4, <1>5

Found(t, before) == IF t.status = "failed" THEN before ELSE before \o t.out

LEMMA ScanEnds ==
    ASSUME NEW d \in Decoders, NEW r \in Texts, NEW before \in Seq(Payload), NEW eof \in BOOLEAN,
           Scanned([d EXCEPT !.out = <<>>], r, before, eof), d.status = "reading"
    PROVE  LET t == scan(d, eof)
           IN  /\ t.status \in Statuses /\ Found(t, before) \in Seq(Payload)
               /\ t.status = "reading" /\ ~eof =>
                      Scanned(t, r, before, FALSE) /\ Settled(t, FALSE)
               /\ t.status = "reading" /\ eof => Verdict(r, Found(t, before), "closed")
               /\ t.status = "done"    => Verdict(r, Found(t, before), "done")
               /\ t.status = "failed"  => Verdict(r, Found(t, before), "failed")
<1> DEFINE e == [d EXCEPT !.out = <<>>]
           l == Lines(e, eof)
           b == Bounded(l)
           cleared == IF b.status = "done" THEN [b EXCEPT !.buffer = <<>>, !.scan_offset = 0] ELSE b
           t == scan(d, eof)
<1>1. e.status = "reading" /\ e.out = <<>>
  BY DEF Decoders
<1>2. IsPrefix(before, Parsed(r).events)
  <2> HIDE DEF e
  <2> QED BY <1>1, NothingFoundYet DEF e
<1>3. Scanned(l, r, before, eof) /\ Settled(l, eof)
  BY LinesKeeps
<1>4. /\ l \in Decoders /\ l.out \in Seq(Payload) /\ l.status \in Statuses
      /\ before \o l.out \in Seq(Payload)
  <2>1. l \in Decoders
    BY <1>3 DEF Scanned, Behind
  <2> HIDE DEF l
  <2>2. l.out \in Seq(Payload) /\ l.status \in Statuses
    BY <2>1 DEF Decoders
  <2> QED BY <2>1, <2>2, ConcatProperties
<1>5. t = IF eof THEN AtEnd(cleared) ELSE cleared
  BY DEF scan
<1> HIDE DEF e, l
<1>6. ASSUME NEW x, cleared = x, x.status # "reading" PROVE t = x
  BY <1>5, <1>6 DEF AtEnd
<1>7. CASE l.status = "reading" /\ l.event.event_size + Len(l.buffer) > MaxEventBytes
  <2>1. b = [l EXCEPT !.status = "failed"]
    BY <1>7 DEF Bounded
  <2>2. b.status = "failed"
    BY <1>4, <2>1 DEF Decoders
  <2>3. cleared = b
    BY <2>2
  <2> HIDE DEF b, cleared
  <2>4. t = b
    BY <1>6, <2>2, <2>3
  <2>5. Parsed(r).status = "failed"
    BY <1>3, <1>4, <1>7, TooLong
  <2>6. Verdict(r, before, "failed")
    BY <1>2, <2>5 DEF Verdict
  <2>7. t.status = "failed" /\ Found(t, before) = before
    BY <2>2, <2>4 DEF Found
  <2> HIDE DEF t
  <2>8. t.status \in Statuses /\ Found(t, before) \in Seq(Payload)
    BY <2>7 DEF Statuses
  <2> QED BY <2>6, <2>7, <2>8 DEF t
<1>8. CASE l.status = "done"
  <2>1. b = l
    BY <1>8 DEF Bounded
  <2>2. cleared = [l EXCEPT !.buffer = <<>>, !.scan_offset = 0]
    BY <1>8, <2>1
  <2> HIDE DEF b, cleared
  <2>3. cleared.status = "done" /\ cleared.out = l.out
    BY <1>4, <1>8, <2>2 DEF Decoders
  <2>4. t = cleared
    BY <1>6, <2>3
  <2>5. Verdict(r, before \o l.out, "done")
    BY <1>2, <1>3, <1>8, LoopEnds
  <2>6. t.status = "done" /\ Found(t, before) = before \o l.out
    BY <2>3, <2>4 DEF Found
  <2> HIDE DEF t
  <2>7. t.status \in Statuses /\ Found(t, before) \in Seq(Payload)
    BY <1>4, <2>6 DEF Statuses
  <2> QED BY <2>5, <2>6, <2>7 DEF t
<1>9. CASE l.status = "failed"
  <2>1. b = l
    BY <1>9 DEF Bounded
  <2>2. cleared = l
    BY <1>9, <2>1
  <2> HIDE DEF b, cleared
  <2>3. t = l
    BY <1>6, <1>9, <2>2
  <2>4. Verdict(r, before, "failed")
    BY <1>2, <1>3, <1>9, LoopEnds
  <2>5. t.status = "failed" /\ Found(t, before) = before
    BY <1>9, <2>3 DEF Found
  <2> HIDE DEF t
  <2>6. t.status \in Statuses /\ Found(t, before) \in Seq(Payload)
    BY <2>5 DEF Statuses
  <2> QED BY <2>4, <2>5, <2>6 DEF t
<1>10. CASE l.status = "reading" /\ ~(l.event.event_size + Len(l.buffer) > MaxEventBytes)
  <2>1. b = l
    BY <1>10 DEF Bounded
  <2>2. cleared = l
    BY <1>10, <2>1
  <2> HIDE DEF b, cleared
  <2>3. CASE eof
    <3>1. t = AtEnd(l)
      BY <1>5, <2>2, <2>3
    <3>2. Scanned(l, r, before, TRUE) /\ Settled(l, TRUE)
      <4>1. eof = TRUE
        BY <2>3
      <4> QED BY <1>3, <4>1
    <3> HIDE DEF t
    <3>3. /\ t.status \in Statuses /\ before \o t.out \in Seq(Payload)
          /\ t.status = "reading" => Verdict(r, before \o t.out, "closed")
          /\ t.status = "done"    => Verdict(r, before \o t.out, "done")
          /\ t.status = "failed"  => Verdict(r, before, "failed")
      BY <1>2, <1>4, <1>10, <3>1, <3>2, EndOfBody
    <3> QED BY <2>3, <3>3 DEF t, Found
  <2>4. CASE ~eof
    <3>1. t = l
      BY <1>5, <2>2, <2>4
    <3>2. Scanned(l, r, before, FALSE) /\ Settled(l, FALSE)
      <4>1. eof = FALSE
        BY <2>4
      <4> QED BY <1>3, <4>1
    <3>3. t.status = "reading" /\ Found(t, before) = before \o l.out
      BY <1>10, <3>1 DEF Found
    <3> HIDE DEF t
    <3>4. t.status \in Statuses /\ Found(t, before) \in Seq(Payload)
      BY <1>4, <3>3 DEF Statuses
    <3> QED BY <2>4, <3>1, <3>2, <3>3, <3>4 DEF t
  <2> QED BY <2>3, <2>4
<1> QED BY <1>4, <1>7, <1>8, <1>9, <1>10 DEF Statuses

\* A new chunk behind what the decoder holds.
LEMMA ChunkArrives ==
    ASSUME NEW d \in Decoders, NEW r \in Texts, NEW c \in Texts, NEW before \in Seq(Payload),
           Scanned([d EXCEPT !.out = <<>>], r, before, FALSE), d.status = "reading"
    PROVE  LET t == [d EXCEPT !.buffer = @ \o c]
           IN  /\ t \in Decoders /\ t.status = "reading"
               /\ Scanned([t EXCEPT !.out = <<>>], r \o c, before, FALSE)
<1> DEFINE a == [d EXCEPT !.out = <<>>]
           t == [d EXCEPT !.buffer = @ \o c]
           e == [t EXCEPT !.out = <<>>]
           whole == r \o c
           long == d.buffer \o c
           L == Len(d.buffer)
           N == Len(r)
           k == Consumed(a, r)
<1>1. d.buffer \in Texts /\ <<>> \in Seq(Payload) /\ d.scan_offset \in Nat
  BY DEF Decoders
<1>2. /\ long \in Texts /\ Len(long) = L + Len(c) /\ L \in Nat /\ Len(c) \in Nat
      /\ \A i \in 1..(L + Len(c)) : long[i] = IF i <= L THEN d.buffer[i] ELSE c[i - L]
  <2>1. L \in Nat /\ Len(c) \in Nat
    BY <1>1 DEF Texts
  <2> QED BY <1>1, <2>1, ConcatProperties DEF Texts
<1>3. /\ whole \in Texts /\ Len(whole) = N + Len(c) /\ N \in Nat
      /\ \A i \in 1..(N + Len(c)) : whole[i] = IF i <= N THEN r[i] ELSE c[i - N]
  <2>1. N \in Nat
    BY DEF Texts
  <2> QED BY <2>1, ConcatProperties DEF Texts
<1>4. /\ a.buffer = d.buffer /\ a.scan_offset = d.scan_offset /\ a.status = "reading"
      /\ a.out = <<>> /\ a.event = d.event
  BY DEF Decoders
<1> HIDE DEF long, whole
<1>5. /\ t \in Decoders /\ t.status = "reading" /\ e \in Decoders
      /\ e.buffer = long /\ e.scan_offset = d.scan_offset /\ e.status = "reading"
      /\ e.out = <<>> /\ e.event = d.event
  <2>1. t = [d EXCEPT !.buffer = long]
    BY DEF long
  <2>2. t \in Decoders /\ t.status = "reading" /\ t.buffer = long /\ t.scan_offset = d.scan_offset
        /\ t.event = d.event
    BY <1>2, <2>1 DEF Decoders
  <2> HIDE DEF t
  <2> QED BY <1>1, <2>2 DEF Decoders
<1>6. /\ L <= N /\ \A i \in 1..L : d.buffer[i] = r[k + i]
      /\ Reading(a, r, before, FALSE)
      /\ d.scan_offset <= L /\ \A i \in 1..d.scan_offset : ~IsEnd(d.buffer[i])
  BY <1>4 DEF Scanned, Behind
<1>7. k = N - L /\ k \in 0..N /\ Consumed(e, whole) = k
  <2>1. k = N - L
    BY <1>4 DEF Consumed
  <2>2. Consumed(e, whole) = (N + Len(c)) - (L + Len(c))
    BY <1>2, <1>3, <1>5 DEF Consumed
  <2>3. N - L \in 0..N /\ (N + Len(c)) - (L + Len(c)) = N - L
    BY <1>2, <1>3, <1>6
  <2> QED BY <2>1, <2>2, <2>3
<1> HIDE DEF k, t, e, a
<1>13. /\ L \in Nat /\ N \in Nat /\ Len(c) \in Nat /\ k \in Nat /\ k + L = N /\ k <= N
       /\ Len(long) = L + Len(c)
  <2>1. L \in Nat /\ N \in Nat /\ Len(c) \in Nat /\ Len(long) = L + Len(c)
    BY <1>2, <1>3
  <2>2. k = N - L /\ k \in 0..N
    BY <1>7
  <2> HIDE DEF L, N
  <2> QED BY <2>1, <2>2
<1>8. Behind(e, whole)
  <2>1. ASSUME NEW i \in 1..Len(long) PROVE long[i] = whole[k + i]
    <3>1. CASE i <= L
      <4>1. i \in 1..L /\ k + i \in 1..N /\ k + i <= N /\ k + i \in 1..(N + Len(c))
            /\ i \in 1..(L + Len(c))
        BY <1>2, <1>3, <1>7, <3>1
      <4>2. long[i] = d.buffer[i] /\ whole[k + i] = r[k + i]
        BY <1>2, <1>3, <3>1, <4>1
      <4> QED BY <1>6, <4>1, <4>2
    <3>2. CASE ~(i <= L)
      <4>1. /\ i \in 1..(L + Len(c)) /\ k + i \in 1..(N + Len(c)) /\ ~(k + i <= N)
            /\ (k + i) - N = i - L
        <5> HIDE DEF L, N
        <5> QED BY <1>13, <3>2
      <4>2. long[i] = c[i - L] /\ whole[k + i] = c[(k + i) - N]
        BY <1>2, <1>3, <3>2, <4>1
      <4> QED BY <4>1, <4>2
    <3> QED BY <3>1, <3>2
  <2>2. Len(long) <= Len(whole)
    BY <1>2, <1>3, <1>6
  <2> QED BY <1>5, <1>7, <2>1, <2>2 DEF Behind
<1>9. At(whole, k) = At(r, k)
  BY <1>7, AtLonger DEF whole
<1>10. Reading(e, whole, before, FALSE)
  <2>1. Consumed(a, r) = k
    BY DEF k
  <2>2. /\ Read(r, k) = [events |-> before \o a.out, event |-> a.event, status |-> a.status]
        /\ Clean(r, k) /\ (At(r, k).cr => k < N) /\ (\A i \in 1..k : r[i] # Invalid)
        /\ a.event.event_size <= MaxEventBytes
    BY <1>6, <2>1 DEF Reading, Reads
  <2>3. Read(whole, k) = [events |-> before \o e.out, event |-> e.event, status |-> e.status]
    BY <1>4, <1>5, <1>9, <2>2 DEF Read
  <2>4. k < N => whole[k + 1] = r[k + 1]
    <3>1. k < N => k + 1 \in 1..(N + Len(c)) /\ k + 1 <= N
      <4> HIDE DEF L, N
      <4> QED BY <1>13
    <3> QED BY <1>3, <3>1
  <2>5. Clean(whole, k) /\ (At(whole, k).cr => k < Len(whole))
    <3>1. k < N => k < Len(whole)
      <4>1. Len(whole) = N + Len(c)
        BY <1>3
      <4> HIDE DEF N
      <4> QED BY <1>13, <4>1
    <3> QED BY <1>9, <2>2, <2>4, <3>1 DEF Clean
  <2>6. ASSUME NEW i \in 1..k PROVE whole[i] # Invalid
    <3>1. i \in 1..(N + Len(c)) /\ i <= N
      BY <1>2, <1>3, <1>7
    <3> QED BY <1>3, <2>2, <3>1
  <2> QED BY <1>4, <1>5, <1>7, <2>2, <2>3, <2>5, <2>6 DEF Reading, Reads
<1>11. e.scan_offset <= Len(e.buffer) /\ \A i \in 1..e.scan_offset : ~IsEnd(e.buffer[i])
  <2>1. d.scan_offset <= L + Len(c)
    BY <1>1, <1>2, <1>6
  <2>2. ASSUME NEW i \in 1..d.scan_offset PROVE ~IsEnd(long[i])
    <3>1. i \in 1..(L + Len(c)) /\ i <= L
      BY <1>1, <1>2, <1>6
    <3> QED BY <1>2, <1>6, <3>1
  <2> QED BY <1>2, <1>5, <2>1, <2>2
<1>12. Scanned(e, whole, before, FALSE)
  BY <1>5, <1>8, <1>10, <1>11 DEF Scanned
<1> QED BY <1>5, <1>12 DEF t, e, whole

\* What a scan has delivered belongs to the events of earlier scans.
LEMMA Delivered ==
    ASSUME NEW d \in Decoders, NEW r \in Texts, NEW before \in Seq(Payload),
           Scanned(d, r, before, FALSE), d.status = "reading"
    PROVE  Scanned([d EXCEPT !.out = <<>>], r, before \o d.out, FALSE)
<1> DEFINE e == [d EXCEPT !.out = <<>>]
           more == before \o d.out
<1>1. /\ e \in Decoders /\ e.buffer = d.buffer /\ e.scan_offset = d.scan_offset
      /\ e.event = d.event /\ e.status = "reading" /\ e.out = <<>>
  <2>1. <<>> \in Seq(Payload)
    OBVIOUS
  <2> QED BY <2>1 DEF Decoders
<1>2. more \o <<>> = more
  <2>1. more \in Seq(Payload)
    BY ConcatProperties DEF Decoders
  <2> HIDE DEF more
  <2> QED BY <2>1, ConcatEmptySeq
<1> HIDE DEF e
<1>3. Behind(e, r) /\ Consumed(e, r) = Consumed(d, r)
  BY <1>1 DEF Scanned, Behind, Consumed
<1>4. Reading(d, r, before, FALSE)
  BY DEF Scanned
<1>5. Reads(e, r, more)
  <2>1. Read(r, Consumed(d, r)) = [events |-> more, event |-> d.event, status |-> d.status]
    BY <1>4 DEF Reading, Reads
  <2> HIDE DEF more
  <2> QED BY <1>1, <1>2, <1>3, <2>1 DEF Reads
<1> HIDE DEF more
<1>6. Reading(e, r, more, FALSE)
  BY <1>1, <1>3, <1>4, <1>5 DEF Reading
<1>7. Scanned(e, r, more, FALSE)
  BY <1>1, <1>3, <1>6 DEF Scanned
<1> QED BY <1>7 DEF e, more

\* The end of the body lifts a condition and adds none.
LEMMA AtItsEnd ==
    ASSUME NEW d, NEW r, NEW before, Scanned(d, r, before, FALSE)
    PROVE  Scanned(d, r, before, TRUE)
BY DEF Scanned, Reading

\* At an end of the stream the verdict is what ChunkingIrrelevant says.
LEMMA VerdictIs == ChunkingIrrelevant <=> Verdict(received, events, ended)
BY DEF ChunkingIrrelevant, Verdict

LEMMA VerdictWillBe == ChunkingIrrelevant' <=> Verdict(received, events, ended)'
BY DEF ChunkingIrrelevant, Verdict

-----------------------------------------------------------------------------
(* The specification.                                                       *)

LEMMA InitEstablishes == Init => IInv
<1> SUFFICES ASSUME Init PROVE IInv
  OBVIOUS
<1>1. received = <<>> /\ decoder = Idle /\ events = <<>> /\ ended = "no"
  BY DEF Init
<1>2. /\ <<>> \in Texts /\ <<>> \in Seq(Payload) /\ Len(<<>>) = 0
  BY DEF Texts
<1> DEFINE d == [decoder EXCEPT !.out = <<>>]
<1>3. d = Idle /\ Idle \in Decoders
  BY <1>1, <1>2, NoEventType DEF Idle, Decoders, Statuses
<1>4. /\ d \in Decoders /\ d.buffer = <<>> /\ d.scan_offset = 0 /\ d.event = NoEvent
      /\ d.status = "reading" /\ d.out = <<>>
  BY <1>3 DEF Idle
<1> HIDE DEF d
<1>5. At(<<>>, 0) = NoLines /\ Consumed(d, <<>>) = 0 /\ Behind(d, <<>>)
  BY <1>2, <1>4, AtSteps DEF Consumed, Behind
<1>6. Read(<<>>, 0) = Unread
  BY <1>5, OverNoLines DEF Read, NoLines
<1>7. Reads(d, <<>>, <<>>)
  <2>1. <<>> \o <<>> = <<>>
    OBVIOUS
  <2> QED BY <1>4, <1>5, <1>6, <2>1 DEF Reads, Unread
<1>8. Clean(<<>>, 0) /\ ~At(<<>>, 0).cr
  BY <1>5 DEF Clean, NoLines
<1>9. NoEvent.event_size <= MaxEventBytes
  BY NoEventType, DecoderAssumption DEF DecoderAssumption
<1>10. Reading(d, <<>>, <<>>, FALSE)
  BY <1>4, <1>5, <1>7, <1>8, <1>9 DEF Reading
<1>11. Scanned(d, <<>>, <<>>, FALSE)
  <2>1. d.scan_offset <= Len(d.buffer) /\ \A i \in 1..d.scan_offset : ~IsEnd(d.buffer[i])
    BY <1>2, <1>4
  <2>2. d.status # "done" /\ d.status # "failed"
    BY <1>4
  <2> QED BY <1>5, <1>10, <2>1, <2>2 DEF Scanned
<1>12. decoder.status = "reading" /\ Settled(decoder, FALSE)
  BY <1>1, <1>2 DEF Settled, Idle
<1> QED BY <1>1, <1>2, <1>3, <1>11, <1>12 DEF IInv, Awaiting, d

\* A scan, of a body that has not ended or that has.
LEMMA ScanKeeps ==
    ASSUME NEW t, NEW eof \in BOOLEAN, received' \in Texts, events \in Seq(Payload),
           Found(t, events) \in Seq(Payload), t.status \in Statuses,
           t.status = "reading" /\ ~eof =>
               /\ t \in Decoders
               /\ Scanned(t, received', events, FALSE) /\ Settled(t, FALSE),
           t.status = "reading" /\ eof => Verdict(received', Found(t, events), "closed"),
           t.status = "done"    => Verdict(received', Found(t, events), "done"),
           t.status = "failed"  => Verdict(received', Found(t, events), "failed"),
           Get(t),
           ended' = IF decoder'.status = "reading" THEN IF eof THEN "closed" ELSE "no"
                    ELSE decoder'.status
    PROVE  IInv'
<1>1. decoder' = t /\ events' = Found(t, events)
  BY DEF Get, Found
<1>2. CASE t.status = "reading" /\ ~eof
  <2>1. ended' = "no" /\ events' = events \o t.out
    BY <1>1, <1>2 DEF Found
  <2>2. Awaiting'
    <3>1. Scanned([t EXCEPT !.out = <<>>], received', events \o t.out, FALSE)
      BY <1>2, Delivered
    <3> QED BY <1>1, <1>2, <2>1, <3>1 DEF Awaiting
  <2> QED BY <1>1, <2>1, <2>2 DEF IInv
<1>3. CASE ~(t.status = "reading" /\ ~eof)
  <2>1. ended' \in {"closed", "done", "failed"} /\ Verdict(received', events', ended')
    BY <1>1, <1>3 DEF Statuses
  <2>2. ChunkingIrrelevant'
    BY <2>1, VerdictWillBe
  <2> QED BY <1>1, <2>1, <2>2 DEF IInv
<1> QED BY <1>2, <1>3

LEMMA PushKeeps == IInv /\ Push => IInv'
<1> SUFFICES ASSUME IInv, Push PROVE IInv'
  OBVIOUS
<1>1. /\ received \in Texts /\ events \in Seq(Payload) /\ decoder.status = "reading"
      /\ Scanned([decoder EXCEPT !.out = <<>>], received, events, FALSE)
      /\ Settled(decoder, FALSE)
  BY DEF IInv, Awaiting, Push
<1>2. PICK chunk \in Chunks :
          /\ received' = received \o chunk
          /\ Get(scan([decoder EXCEPT !.buffer = @ \o chunk], FALSE))
  BY DEF Push
<1>3. chunk \in Texts
  <2>1. PICK n \in 1..3 : chunk \in [1..n -> Tokens]
    BY <1>2 DEF Chunks
  <2> QED BY <2>1, SeqDef DEF Texts
<1>4. decoder \in Decoders
  BY DEF IInv, Awaiting, Push
<1> DEFINE fed == [decoder EXCEPT !.buffer = @ \o chunk]
           t == scan(fed, FALSE)
<1>5. /\ fed \in Decoders /\ fed.status = "reading"
      /\ Scanned([fed EXCEPT !.out = <<>>], received', events, FALSE)
  BY <1>1, <1>2, <1>3, <1>4, ChunkArrives
<1>6. received' \in Texts
  BY <1>1, <1>2, <1>3, ConcatProperties DEF Texts
<1> HIDE DEF fed
<1>7. /\ t.status \in Statuses /\ Found(t, events) \in Seq(Payload)
      /\ t.status = "reading" => Scanned(t, received', events, FALSE) /\ Settled(t, FALSE)
      /\ t.status = "done"    => Verdict(received', Found(t, events), "done")
      /\ t.status = "failed"  => Verdict(received', Found(t, events), "failed")
  BY <1>1, <1>5, <1>6, ScanEnds
<1>8. Get(t)
  BY <1>2 DEF fed
<1>9. ended' = IF decoder'.status = "reading" THEN "no" ELSE decoder'.status
  BY DEF Push
<1> HIDE DEF t
<1>10. t.status = "reading" => t \in Decoders
  BY <1>7 DEF Scanned, Behind
<1> QED BY <1>1, <1>6, <1>7, <1>8, <1>9, <1>10, ScanKeeps

LEMMA FinishKeeps == IInv /\ Finish => IInv'
<1> SUFFICES ASSUME IInv, Finish PROVE IInv'
  OBVIOUS
<1>1. /\ received \in Texts /\ events \in Seq(Payload) /\ decoder.status = "reading"
      /\ Scanned([decoder EXCEPT !.out = <<>>], received, events, FALSE)
      /\ decoder \in Decoders
  BY DEF IInv, Awaiting, Finish
<1>2. Scanned([decoder EXCEPT !.out = <<>>], received, events, TRUE)
  BY <1>1, AtItsEnd
<1> DEFINE t == scan(decoder, TRUE)
<1>3. /\ t.status \in Statuses /\ Found(t, events) \in Seq(Payload)
      /\ t.status = "reading" => Verdict(received, Found(t, events), "closed")
      /\ t.status = "done"    => Verdict(received, Found(t, events), "done")
      /\ t.status = "failed"  => Verdict(received, Found(t, events), "failed")
  BY <1>1, <1>2, ScanEnds
<1>4. /\ Get(t) /\ received' = received
      /\ ended' = IF decoder'.status = "reading" THEN "closed" ELSE decoder'.status
  BY DEF Finish
<1> HIDE DEF t
<1> QED BY <1>1, <1>3, <1>4, ScanKeeps

\* What the reading of the whole body rests on: what is consumed reads to the
\* stream as it reads to parse_sse_bytes, the buffer is what is left of the
\* body, and no line that has ended waits in it (IncrementalSseDecoder::scan).
THEOREM DecoderInvariant == Spec => []IInv
<1>1. Init => IInv
  BY InitEstablishes
<1>2. IInv /\ [Next]_vars => IInv'
  <2> SUFFICES ASSUME IInv, [Next]_vars PROVE IInv'
    OBVIOUS
  <2>1. CASE Push
    BY <2>1, PushKeeps
  <2>2. CASE Finish
    BY <2>2, FinishKeeps
  <2>3. CASE UNCHANGED vars
    BY <2>3 DEF vars, IInv, Awaiting, ChunkingIrrelevant
  <2> QED BY <2>1, <2>2, <2>3 DEF Next
<1> QED BY <1>1, <1>2, PTL DEF Spec

\* However a body is cut into chunks, and whatever its length and the bounds
\* on an event are, push_bytes() and finish() deliver the events that
\* parse_sse_bytes() finds in the whole of it, end with [DONE] when it does
\* and fail only when it fails, with events it has found on the way.
THEOREM ChunkingIsIrrelevant == Spec => []ChunkingIrrelevant
<1>1. IInv => ChunkingIrrelevant
  BY DEF IInv, ChunkingIrrelevant
<1> QED BY <1>1, DecoderInvariant, PTL

\* An event is delivered with the chunk that brings the end of its empty line:
\* but for a carriage return at the end of a chunk, no whole line waits for
\* the next one.
THEOREM DecoderIsPrompt == Spec => []Prompt
<1>1. IInv => Prompt
  <2> SUFFICES ASSUME IInv, ended = "no", received # <<>>, Last(received) # CR
               PROVE  events = OverLines(split_sse_lines(received).ended).events
    BY DEF Prompt
  <2> DEFINE d == [decoder EXCEPT !.out = <<>>]
             k == Consumed(d, received)
  <2>1. /\ received \in Texts /\ events \in Seq(Payload) /\ decoder.status = "reading"
        /\ decoder \in Decoders /\ Scanned(d, received, events, FALSE)
        /\ Settled(decoder, FALSE)
    BY DEF IInv, Awaiting
  <2>2. /\ d \in Decoders /\ d.buffer = decoder.buffer /\ d.scan_offset = decoder.scan_offset
        /\ d.status = "reading" /\ d.out = <<>>
    <3>1. <<>> \in Seq(Payload)
      OBVIOUS
    <3> QED BY <2>1, <3>1 DEF Decoders
  <2> HIDE DEF d
  <2>3. d.scan_offset = Len(d.buffer)
    <3> SUFFICES ASSUME d.scan_offset # Len(d.buffer) PROVE FALSE
      OBVIOUS
    <3>1. d.scan_offset + 1 = Len(d.buffer) /\ d.buffer[Len(d.buffer)] = CR
      BY <2>1, <2>2 DEF Settled
    <3>2. /\ Len(d.buffer) \in Nat /\ Len(received) \in Nat /\ d.scan_offset \in Nat
          /\ \A i \in 1..Len(d.buffer) : d.buffer[i] = received[Consumed(d, received) + i]
      BY <2>1, <2>2 DEF Scanned, Behind, Decoders, Texts
    <3>3. Len(d.buffer) \in 1..Len(d.buffer)
      BY <3>1, <3>2
    <3>4. Consumed(d, received) + Len(d.buffer) = Len(received)
      BY <3>2 DEF Consumed
    <3>5. received[Len(received)] = CR
      BY <3>1, <3>2, <3>3, <3>4
    <3> QED BY <3>5 DEF Last
  <2>4. At(received, Len(received)).lines = At(received, k).lines
    BY <2>1, <2>2, <2>3, BufferIsLine
  <2>5. split_sse_lines(received).ended = At(received, k).lines
    <3> DEFINE end == AfterTokens(received)
    <3>1. At(received, Len(received)) = end
      BY <2>1, AtAll
    <3> HIDE DEF end
    <3>2. split_sse_lines(received) =
              [ended |-> end.lines, rest |-> IF end.line = <<>> THEN <<>> ELSE <<end.line>>]
      BY DEF split_sse_lines, end
    <3>3. split_sse_lines(received).ended = end.lines
      BY <3>2
    <3> QED BY <2>4, <3>1, <3>3
  <2>6. Read(received, k) = [events |-> events, event |-> d.event, status |-> d.status]
    <3>1. Reading(d, received, events, FALSE)
      BY <2>1, <2>2 DEF Scanned
    <3>2. events \o d.out = events
      BY <2>1, <2>2, ConcatEmptySeq
    <3> QED BY <3>1, <3>2 DEF Reading, Reads
  <2>7. Read(received, k).events = events
    BY ONLY <2>6
  <2> QED BY <2>5, <2>7 DEF Read
<1> QED BY <1>1, DecoderInvariant, PTL
=============================================================================
