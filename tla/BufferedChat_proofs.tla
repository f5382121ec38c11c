-------------------------- MODULE BufferedChat_proofs --------------------------
(***************************************************************************)
(* One answer, converted in three ways, is one message, for any indices    *)
(* and fragments and any number of pieces.                                 *)
(*                                                                         *)
(* JsonAgrees: the aggregate has what the events brought; when they came   *)
(* in the order of a message, its blocks are the reasoning, the text and   *)
(* the calls, in this order, and the calls ascend.  The conversion of the  *)
(* blocks and the conversion of the members then differ only in how they   *)
(* divide the text, which Joined undoes.                                   *)
(*                                                                         *)
(* AggregateAgrees: the blocks of the aggregate are those that a client of *)
(* the stream assembles from the frames so far, followed by what the       *)
(* converter has deferred; finish() shows the deferred items as the blocks *)
(* are shown, and both fail of the same answers.                           *)
(***************************************************************************)
EXTENDS BufferedChat, SequenceTheorems, FiniteSetTheorems, WellFoundedInduction, TLAPS

\* A set of naturals has a least member.
LEMMA LeastOf ==
    ASSUME NEW T, T \subseteq Nat, T # {}
    PROVE  \E x \in T : \A y \in T : x <= y
<1>1. IsWellFoundedOn(OpToRel(<, Nat), Nat)
  BY NatLessThanWellFounded
<1>2. PICK x \in T : \A y \in T : ~(<<y, x>> \in OpToRel(<, Nat))
  BY <1>1, WFMin
<1>3. \A y \in T : ~(y < x)
  BY <1>2 DEF OpToRel
<1> QED BY <1>3

\* Induction up to N, over a set in place of a predicate.
LEMMA UpTo ==
    ASSUME NEW N \in Nat, NEW T, 0 \in T, \A k \in 0..N : k \in T /\ k # N => k + 1 \in T
    PROVE  0..N \subseteq T
<1> SUFFICES ASSUME (0..N) \ T # {} PROVE FALSE
  OBVIOUS
<1>1. PICK x \in (0..N) \ T : \A y \in (0..N) \ T : x <= y
  <2>1. (0..N) \ T \subseteq Nat
    OBVIOUS
  <2> QED BY <2>1, LeastOf
<1>2. x # 0 /\ x - 1 \in 0..N /\ x - 1 # N /\ ~(x <= x - 1) /\ x = (x - 1) + 1
  BY <1>1
<1>3. x - 1 \in T
  BY <1>1, <1>2
<1> QED BY <1>1, <1>2, <1>3

-----------------------------------------------------------------------------
(* Joined: what the fold over the blocks of a message makes of them.        *)

\* Max, which is a CHOOSE, is what its name says.
LEMMA GreatestOf ==
    ASSUME NEW N \in Nat, NEW s, s \subseteq 1..N, s # {}
    PROVE  /\ Max(s) \in s /\ \A y \in s : Max(s) >= y
<1> DEFINE T == {N - x : x \in s}
<1>1. T \subseteq Nat /\ T # {}
  <2>1. \A x \in s : N - x \in Nat
    OBVIOUS
  <2>2. PICK x \in s : TRUE
    OBVIOUS
  <2>3. N - x \in T
    OBVIOUS
  <2> QED BY <2>1, <2>3
<1>2. PICK t \in T : \A u \in T : t <= u
  <2> HIDE DEF T
  <2> QED BY <1>1, LeastOf
<1>3. PICK x \in s : t = N - x
  BY <1>2
<1>4. ASSUME NEW y \in s PROVE x >= y
  <2>1. N - x <= N - y
    BY <1>2, <1>3
  <2>2. x \in Nat /\ y \in Nat
    OBVIOUS
  <2> QED BY <2>1, <2>2
<1> QED BY <1>3, <1>4 DEF Max

\* Join, the step of the fold.
JoinStep(content, block) ==
    IF content # <<>> /\ block.kind = "text" /\ Last(content).kind = "text"
    THEN [content EXCEPT ![Len(content)].pieces = @ \o block.pieces]
    ELSE Append(content, block)

\* The subsets over which the fold goes, of the first n blocks.
Folds(it, seq, n) ==
    it = [s \in SUBSET (1..n) |->
             IF s = {} THEN <<>> ELSE JoinStep(it[s \ {Max(s)}], seq[Max(s)])]

\* FoldLeft chooses a function over sets of positions: there is one.
LEMMA FoldExists ==
    ASSUME NEW N \in Nat, NEW seq
    PROVE  \E it : Folds(it, seq, N)
<1> DEFINE T == {n \in Nat : \E it : Folds(it, seq, n)}
<1>1. 0 \in T
  <2> DEFINE it == [s \in SUBSET (1..0) |-> <<>>]
  <2>1. \A s \in SUBSET (1..0) : s = {}
    OBVIOUS
  <2>2. Folds(it, seq, 0)
    BY <2>1 DEF Folds
  <2> QED BY <2>2
<1>2. ASSUME NEW n \in 0..N, n \in T PROVE n + 1 \in T
  <2>1. PICK it : Folds(it, seq, n)
    BY <1>2
  <2> DEFINE S == SUBSET (1..(n + 1))
             h == [s \in S |-> IF n + 1 \in s THEN JoinStep(it[s \ {n + 1}], seq[n + 1]) ELSE it[s]]
  <2>2. n + 1 \in Nat /\ n \in Nat
    OBVIOUS
  <2>3. ASSUME NEW s \in S
        PROVE  h[s] = IF s = {} THEN <<>> ELSE JoinStep(h[s \ {Max(s)}], seq[Max(s)])
    <3>1. CASE n + 1 \in s
      <4>1. s \subseteq 1..(n + 1) /\ s # {}
        BY <3>1
      <4>2. Max(s) \in s /\ \A y \in s : Max(s) >= y
        BY <2>2, <4>1, GreatestOf
      <4>3. Max(s) \in 1..(n + 1) /\ Max(s) >= n + 1
        BY <3>1, <4>1, <4>2
      <4>4. Max(s) = n + 1
        <5> DEFINE x == Max(s)
        <5> HIDE DEF x
        <5>1. x \in 1..(n + 1) /\ x >= n + 1
          BY <4>3 DEF x
        <5>2. x = n + 1
          BY <5>1, <2>2
        <5> QED BY <5>2 DEF x
      <4>5. s \ {n + 1} \in S /\ n + 1 \notin s \ {n + 1}
        OBVIOUS
      <4>6. h[s \ {n + 1}] = it[s \ {n + 1}]
        BY <4>5
      <4>7. h[s] = JoinStep(it[s \ {n + 1}], seq[n + 1])
        BY <3>1
      <4> QED BY <4>1, <4>4, <4>6, <4>7
    <3>2. CASE n + 1 \notin s /\ s # {}
      <4>1. s \in SUBSET (1..n)
        BY <2>2, <3>2
      <4>2. Max(s) \in s
        BY <2>2, <4>1, <3>2, GreatestOf
      <4>3. it[s] = JoinStep(it[s \ {Max(s)}], seq[Max(s)])
        BY <2>1, <3>2, <4>1 DEF Folds
      <4>4. s \ {Max(s)} \in S /\ n + 1 \notin s \ {Max(s)}
        BY <3>2
      <4>5. h[s \ {Max(s)}] = it[s \ {Max(s)}] /\ h[s] = it[s]
        BY <3>2, <4>4
      <4> QED BY <3>2, <4>3, <4>5
    <3>3. CASE s = {}
      <4>1. {} \in SUBSET (1..n) /\ n + 1 \notin s
        BY <3>3
      <4>2. it[{}] = <<>>
        BY <2>1, <4>1 DEF Folds
      <4> QED BY <3>3, <4>1, <4>2
    <3> QED BY <3>1, <3>2, <3>3
  <2> DEFINE k == [s \in S |-> IF s = {} THEN <<>> ELSE JoinStep(h[s \ {Max(s)}], seq[Max(s)])]
  <2>4. h = k
    <3>1. \A s \in S : h[s] = k[s]
      BY <2>3
    <3>2. DOMAIN h = S /\ DOMAIN k = S /\ h = [s \in S |-> h[s]] /\ k = [s \in S |-> k[s]]
      OBVIOUS
    <3> HIDE DEF h, k
    <3> QED BY <3>1, <3>2
  <2>5. Folds(h, seq, n + 1)
    <3> HIDE DEF h
    <3> QED BY <2>4 DEF Folds, S
  <2> HIDE DEF h
  <2> QED BY <2>2, <2>5
<1>3. N \in 0..N
  OBVIOUS
<1> HIDE DEF T
<1>4. 0..N \subseteq T
  BY <1>1, <1>2, UpTo
<1> QED BY <1>3, <1>4 DEF T

\* The blocks behind the first n, one after the other.
Run(f, seq) ==
    f[0] = <<>> /\ \A n \in 1..Len(seq) : f[n] = JoinStep(f[n - 1], seq[n])

\* Joined, of the content alone.
Glued(content) == Joined([content |-> content]).content

\* The fold of Joined goes through the blocks one after the other.
LEMMA GluedRun ==
    ASSUME NEW S, NEW seq \in Seq(S)
    PROVE  \E f : Run(f, seq) /\ Glued(seq) = f[Len(seq)]
<1> DEFINE N == Len(seq)
           it == CHOOSE it : Folds(it, seq, N)
           f == [n \in 0..N |-> it[1..n]]
<1>1. N \in Nat /\ DOMAIN seq = 1..N
  OBVIOUS
<1>2. Glued(seq) = it[1..N]
  <2> DEFINE m == [content |-> seq]
  <2>1. m.content = seq
    OBVIOUS
  <2> DEFINE fold == FoldLeft(JoinStep, <<>>, m.content)
  <2>2. Joined(m) = [m EXCEPT !.content = fold]
    BY DEF Joined, JoinStep
  <2>3. fold = it[1..N]
    BY <1>1, <2>1 DEF FoldLeft, MapThenFoldSet, Folds
  <2> HIDE DEF fold, it
  <2>4. Joined(m).content = fold
    BY <2>2
  <2> QED BY <2>3, <2>4 DEF Glued
<1>3. Folds(it, seq, N)
  <2>1. \E x : Folds(x, seq, N)
    BY <1>1, FoldExists
  <2> QED BY <2>1
<1> HIDE DEF it
<1>4. f[0] = <<>>
  <2>1. {} \in SUBSET (1..N) /\ 1..0 = {}
    OBVIOUS
  <2>2. it[{}] = <<>>
    BY <1>3, <2>1 DEF Folds
  <2> QED BY <1>1, <2>1, <2>2
<1>5. ASSUME NEW n \in 1..N PROVE f[n] = JoinStep(f[n - 1], seq[n])
  <2>1. 1..n \in SUBSET (1..N) /\ 1..n # {} /\ n \in Nat
    <3> HIDE DEF N, f
    <3>1. n \in Nat /\ 1 <= n /\ n <= N
      BY <1>1
    <3> QED BY <1>1, <3>1
  <2>2. Max(1..n) \in 1..n /\ \A y \in 1..n : Max(1..n) >= y
    BY <2>1, GreatestOf
  <2>3. Max(1..n) = n
    <3> DEFINE x == Max(1..n)
    <3>1. x \in 1..n /\ x >= n
      BY <2>1, <2>2
    <3> HIDE DEF x
    <3>2. x = n
      BY <2>1, <3>1
    <3> QED BY <3>2 DEF x
  <2>4. (1..n) \ {n} = 1..(n - 1)
    BY <2>1
  <2>5. it[1..n] = JoinStep(it[1..(n - 1)], seq[n])
    BY <1>3, <2>1, <2>3, <2>4 DEF Folds
  <2>6. n \in 0..N /\ n - 1 \in 0..N
    BY <1>1
  <2> QED BY <2>5, <2>6
<1>6. f[N] = it[1..N]
  <2> HIDE DEF N
  <2>1. N \in 0..N
    BY <1>1
  <2> QED BY <2>1
<1> HIDE DEF f
<1> QED BY <1>2, <1>4, <1>5, <1>6 DEF Run

\* Joined changes the content alone.
LEMMA JoinedIs == \A m : Joined(m) = [m EXCEPT !.content = Glued(m.content)]
<1> SUFFICES ASSUME NEW m PROVE Joined(m) = [m EXCEPT !.content = Glued(m.content)]
  OBVIOUS
<1> DEFINE c == m.content
           r == [content |-> c]
           fold == FoldLeft(JoinStep, <<>>, c)
<1>1. Joined(m) = [m EXCEPT !.content = fold]
  BY DEF Joined, JoinStep
<1>2. r.content = c
  OBVIOUS
<1>3. Joined(r) = [r EXCEPT !.content = FoldLeft(JoinStep, <<>>, r.content)]
  BY DEF Joined, JoinStep
<1>4. Joined(r) = [r EXCEPT !.content = fold]
  BY <1>2, <1>3
<1> HIDE DEF fold
<1>5. Joined(r).content = fold
  BY <1>4
<1> QED BY <1>1, <1>5 DEF Glued

\* No blocks, nothing to join.
LEMMA GluedEmpty == Glued(<<>>) = <<>>
<1>1. <<>> \in Seq({}) /\ Len(<<>>) = 0
  OBVIOUS
<1>2. PICK f : Run(f, <<>>) /\ Glued(<<>>) = f[Len(<<>>)]
  BY <1>1, GluedRun
<1> QED BY <1>1, <1>2 DEF Run

\* One more block is one more step of the fold.
LEMMA GluedAppend ==
    ASSUME NEW S, NEW seq \in Seq(S), NEW x \in S
    PROVE  Glued(Append(seq, x)) = JoinStep(Glued(seq), x)
<1> DEFINE N == Len(seq)
           longer == Append(seq, x)
<1>1. /\ N \in Nat /\ longer \in Seq(S) /\ Len(longer) = N + 1 /\ longer[N + 1] = x
      /\ \A n \in 1..N : longer[n] = seq[n]
  OBVIOUS
<1>2. PICK f : Run(f, seq) /\ Glued(seq) = f[N]
  BY GluedRun
<1>3. PICK g : Run(g, longer) /\ Glued(longer) = g[N + 1]
  BY <1>1, GluedRun
<1>4. f[0] = g[0] /\ \A n \in 1..N : f[n] = JoinStep(f[n - 1], seq[n]) /\ g[n] = JoinStep(g[n - 1], seq[n])
  <2> HIDE DEF longer
  <2> QED BY <1>1, <1>2, <1>3 DEF Run
<1>5. g[N + 1] = JoinStep(g[N], x)
  <2>1. N + 1 \in 1..(N + 1) /\ (N + 1) - 1 = N
    BY <1>1
  <2> HIDE DEF longer, N
  <2> QED BY <1>1, <1>3, <2>1 DEF Run
<1> HIDE DEF N, longer
<1> DEFINE T == {n \in Nat : f[n] = g[n]}
<1>6. 0 \in T
  BY <1>4
<1>7. ASSUME NEW n \in 0..N, n \in T, n # N PROVE n + 1 \in T
  <2>1. n + 1 \in 1..N /\ (n + 1) - 1 = n /\ n + 1 \in Nat
    BY <1>1, <1>7
  <2>2. f[n + 1] = g[n + 1]
    BY <1>4, <1>7, <2>1
  <2> QED BY <2>1, <2>2
<1>8. N \in T
  <2> HIDE DEF T
  <2>1. 0..N \subseteq T
    BY <1>1, <1>6, <1>7, UpTo
  <2>2. N \in 0..N
    BY <1>1
  <2> QED BY <2>1, <2>2
<1> QED BY <1>2, <1>3, <1>5, <1>8 DEF longer

Kinds == {"thinking", "text", "tool"}

Signs == {"none", "provider", "router", "encoded"}

ShownBlocks == [kind : Kinds, pieces : Seq(Nat), signature : Signs, carries : Seq(Nat)]

\* Two sequences that agree everywhere are equal.
LEMMA SameSeq ==
    ASSUME NEW S, NEW a \in Seq(S), NEW b \in Seq(S), Len(a) = Len(b),
           \A i \in 1..Len(a) : a[i] = b[i]
    PROVE  a = b
  OBVIOUS

\* TextOf is a text block with the pieces given.
LEMMA TextOfType ==
    ASSUME NEW p \in Seq(Nat)
    PROVE  TextOf(p) \in ShownBlocks /\ TextOf(p).kind = "text" /\ TextOf(p).pieces = p
<1>1. TextOf(p) = [kind |-> "text", pieces |-> p, signature |-> "none", carries |-> <<>>]
  BY DEF TextOf, Shows
<1>2. <<>> \in Seq(Nat)
  OBVIOUS
<1> QED BY <1>1, <1>2 DEF ShownBlocks, Kinds, Signs

\* A text block continues a text block or comes behind what there is.
LEMMA TextStep ==
    ASSUME NEW c \in Seq(ShownBlocks), NEW p \in Seq(Nat)
    PROVE  LET j == JoinStep(c, TextOf(p))
           IN  /\ j \in Seq(ShownBlocks) /\ j # <<>> /\ j[Len(j)].kind = "text"
               /\ c # <<>> /\ Last(c).kind = "text" =>
                      /\ Len(j) = Len(c)
                      /\ \A i \in 1..(Len(c) - 1) : j[i] = c[i]
                      /\ j[Len(c)] = [kind |-> "text", pieces |-> c[Len(c)].pieces \o p,
                                      signature |-> c[Len(c)].signature,
                                      carries |-> c[Len(c)].carries]
               /\ ~(c # <<>> /\ Last(c).kind = "text") => j = Append(c, TextOf(p))
<1> DEFINE j == JoinStep(c, TextOf(p))
           N == Len(c)
<1>1. TextOf(p) \in ShownBlocks /\ TextOf(p).kind = "text" /\ TextOf(p).pieces = p
  BY TextOfType
<1>2. N \in Nat
  OBVIOUS
<1>3. CASE c # <<>> /\ Last(c).kind = "text"
  <2>1. N \in 1..N /\ c[N] \in ShownBlocks /\ c[N].kind = "text"
    BY <1>3 DEF Last
  <2> DEFINE b == [c[N] EXCEPT !.pieces = @ \o p]
  <2>2. j = [c EXCEPT ![N] = b]
    BY <1>1, <1>3 DEF JoinStep
  <2>3. b = [kind |-> "text", pieces |-> c[N].pieces \o p, signature |-> c[N].signature,
             carries |-> c[N].carries]
    <3> DEFINE x == c[N]
               q == x.pieces \o p
    <3>1. x \in ShownBlocks /\ x.kind = "text" /\ b = [x EXCEPT !.pieces = q]
      BY <2>1
    <3> HIDE DEF x, q, b
    <3>2. b = [kind |-> "text", pieces |-> q, signature |-> x.signature, carries |-> x.carries]
      BY ONLY <3>1 DEF ShownBlocks
    <3> QED BY <3>2 DEF x, q
  <2>4. b \in ShownBlocks /\ b.kind = "text"
    <3>1. c[N].pieces \in Seq(Nat)
      <4> DEFINE x == c[N]
      <4>1. x \in ShownBlocks
        BY <2>1
      <4> HIDE DEF x
      <4>2. x.pieces \in Seq(Nat)
        BY ONLY <4>1 DEF ShownBlocks
      <4> QED BY <4>2 DEF x
    <3>2. c[N].pieces \o p \in Seq(Nat)
      BY <3>1
    <3>3. c[N].signature \in Signs /\ c[N].carries \in Seq(Nat)
      BY <2>1 DEF ShownBlocks, Kinds, Signs
    <3> DEFINE q == c[N].pieces \o p
               g == c[N].signature
               h == c[N].carries
    <3>4. b = [kind |-> "text", pieces |-> q, signature |-> g, carries |-> h]
      BY <2>3
    <3> HIDE DEF q, g, h, b
    <3>5. q \in Seq(Nat) /\ g \in Signs /\ h \in Seq(Nat)
      BY <3>2, <3>3 DEF q, g, h
    <3> QED BY ONLY <3>4, <3>5 DEF ShownBlocks, Kinds, Signs
  <2> HIDE DEF b, j
  <2>5. j \in Seq(ShownBlocks) /\ Len(j) = N /\ j[N] = b /\ \A i \in 1..(N - 1) : j[i] = c[i]
    BY <2>1, <2>2, <2>4
  <2>6. j # <<>>
    BY <2>1, <2>5
  <2> HIDE DEF N
  <2>7. Len(j) = N /\ j[Len(j)].kind = "text"
    BY <2>4, <2>5
  <2> QED BY <1>3, <2>3, <2>5, <2>6, <2>7 DEF N, j
<1>4. CASE ~(c # <<>> /\ Last(c).kind = "text")
  <2> DEFINE x == TextOf(p)
  <2> HIDE DEF x
  <2>1. x.kind = "text" /\ x \in ShownBlocks
    BY <1>1 DEF x
  <2>2. JoinStep(c, x) = Append(c, x)
    BY <1>4, <2>1 DEF JoinStep
  <2>3. /\ Append(c, x) \in Seq(ShownBlocks) /\ Append(c, x) # <<>>
        /\ Append(c, x)[Len(Append(c, x))] = x
    BY <2>1
  <2> QED BY <1>4, <2>1, <2>2, <2>3 DEF x
<1> QED BY <1>3, <1>4

\* A step keeps the type of the blocks.
LEMMA JoinStepType ==
    ASSUME NEW c \in Seq(ShownBlocks), NEW x \in ShownBlocks
    PROVE  JoinStep(c, x) \in Seq(ShownBlocks)
<1>1. CASE c # <<>> /\ x.kind = "text" /\ Last(c).kind = "text"
  <2> DEFINE N == Len(c)
             b == [c[N] EXCEPT !.pieces = @ \o x.pieces]
  <2>1. N \in 1..N /\ c[N] \in ShownBlocks
    BY <1>1
  <2>2. JoinStep(c, x) = [c EXCEPT ![N] = b]
    BY <1>1 DEF JoinStep
  <2>3. b \in ShownBlocks
    <3>1. c[N].pieces \o x.pieces \in Seq(Nat)
      BY <2>1 DEF ShownBlocks, Kinds, Signs
    <3> QED BY <2>1, <3>1 DEF ShownBlocks, Kinds, Signs
  <2> HIDE DEF b
  <2> QED BY <2>1, <2>2, <2>3
<1>2. CASE ~(c # <<>> /\ x.kind = "text" /\ Last(c).kind = "text")
  <2>1. JoinStep(c, x) = Append(c, x)
    BY <1>2 DEF JoinStep
  <2> QED BY <2>1
<1> QED BY <1>1, <1>2

\* Joining keeps the type of the blocks.
LEMMA GluedType ==
    ASSUME NEW seq \in Seq(ShownBlocks)
    PROVE  Glued(seq) \in Seq(ShownBlocks)
<1> DEFINE N == Len(seq)
<1>1. PICK f : Run(f, seq) /\ Glued(seq) = f[N]
  BY GluedRun
<1> DEFINE T == {n \in Nat : f[n] \in Seq(ShownBlocks)}
<1>2. N \in Nat /\ \A n \in 1..N : seq[n] \in ShownBlocks
  OBVIOUS
<1>3. 0 \in T
  <2>1. f[0] = <<>> /\ <<>> \in Seq(ShownBlocks)
    BY <1>1 DEF Run
  <2> QED BY <2>1
<1> HIDE DEF N
<1>4. ASSUME NEW n \in 0..N, n \in T, n # N PROVE n + 1 \in T
  <2>1. n + 1 \in 1..N /\ (n + 1) - 1 = n /\ n + 1 \in Nat
    BY <1>2, <1>4
  <2>2. f[n + 1] = JoinStep(f[n], seq[n + 1])
    BY <1>1, <2>1 DEF Run, N
  <2> QED BY <1>2, <1>4, <2>1, <2>2, JoinStepType
<1> HIDE DEF T
<1>5. 0..N \subseteq T
  BY <1>2, <1>3, <1>4, UpTo
<1>6. N \in 0..N
  BY <1>2
<1> QED BY <1>1, <1>5, <1>6 DEF T

\* What joins alike joins alike in front of any blocks.
LEMMA GluedConcat ==
    ASSUME NEW s \in Seq(ShownBlocks), NEW t \in Seq(ShownBlocks), Glued(s) = Glued(t),
           NEW c \in Seq(ShownBlocks)
    PROVE  Glued(s \o c) = Glued(t \o c)
<1> DEFINE N == Len(c)
           T == {n \in Nat : Glued(s \o SubSeq(c, 1, n)) = Glued(t \o SubSeq(c, 1, n))}
<1>1. N \in Nat /\ \A n \in 1..N : c[n] \in ShownBlocks
  OBVIOUS
<1>2. 0 \in T
  <2>1. SubSeq(c, 1, 0) = <<>>
    OBVIOUS
  <2>2. s \o <<>> = s /\ t \o <<>> = t
    OBVIOUS
  <2> QED BY <2>1, <2>2
<1>3. ASSUME NEW n \in 0..N, n \in T, n # N PROVE n + 1 \in T
  <2> DEFINE u == SubSeq(c, 1, n)
             x == c[n + 1]
  <2>1. n + 1 \in 1..N /\ n \in 0..N /\ n \in Nat /\ n + 1 \in Nat
    <3> HIDE DEF N
    <3> QED BY <1>1, <1>3
  <2>2. u \in Seq(ShownBlocks) /\ x \in ShownBlocks /\ Len(u) = n
    BY <2>1
  <2>3. SubSeq(c, 1, n + 1) = Append(u, x)
    <3>1. SubSeq(c, 1, n + 1) \in Seq(ShownBlocks) /\ Len(SubSeq(c, 1, n + 1)) = n + 1
      BY <2>1
    <3> QED BY <2>1, <3>1, SameSeq
  <2>4. Glued(s \o u) = Glued(t \o u)
    BY <1>3
  <2> HIDE DEF u, x
  <2>5. s \o Append(u, x) = Append(s \o u, x) /\ t \o Append(u, x) = Append(t \o u, x)
    BY <2>2
  <2>6. s \o u \in Seq(ShownBlocks) /\ t \o u \in Seq(ShownBlocks)
    BY <2>2
  <2>7. /\ Glued(Append(s \o u, x)) = JoinStep(Glued(s \o u), x)
        /\ Glued(Append(t \o u, x)) = JoinStep(Glued(t \o u), x)
    BY <2>2, <2>6, GluedAppend
  <2> QED BY <2>1, <2>3, <2>4, <2>5, <2>7
<1> HIDE DEF T
<1>4. N \in T
  <2> HIDE DEF N
  <2>1. 0..N \subseteq T
    BY <1>1, <1>2, <1>3, UpTo
  <2>2. N \in 0..N
    BY <1>1
  <2> QED BY <2>1, <2>2
<1>5. SubSeq(c, 1, N) = c
  OBVIOUS
<1> QED BY <1>4, <1>5 DEF T

\* A text, unless it is empty.
OptText(p) == Optional(p # <<>>, TextOf(p))

\* No block or a text block.
LEMMA OptTextType ==
    ASSUME NEW p \in Seq(Nat)
    PROVE  OptText(p) \in Seq(ShownBlocks)
BY TextOfType DEF OptText, Optional

\* Two texts in a row are one.
LEMMA TextTwice ==
    ASSUME NEW c \in Seq(ShownBlocks), NEW p \in Seq(Nat), NEW q \in Seq(Nat)
    PROVE  JoinStep(JoinStep(c, TextOf(p)), TextOf(q)) = JoinStep(c, TextOf(p \o q))
<1> DEFINE j == JoinStep(c, TextOf(p))
           k == JoinStep(j, TextOf(q))
           m == JoinStep(c, TextOf(p \o q))
<1>1. p \o q \in Seq(Nat)
  OBVIOUS
<1>2. /\ j \in Seq(ShownBlocks) /\ j # <<>> /\ j[Len(j)].kind = "text"
      /\ c # <<>> /\ Last(c).kind = "text" =>
             /\ Len(j) = Len(c)
             /\ \A i \in 1..(Len(c) - 1) : j[i] = c[i]
             /\ j[Len(c)] = [kind |-> "text", pieces |-> c[Len(c)].pieces \o p,
                             signature |-> c[Len(c)].signature, carries |-> c[Len(c)].carries]
      /\ ~(c # <<>> /\ Last(c).kind = "text") => j = Append(c, TextOf(p))
  BY TextStep
<1>3. /\ m \in Seq(ShownBlocks)
      /\ c # <<>> /\ Last(c).kind = "text" =>
             /\ Len(m) = Len(c)
             /\ \A i \in 1..(Len(c) - 1) : m[i] = c[i]
             /\ m[Len(c)] = [kind |-> "text", pieces |-> c[Len(c)].pieces \o (p \o q),
                             signature |-> c[Len(c)].signature, carries |-> c[Len(c)].carries]
      /\ ~(c # <<>> /\ Last(c).kind = "text") => m = Append(c, TextOf(p \o q))
  BY <1>1, TextStep
<1> HIDE DEF j, m
<1>4. Last(j).kind = "text"
  BY <1>2 DEF Last
<1>5. /\ k \in Seq(ShownBlocks) /\ Len(k) = Len(j)
      /\ \A i \in 1..(Len(j) - 1) : k[i] = j[i]
      /\ k[Len(j)] = [kind |-> "text", pieces |-> j[Len(j)].pieces \o q,
                      signature |-> j[Len(j)].signature, carries |-> j[Len(j)].carries]
  BY <1>2, <1>4, TextStep
<1> HIDE DEF k
<1>6. k = m
  <2>1. CASE c # <<>> /\ Last(c).kind = "text"
    <3> DEFINE N == Len(c)
               b == c[N]
    <3>1. N \in Nat /\ N >= 1 /\ b \in ShownBlocks
      BY <2>1
    <3>2. b.pieces \in Seq(Nat)
      <4> HIDE DEF b
      <4> QED BY ONLY <3>1 DEF ShownBlocks
    <3>3. (b.pieces \o p) \o q = b.pieces \o (p \o q)
      <4> HIDE DEF b
      <4>1. \A x, y, z \in Seq(Nat) : (x \o y) \o z = x \o (y \o z)
        OBVIOUS
      <4> QED BY ONLY <3>2, <4>1, p \in Seq(Nat), q \in Seq(Nat)
    <3>4. /\ Len(j) = N /\ Len(k) = N /\ Len(m) = N
          /\ \A i \in 1..(N - 1) : k[i] = m[i]
          /\ j[N] = [kind |-> "text", pieces |-> b.pieces \o p,
                     signature |-> b.signature, carries |-> b.carries]
          /\ m[N] = [kind |-> "text", pieces |-> b.pieces \o (p \o q),
                     signature |-> b.signature, carries |-> b.carries]
          /\ k[N] = [kind |-> "text", pieces |-> j[N].pieces \o q,
                     signature |-> j[N].signature, carries |-> j[N].carries]
      BY <1>2, <1>3, <1>5, <2>1
    <3> HIDE DEF N, b
    <3>5. k[N] = m[N]
      <4> DEFINE x == b.pieces
                 g == b.signature
                 h == b.carries
                 xp == x \o p
      <4>1. j[N] = [kind |-> "text", pieces |-> xp, signature |-> g, carries |-> h]
        BY <3>4
      <4>2. (xp) \o q = x \o (p \o q)
        BY <3>3
      <4>3. m[N] = [kind |-> "text", pieces |-> x \o (p \o q), signature |-> g, carries |-> h]
        BY <3>4
      <4> HIDE DEF x, g, h, xp
      <4>4. j[N].pieces = xp /\ j[N].signature = g /\ j[N].carries = h
        BY ONLY <4>1
      <4>5. k[N] = [kind |-> "text", pieces |-> xp \o q, signature |-> g, carries |-> h]
        BY <3>4, <4>4
      <4> QED BY ONLY <4>2, <4>3, <4>5
    <3>6. \A i \in 1..N : k[i] = m[i]
      <4> SUFFICES ASSUME NEW i \in 1..N PROVE k[i] = m[i]
        OBVIOUS
      <4>1. i = N \/ i \in 1..(N - 1)
        BY <3>1
      <4> QED BY <3>4, <3>5, <4>1
    <3> QED BY <1>3, <1>5, <3>4, <3>6, SameSeq
  <2>2. CASE ~(c # <<>> /\ Last(c).kind = "text")
    <3> DEFINE N == Len(c) + 1
               x == TextOf(p)
               y == TextOf(p \o q)
    <3>1. x \in ShownBlocks /\ y \in ShownBlocks
      BY <1>1, TextOfType
    <3>2. x = [kind |-> "text", pieces |-> p, signature |-> "none", carries |-> <<>>]
      BY DEF TextOf, Shows
    <3>3. y = [kind |-> "text", pieces |-> p \o q, signature |-> "none", carries |-> <<>>]
      BY DEF TextOf, Shows
    <3> HIDE DEF x, y
    <3>4. j = Append(c, x) /\ m = Append(c, y)
      BY <1>2, <1>3, <2>2 DEF x, y
    <3>5. /\ N \in Nat /\ Len(j) = N /\ j[N] = x /\ Len(m) = N /\ m[N] = y
          /\ \A i \in 1..(N - 1) : j[i] = c[i] /\ m[i] = c[i]
      BY <3>1, <3>4
    <3> HIDE DEF N
    <3>6. k[N] = y
      <4>1. x.pieces = p /\ x.signature = "none" /\ x.carries = <<>>
        BY ONLY <3>2
      <4>2. k[N] = [kind |-> "text", pieces |-> j[N].pieces \o q,
                    signature |-> j[N].signature, carries |-> j[N].carries]
        BY <1>5, <3>5
      <4> QED BY <3>3, <3>5, <4>1, <4>2
    <3>7. \A i \in 1..N : k[i] = m[i]
      <4> SUFFICES ASSUME NEW i \in 1..N PROVE k[i] = m[i]
        OBVIOUS
      <4>1. i = N \/ i \in 1..(N - 1)
        BY <3>5
      <4> QED BY <1>5, <3>5, <3>6, <4>1
    <3>8. Len(k) = N
      BY <1>5, <3>5
    <3> QED BY <1>3, <1>5, <3>5, <3>7, <3>8, SameSeq
  <2> QED BY <2>1, <2>2
<1> QED BY <1>6 DEF j, k, m

\* ... and so in how many blocks a text comes makes no difference.
LEMMA TextsGlued ==
    ASSUME NEW s \in Seq(ShownBlocks), NEW p \in Seq(Nat), NEW q \in Seq(Nat)
    PROVE  Glued((s \o OptText(p)) \o OptText(q)) = Glued(s \o OptText(p \o q))
<1>1. \A t \in Seq(ShownBlocks) : t \o <<>> = t
  OBVIOUS
<1>2. \A t \in Seq(ShownBlocks), x \in ShownBlocks : t \o <<x>> = Append(t, x)
  OBVIOUS
<1>3. CASE q = <<>>
  <2>1. OptText(q) = <<>> /\ p \o q = p
    BY <1>3 DEF OptText, Optional
  <2>2. s \o OptText(p) \in Seq(ShownBlocks)
    BY OptTextType
  <2> QED BY <1>1, <2>1, <2>2
<1>4. CASE p = <<>>
  <2>1. OptText(p) = <<>> /\ p \o q = q
    BY <1>4 DEF OptText, Optional
  <2> QED BY <1>1, <2>1
<1>5. CASE p # <<>> /\ q # <<>>
  <2> DEFINE x == TextOf(p)
             y == TextOf(q)
             z == TextOf(p \o q)
  <2>1. p \o q # <<>> /\ p \o q \in Seq(Nat)
    BY <1>5
  <2>2. x \in ShownBlocks /\ y \in ShownBlocks /\ z \in ShownBlocks
    BY <2>1, TextOfType
  <2>3. OptText(p) = <<x>> /\ OptText(q) = <<y>> /\ OptText(p \o q) = <<z>>
    BY <1>5, <2>1 DEF OptText, Optional
  <2>4. JoinStep(JoinStep(Glued(s), x), y) = JoinStep(Glued(s), z)
    <3>1. Glued(s) \in Seq(ShownBlocks)
      BY GluedType
    <3> QED BY <3>1, TextTwice
  <2> HIDE DEF x, y, z
  <2>5. s \o <<x>> = Append(s, x) /\ Append(s, x) \in Seq(ShownBlocks) /\ s \o <<z>> = Append(s, z)
    BY <1>2, <2>2
  <2>6. Append(s, x) \o <<y>> = Append(Append(s, x), y)
    BY <1>2, <2>2, <2>5
  <2>7. /\ Glued(Append(s, x)) = JoinStep(Glued(s), x)
        /\ Glued(Append(s, z)) = JoinStep(Glued(s), z)
        /\ Glued(Append(Append(s, x), y)) = JoinStep(Glued(Append(s, x)), y)
    BY <2>2, <2>5, GluedAppend
  <2> QED BY <2>3, <2>4, <2>5, <2>6, <2>7
<1> QED BY <1>3, <1>4, <1>5

-----------------------------------------------------------------------------
(* What the events of an answer leave, when they come in the order of the   *)
(* message: reasoning, text, calls.                                         *)

Ascending(o) == \A j, k \in 1..Len(o) : j < k => o[j] < o[k]

\* o lists the calls.
Lists(o, a) ==
    o \in Seq(Indices) /\ \A i \in Indices : i \in CallsOf(a) <=> \E n \in 1..Len(o) : o[n] = i

CallBlock(i) == Placed("tool", <<>>, "none", i)

CallBlocks(o) == [n \in 1..Len(o) |-> CallBlock(o[n])]

\* The reasoning, the text and the calls of a laid-out answer.
Leading(a, sg) ==
    Optional(a.thinking # <<>> \/ sg # "none", Placed("thinking", a.thinking, sg, 0))

Texts(a) == (a.text \o a.attached) \o a.refusal

Middle(a) == Optional(Texts(a) # <<>>, Placed("text", Texts(a), "none", 0))

Laid(a, sg, o) == a.blocks = (Leading(a, sg) \o Middle(a)) \o CallBlocks(o)

ToolStates ==
    [id : Ids \cup {"", Generated}, named : BOOLEAN, args : {"", "{", "{}", "bad"},
     piece : Nat]

Placements == [kind : Kinds, pieces : Seq(Nat), signature : Signatures, index : Indices]

Aggregates ==
    [blocks : Seq(Placements), thinking : Seq(Nat), signature : Signatures, text : Seq(Nat),
     attached : Seq(Nat), refusal : Seq(Nat), tools : [Indices -> ToolStates], legacy : ToolStates,
     reason : {"", "stop", "length", "tool_calls", "content_filter", "other"}, failed : BOOLEAN]

\* Types of a new block.
LEMMA PlacedType ==
    ASSUME NEW kind \in Kinds, NEW pieces \in Seq(Nat), NEW sg \in Signatures, NEW i \in Indices
    PROVE  Placed(kind, pieces, sg, i) \in Placements
BY DEF Placed, Placements

Longer(b, n) == [b EXCEPT !.pieces = Append(@, n)]

\* What AppendPiece makes of the blocks.
Grown(blocks, kind, n) ==
    IF blocks # <<>> /\ blocks[Len(blocks)].kind = kind
    THEN [blocks EXCEPT ![Len(blocks)] = Longer(blocks[Len(blocks)], n)]
    ELSE Append(blocks, Placed(kind, <<n>>, "none", 0))

\* A piece keeps the type of the blocks.
LEMMA GrownType ==
    ASSUME NEW blocks \in Seq(Placements), NEW kind \in Kinds, NEW n \in Nat
    PROVE  Grown(blocks, kind, n) \in Seq(Placements) /\ Grown(blocks, kind, n) # <<>>
<1>1. CASE blocks # <<>> /\ blocks[Len(blocks)].kind = kind
  <2> DEFINE N == Len(blocks)
             x == blocks[N]
             p == Append(x.pieces, n)
             b == [x EXCEPT !.pieces = p]
  <2>1. N \in 1..N /\ N \in Nat /\ x \in Placements
    BY <1>1
  <2>2. Grown(blocks, kind, n) = [blocks EXCEPT ![N] = b]
    BY <1>1 DEF Grown, Longer
  <2> HIDE DEF x
  <2>3. x.pieces \in Seq(Nat)
    BY ONLY <2>1 DEF Placements
  <2>4. p \in Seq(Nat)
    BY <2>3
  <2> HIDE DEF p
  <2>5. b \in Placements
    BY ONLY <2>1, <2>4 DEF Placements
  <2> HIDE DEF b
  <2> QED BY <2>1, <2>2, <2>5
<1>2. CASE ~(blocks # <<>> /\ blocks[Len(blocks)].kind = kind)
  <2> DEFINE b == Placed(kind, <<n>>, "none", 0)
  <2>1. Grown(blocks, kind, n) = Append(blocks, b)
    BY <1>2 DEF Grown
  <2>2. b \in Placements
    <3>1. <<n>> \in Seq(Nat)
      OBVIOUS
    <3>2. "none" \in Signatures
      BY DEF Signatures
    <3>3. 0 \in Indices
      BY ConverterAssumption
    <3> QED BY <3>1, <3>2, <3>3, PlacedType
  <2> HIDE DEF b
  <2> QED BY <2>1, <2>2
<1> QED BY <1>1, <1>2

\* AppendPiece, without its LET.
LEMMA AppendPieceGrows ==
    ASSUME NEW a \in Aggregates, NEW kind \in Kinds, NEW n \in Nat
    PROVE  AppendPiece(a, kind, n) = [a EXCEPT !.blocks = Grown(a.blocks, kind, n)]
<1>1. a.blocks \in Seq(Placements)
  BY DEF Aggregates
<1>2. Len(a.blocks) \in Nat /\ (Len(a.blocks) > 0 <=> a.blocks # <<>>)
  BY <1>1
<1>3. CASE a.blocks # <<>> /\ a.blocks[Len(a.blocks)].kind = kind
  <2> DEFINE N == Len(a.blocks)
             last == a.blocks[N]
             b == [last EXCEPT !.pieces = Append(last.pieces, n)]
             q == [a.blocks EXCEPT ![N] = b]
  <2>1. N > 0 /\ last.kind = kind
    BY <1>2, <1>3
  <2>2. AppendPiece(a, kind, n) = [a EXCEPT !.blocks = q]
    BY <2>1 DEF AppendPiece
  <2>3. Grown(a.blocks, kind, n) = q
    BY <1>3 DEF Grown, Longer
  <2> HIDE DEF q
  <2> QED BY <2>2, <2>3
<1>4. CASE ~(a.blocks # <<>> /\ a.blocks[Len(a.blocks)].kind = kind)
  BY <1>2, <1>4 DEF AppendPiece, Grown
<1> QED BY <1>3, <1>4

\* Everything but the pieces of the members and the blocks.
Keeps(t, a) ==
    /\ t.signature = a.signature /\ t.tools = a.tools /\ t.legacy = a.legacy
    /\ t.reason = a.reason /\ t.failed = a.failed

\* What the events with text, reasoning and refusals change, and what they leave.
LEMMA PiecesAdded ==
    ASSUME NEW a \in Aggregates, NEW n \in Nat
    PROVE  /\ LET t == AddThinking(a, n)
              IN  /\ t \in Aggregates /\ Keeps(t, a) /\ t.blocks = Grown(a.blocks, "thinking", n)
                  /\ t.thinking = Append(a.thinking, n) /\ t.text = a.text
                  /\ t.attached = a.attached /\ t.refusal = a.refusal
           /\ LET t == AddText(a, n)
              IN  /\ t \in Aggregates /\ Keeps(t, a) /\ t.blocks = Grown(a.blocks, "text", n)
                  /\ t.thinking = a.thinking /\ t.text = Append(a.text, n)
                  /\ t.attached = a.attached /\ t.refusal = a.refusal
           /\ LET t == AddAttachment(a, n)
              IN  /\ t \in Aggregates /\ Keeps(t, a) /\ t.blocks = Grown(a.blocks, "text", n)
                  /\ t.thinking = a.thinking /\ t.text = a.text
                  /\ t.attached = Append(a.attached, n) /\ t.refusal = a.refusal
           /\ LET t == AddRefusal(a, n)
              IN  /\ t \in Aggregates /\ Keeps(t, a) /\ t.blocks = Grown(a.blocks, "text", n)
                  /\ t.thinking = a.thinking /\ t.text = a.text
                  /\ t.attached = a.attached /\ t.refusal = Append(a.refusal, n)
<1> DEFINE g == Grown(a.blocks, "thinking", n)
           h == Grown(a.blocks, "text", n)
           th == Append(a.thinking, n)
           tx == Append(a.text, n)
           at == Append(a.attached, n)
           rf == Append(a.refusal, n)
<1>1. "thinking" \in Kinds /\ "text" \in Kinds
  BY DEF Kinds
<1>2. /\ a.blocks \in Seq(Placements) /\ a.thinking \in Seq(Nat) /\ a.text \in Seq(Nat)
      /\ a.attached \in Seq(Nat) /\ a.refusal \in Seq(Nat)
  BY DEF Aggregates
<1>3. g \in Seq(Placements) /\ h \in Seq(Placements)
  BY <1>1, <1>2, GrownType
<1>4. th \in Seq(Nat) /\ tx \in Seq(Nat) /\ at \in Seq(Nat) /\ rf \in Seq(Nat)
  BY <1>2
<1>5. /\ AppendPiece(a, "thinking", n) = [a EXCEPT !.blocks = g]
      /\ AppendPiece(a, "text", n) = [a EXCEPT !.blocks = h]
  BY <1>1, AppendPieceGrows
<1>6. /\ AddThinking(a, n) = [[a EXCEPT !.blocks = g] EXCEPT !.thinking = th]
      /\ AddText(a, n) = [[a EXCEPT !.blocks = h] EXCEPT !.text = tx]
      /\ AddAttachment(a, n) = [[a EXCEPT !.blocks = h] EXCEPT !.attached = at]
      /\ AddRefusal(a, n) = [[a EXCEPT !.blocks = h] EXCEPT !.refusal = rf]
  BY <1>5 DEF AddThinking, AddText, AddAttachment, AddRefusal, Aggregates
<1> HIDE DEF g, h, th, tx, at, rf
<1>7. LET t == AddThinking(a, n)
      IN  /\ t \in Aggregates /\ Keeps(t, a) /\ t.blocks = g
          /\ t.thinking = th /\ t.text = a.text /\ t.attached = a.attached /\ t.refusal = a.refusal
  BY <1>3, <1>4, <1>6 DEF Aggregates, Keeps
<1>8. LET t == AddText(a, n)
      IN  /\ t \in Aggregates /\ Keeps(t, a) /\ t.blocks = h /\ t.thinking = a.thinking
          /\ t.text = tx /\ t.attached = a.attached /\ t.refusal = a.refusal
  BY <1>3, <1>4, <1>6 DEF Aggregates, Keeps
<1>9. LET t == AddAttachment(a, n)
      IN  /\ t \in Aggregates /\ Keeps(t, a) /\ t.blocks = h /\ t.thinking = a.thinking
          /\ t.text = a.text /\ t.attached = at /\ t.refusal = a.refusal
  BY <1>3, <1>4, <1>6 DEF Aggregates, Keeps
<1>10. LET t == AddRefusal(a, n)
      IN  /\ t \in Aggregates /\ Keeps(t, a) /\ t.blocks = h /\ t.thinking = a.thinking
          /\ t.text = a.text /\ t.attached = a.attached /\ t.refusal = rf
  BY <1>3, <1>4, <1>6 DEF Aggregates, Keeps
<1> QED BY <1>7, <1>8, <1>9, <1>10 DEF g, h, th, tx, at, rf

\* A signature goes to the reasoning it follows, or to a new block without any.
LEMMA SignatureAdded ==
    ASSUME NEW a \in Aggregates, NEW sg \in Signatures
    PROVE  LET t == AddSignature(a, sg)
           IN  /\ t \in Aggregates /\ Keeps(t, a) /\ t.blocks # <<>>
               /\ t.thinking = a.thinking /\ t.text = a.text
               /\ t.attached = a.attached /\ t.refusal = a.refusal
               /\ a.blocks = <<>> => t.blocks = <<Placed("thinking", <<>>, sg, 0)>>
               /\ a.blocks # <<>> /\ a.blocks[Len(a.blocks)].kind = "thinking" =>
                      t.blocks = [a.blocks EXCEPT ![Len(a.blocks)] =
                                      [a.blocks[Len(a.blocks)] EXCEPT !.signature = sg]]
<1> DEFINE bs == a.blocks
           N == Len(bs)
           I == {n \in 1..N : bs[n].kind = "thinking"}
           m == Max(I)
           b == [bs[m] EXCEPT !.signature = sg]
           q == [bs EXCEPT ![m] = b]
           r == Append(bs, Placed("thinking", <<>>, sg, 0))
           t == AddSignature(a, sg)
<1>1. bs \in Seq(Placements) /\ N \in Nat /\ \A n \in 1..N : bs[n] \in Placements
  <2>1. bs \in Seq(Placements)
    BY DEF Aggregates
  <2> HIDE DEF bs
  <2> QED BY <2>1
<1>2. I # {} => m \in I /\ \A y \in I : m >= y
  <2> HIDE DEF bs
  <2> QED BY <1>1, GreatestOf
<1>3. I # {} => t = [a EXCEPT !.blocks = q]
  <2>1. I # {} => m \in 1..N /\ m > 0
    <3> HIDE DEF bs, m
    <3> QED BY <1>1, <1>2
  <2> HIDE DEF m
  <2> QED BY <2>1 DEF AddSignature, SelectLastInSeq, m
<1>4. I = {} => t = [a EXCEPT !.blocks = r]
  BY DEF AddSignature, SelectLastInSeq
<1>5. I # {} => q \in Seq(Placements) /\ q # <<>>
  <2> SUFFICES ASSUME I # {} PROVE q \in Seq(Placements) /\ q # <<>>
    OBVIOUS
  <2> DEFINE x == bs[m]
  <2>1. m \in 1..N /\ x \in Placements
    <3> HIDE DEF bs, m
    <3> QED BY <1>1, <1>2
  <2> HIDE DEF x, m
  <2>2. [x EXCEPT !.signature = sg] \in Placements
    BY ONLY <2>1, sg \in Signatures DEF Placements
  <2>3. b = [x EXCEPT !.signature = sg]
    BY DEF x
  <2> HIDE DEF b, bs
  <2>4. q \in Seq(Placements) /\ Len(q) = N
    BY <1>1, <2>1, <2>2, <2>3
  <2> QED BY <1>1, <2>1, <2>4
<1>6. r \in Seq(Placements) /\ r # <<>>
  <2> DEFINE x == Placed("thinking", <<>>, sg, 0)
  <2>1. x \in Placements
    <3>1. <<>> \in Seq(Nat)
      OBVIOUS
    <3>2. "thinking" \in Kinds
      BY DEF Kinds
    <3>3. 0 \in Indices
      BY ConverterAssumption
    <3> QED BY <3>1, <3>2, <3>3, PlacedType
  <2>2. r = Append(bs, x)
    OBVIOUS
  <2> HIDE DEF x, bs, r
  <2>3. Append(bs, x) \in Seq(Placements) /\ Append(bs, x) # <<>>
    BY <1>1, <2>1
  <2> QED BY <2>2, <2>3
<1>7. \A z \in Seq(Placements) :
          LET u == [a EXCEPT !.blocks = z]
          IN  /\ u \in Aggregates /\ Keeps(u, a) /\ u.blocks = z
              /\ u.thinking = a.thinking /\ u.text = a.text
              /\ u.attached = a.attached /\ u.refusal = a.refusal
  BY DEF Aggregates, Keeps
<1>8. bs = <<>> => I = {} /\ r = <<Placed("thinking", <<>>, sg, 0)>>
  <2> DEFINE x == Placed("thinking", <<>>, sg, 0)
  <2> HIDE DEF x, bs
  <2> SUFFICES ASSUME bs = <<>> PROVE I = {} /\ Append(bs, x) = <<x>>
    BY DEF x
  <2>1. N = 0
    OBVIOUS
  <2> QED BY <2>1
<1>9. bs # <<>> /\ bs[N].kind = "thinking" => I # {} /\ m = N
  <2> HIDE DEF bs
  <2> SUFFICES ASSUME bs # <<>> /\ bs[N].kind = "thinking" PROVE I # {} /\ m = N
    OBVIOUS
  <2>1. N \in I
    BY <1>1
  <2>2. m \in 1..N /\ m >= N
    BY <1>2, <2>1
  <2> HIDE DEF m, I, N
  <2> QED BY <1>1, <2>1, <2>2
<1> HIDE DEF t, r
<1>10. CASE I = {}
  <2>1. t = [a EXCEPT !.blocks = r]
    BY <1>4, <1>10
  <2>2. /\ t \in Aggregates /\ Keeps(t, a) /\ t.blocks = r
        /\ t.thinking = a.thinking /\ t.text = a.text
        /\ t.attached = a.attached /\ t.refusal = a.refusal
    BY <1>6, <1>7, <2>1
  <2>3. bs = <<>> => t.blocks = <<Placed("thinking", <<>>, sg, 0)>>
    BY <1>8, <2>2
  <2>4. ~(bs # <<>> /\ bs[N].kind = "thinking")
    BY <1>9, <1>10
  <2> QED BY <1>6, <2>2, <2>3, <2>4 DEF t
<1>11. CASE I # {}
  <2>1. bs # <<>>
    BY <1>8, <1>11
  <2>2. bs[N].kind = "thinking" =>
            q = [bs EXCEPT ![N] = [bs[N] EXCEPT !.signature = sg]]
    BY <1>9, <2>1
  <2> HIDE DEF q
  <2>3. t = [a EXCEPT !.blocks = q]
    BY <1>3, <1>11
  <2>4. /\ t \in Aggregates /\ Keeps(t, a) /\ t.blocks = q
        /\ t.thinking = a.thinking /\ t.text = a.text
        /\ t.attached = a.attached /\ t.refusal = a.refusal
    BY <1>5, <1>7, <1>11, <2>3
  <2>5. bs[N].kind = "thinking" =>
            t.blocks = [bs EXCEPT ![N] = [bs[N] EXCEPT !.signature = sg]]
    BY <2>2, <2>4
  <2>6. t.blocks # <<>>
    BY <1>5, <1>11, <2>4
  <2> HIDE DEF I
  <2> QED BY <2>1, <2>4, <2>5, <2>6 DEF t
<1> QED BY <1>10, <1>11

\* What a fragment makes of the call it belongs to.
MergedTool(tool, fragment) ==
    [tool EXCEPT !.named = tool.named \/ fragment.named,
                 !.args = ArgumentsWith(tool.args, fragment.args)]

\* A fragment keeps the type of a call.
LEMMA MergedToolType ==
    ASSUME NEW tool \in ToolStates, NEW fragment \in Fragments
    PROVE  MergedTool(tool, fragment) \in ToolStates
<1>1. fragment.named \in BOOLEAN /\ fragment.args \in {"", "{", "}", "{}"}
  BY ConverterAssumption
<1>2. ArgumentsWith(tool.args, fragment.args) \in {"", "{", "{}", "bad"}
  BY <1>1 DEF ArgumentsWith, ToolStates
<1>3. (tool.named \/ fragment.named) \in BOOLEAN
  OBVIOUS
<1> QED BY <1>2, <1>3 DEF MergedTool, ToolStates

Clashes(tool, fragment) == tool.id \notin {"", fragment.id} /\ fragment.id # ""

Counted(tool, n) == [tool EXCEPT !.piece = IF tool.piece = 0 THEN n ELSE tool.piece]

Named(tool, fragment) == [tool EXCEPT !.id = IF fragment.id = "" THEN tool.id ELSE fragment.id]

\* ... when it came as the n-th piece.
Taken(tool, fragment, n) ==
    IF Clashes(tool, fragment) THEN Counted(tool, n)
    ELSE MergedTool(Named(Counted(tool, n), fragment), fragment)

\* ... also when it is the first, and a call keeps its first piece.
LEMMA TakenType ==
    ASSUME NEW tool \in ToolStates, NEW fragment \in Fragments, NEW n \in Nat
    PROVE  /\ Counted(tool, n) \in ToolStates /\ Taken(tool, fragment, n) \in ToolStates
           /\ Named(Counted(tool, n), fragment) \in ToolStates
           /\ Counted(tool, n).id = tool.id
           /\ Taken(tool, fragment, n).piece = IF tool.piece = 0 THEN n ELSE tool.piece
<1>1. fragment.id \in Ids \cup {"", Generated}
  BY ConverterAssumption
<1> DEFINE c == Counted(tool, n)
           d == Named(c, fragment)
<1>2. /\ c \in ToolStates /\ c.piece = IF tool.piece = 0 THEN n ELSE tool.piece
      /\ c.id = tool.id
  BY DEF Counted, ToolStates
<1> HIDE DEF c
<1>3. d \in ToolStates /\ d.piece = c.piece
  BY <1>1, <1>2 DEF Named, ToolStates
<1> HIDE DEF d
<1>4. MergedTool(d, fragment) \in ToolStates
  BY <1>3, MergedToolType
<1>5. MergedTool(d, fragment).piece = d.piece
  BY <1>3 DEF MergedTool, ToolStates
<1> QED BY <1>2, <1>3, <1>4, <1>5 DEF Taken, c, d

Put(tools, i, tool) == [tools EXCEPT ![i] = tool]

\* A fragment changes its call; the first adds a block behind the others.
LEMMA ToolCallAdded ==
    ASSUME NEW a \in Aggregates, NEW i \in Indices, NEW fragment \in Fragments, NEW n \in Nat
    PROVE  LET t == AddToolCall(a, i, fragment, n)
           IN  /\ t \in Aggregates
               /\ t.signature = a.signature /\ t.legacy = a.legacy /\ t.reason = a.reason
               /\ t.thinking = a.thinking /\ t.text = a.text
               /\ t.attached = a.attached /\ t.refusal = a.refusal
               /\ t.failed <=> (a.failed \/ Clashes(a.tools[i], fragment))
               /\ t.tools = Put(a.tools, i, Taken(a.tools[i], fragment, n))
               /\ t.blocks = IF a.tools[i].piece = 0 THEN Append(a.blocks, CallBlock(i))
                             ELSE a.blocks
<1> DEFINE x == a.tools[i]
           c == Counted(x, n)
           bs == IF x.piece = 0 THEN Append(a.blocks, CallBlock(i)) ELSE a.blocks
           ts == [a.tools EXCEPT ![i] = c]
           p == IF FirstSeen(a, i, fragment)
                THEN [a EXCEPT !.blocks = Append(a.blocks, CallBlock(i))] ELSE a
           u == [p EXCEPT !.tools[i].piece = IF @ = 0 THEN n ELSE @]
           w == [u EXCEPT !.tools[i].id = IF fragment.id = "" THEN @ ELSE fragment.id,
                          !.tools[i].named = @ \/ fragment.named,
                          !.tools[i].args = ArgumentsWith(@, fragment.args)]
           t == AddToolCall(a, i, fragment, n)
<1>1. a.tools \in [Indices -> ToolStates] /\ a.blocks \in Seq(Placements)
  BY DEF Aggregates
<1>2. x \in ToolStates
  BY <1>1
<1>3. bs \in Seq(Placements)
  <2> DEFINE b == CallBlock(i)
  <2>1. b \in Placements
    <3>1. <<>> \in Seq(Nat) /\ "tool" \in Kinds /\ "none" \in Signatures
      BY DEF Kinds, Signatures
    <3> QED BY <3>1, PlacedType DEF CallBlock
  <2>2. bs = IF x.piece = 0 THEN Append(a.blocks, b) ELSE a.blocks
    OBVIOUS
  <2> HIDE DEF b, bs
  <2>3. Append(a.blocks, b) \in Seq(Placements)
    BY <1>1, <2>1
  <2> QED BY <1>1, <2>2, <2>3
<1>4. c \in ToolStates /\ c.id = x.id
  BY <1>2, TakenType
<1>5. p = [a EXCEPT !.blocks = bs]
  BY DEF FirstSeen, Aggregates
<1> HIDE DEF bs
<1>6. p \in Aggregates /\ p.tools = a.tools /\ p.blocks = bs
      /\ p.signature = a.signature /\ p.legacy = a.legacy /\ p.reason = a.reason
      /\ p.thinking = a.thinking /\ p.text = a.text
      /\ p.attached = a.attached /\ p.refusal = a.refusal /\ p.failed = a.failed
  <2> HIDE DEF p
  <2> QED BY <1>3, <1>5 DEF Aggregates
<1>7. u = [p EXCEPT !.tools = ts]
  BY <1>6 DEF Counted
<1>8. ts \in [Indices -> ToolStates] /\ ts[i] = c
  <2> HIDE DEF c
  <2> QED BY <1>1, <1>4
<1>9. t = IF Clashes(c, fragment) THEN [u EXCEPT !.failed = TRUE] ELSE w
  <2>1. p.tools[i] = x
    BY <1>6
  <2>2. u.tools[i] = c
    <3> HIDE DEF ts, u, p
    <3> QED BY <1>6, <1>7, <1>8 DEF Aggregates
  <2>3. t = IF u.tools[i].id \notin {"", fragment.id} /\ fragment.id # ""
            THEN [u EXCEPT !.failed = TRUE] ELSE w
    BY DEF AddToolCall, CallBlock
  <2> HIDE DEF u, t, w
  <2> QED BY <2>2, <2>3 DEF Clashes
<1> HIDE DEF u, p, ts
<1>10. u \in Aggregates /\ u.tools = ts /\ u.blocks = bs
       /\ u.signature = a.signature /\ u.legacy = a.legacy /\ u.reason = a.reason
       /\ u.thinking = a.thinking /\ u.text = a.text
       /\ u.attached = a.attached /\ u.refusal = a.refusal /\ u.failed = a.failed
  BY <1>6, <1>7, <1>8 DEF Aggregates
<1> DEFINE d == Named(c, fragment)
           m == MergedTool(d, fragment)
           us == [ts EXCEPT ![i] = m]
<1>11. m \in ToolStates
  <2>1. d \in ToolStates
    BY <1>2, TakenType
  <2> HIDE DEF d
  <2> QED BY <2>1, MergedToolType
<1>12. w = [u EXCEPT !.tools = us]
  <2>1. u.tools[i] = c
    BY <1>8, <1>10
  <2> DEFINE e == IF fragment.id = "" THEN c.id ELSE fragment.id
             f == c.named \/ fragment.named
             g == ArgumentsWith(c.args, fragment.args)
             v1 == [ts EXCEPT ![i] = [c EXCEPT !.id = e]]
             v2 == [v1 EXCEPT ![i] = [v1[i] EXCEPT !.named = f]]
             v3 == [v2 EXCEPT ![i] = [v2[i] EXCEPT !.args = g]]
  <2>2. us = v3
    <3>1. m = [[[c EXCEPT !.id = e] EXCEPT !.named = f] EXCEPT !.args = g]
      <4>1. d.named = c.named /\ d.args = c.args
        BY <1>4 DEF Named, ToolStates
      <4> QED BY <4>1 DEF MergedTool, Named
    <3> HIDE DEF m, c, e, f, g
    <3> QED BY <1>8, <3>1
  <2>3. w = [u EXCEPT !.tools[i].id = e, !.tools[i].named = f, !.tools[i].args = g]
    BY <1>4, <1>8, <1>10, <2>1 DEF Aggregates, ToolStates
  <2> HIDE DEF e, f, g, w, c
  <2>4. [u EXCEPT !.tools[i].id = e, !.tools[i].named = f, !.tools[i].args = g]
            = [u EXCEPT !.tools = v3]
    BY <1>8, <1>10, <2>1 DEF Aggregates
  <2> QED BY <2>2, <2>3, <2>4
<1>13. w \in Aggregates /\ w.tools = us /\ w.blocks = bs
       /\ w.signature = a.signature /\ w.legacy = a.legacy /\ w.reason = a.reason
       /\ w.thinking = a.thinking /\ w.text = a.text
       /\ w.attached = a.attached /\ w.refusal = a.refusal /\ w.failed = a.failed
  <2>1. us \in [Indices -> ToolStates]
    <3> HIDE DEF m
    <3> QED BY <1>8, <1>11
  <2> HIDE DEF us, w
  <2> QED BY <1>10, <1>12, <2>1 DEF Aggregates
<1>14. us = [a.tools EXCEPT ![i] = m]
  <2> HIDE DEF m, c
  <2> QED BY <1>1 DEF ts
<1>15. Clashes(c, fragment) = Clashes(x, fragment)
  BY <1>4 DEF Clashes
<1> HIDE DEF w, us, t
<1>16. CASE Clashes(x, fragment)
  <2>1. t = [u EXCEPT !.failed = TRUE]
    BY <1>9, <1>15, <1>16
  <2>2. /\ t \in Aggregates
        /\ t.signature = a.signature /\ t.legacy = a.legacy /\ t.reason = a.reason
        /\ t.thinking = a.thinking /\ t.text = a.text
        /\ t.attached = a.attached /\ t.refusal = a.refusal
        /\ t.failed = TRUE /\ t.tools = ts /\ t.blocks = bs
    BY <1>10, <2>1 DEF Aggregates
  <2>3. ts = Put(a.tools, i, Taken(x, fragment, n))
    BY <1>16 DEF ts, Taken, Put
  <2> QED BY <1>16, <2>2, <2>3 DEF t, bs
<1>17. CASE ~Clashes(x, fragment)
  <2>1. t = w
    BY <1>9, <1>15, <1>17
  <2>2. us = Put(a.tools, i, Taken(x, fragment, n))
    BY <1>14, <1>17 DEF Taken, Put
  <2>3. t.failed <=> (a.failed \/ Clashes(x, fragment))
    BY <1>13, <1>17, <2>1 DEF Aggregates
  <2> QED BY <1>13, <2>1, <2>2, <2>3 DEF t, bs
<1> QED BY <1>16, <1>17

\* A legacy call adds no block.
LEMMA FunctionCallAdded ==
    ASSUME NEW a \in Aggregates, NEW fragment \in Fragments, NEW n \in Nat
    PROVE  LET t == AddFunctionCall(a, fragment, n)
           IN  /\ t \in Aggregates
               /\ t.signature = a.signature /\ t.tools = a.tools /\ t.reason = a.reason
               /\ t.thinking = a.thinking /\ t.text = a.text
               /\ t.attached = a.attached /\ t.refusal = a.refusal
               /\ t.failed = a.failed /\ t.blocks = a.blocks
               /\ t.legacy = MergedTool(Counted(a.legacy, n), fragment)
<1> DEFINE x == a.legacy
           p == IF x.piece = 0 THEN n ELSE x.piece
           f == x.named \/ fragment.named
           g == ArgumentsWith(x.args, fragment.args)
           y == [[[x EXCEPT !.piece = p] EXCEPT !.named = f] EXCEPT !.args = g]
           m == MergedTool(Counted(x, n), fragment)
           t == AddFunctionCall(a, fragment, n)
<1>1. x \in ToolStates
  BY DEF Aggregates
<1>2. m \in ToolStates
  <2>1. Counted(x, n) \in ToolStates
    BY <1>1, TakenType
  <2> QED BY <2>1, MergedToolType
<1>3. m = y
  <2>1. Counted(x, n).named = x.named /\ Counted(x, n).args = x.args
    BY <1>1 DEF Counted, ToolStates
  <2> QED BY <2>1 DEF MergedTool, Counted
<1>4. t = [a EXCEPT !.legacy.piece = p, !.legacy.named = f, !.legacy.args = g]
  BY <1>1 DEF AddFunctionCall, Aggregates, ToolStates
<1> HIDE DEF p, f, g, t
<1>5. t = [a EXCEPT !.legacy = y]
  BY <1>1, <1>4 DEF Aggregates
<1> HIDE DEF y, m
<1>6. t = [a EXCEPT !.legacy = m]
  BY <1>3, <1>5
<1>7. /\ t \in Aggregates
      /\ t.signature = a.signature /\ t.tools = a.tools /\ t.reason = a.reason
      /\ t.thinking = a.thinking /\ t.text = a.text
      /\ t.attached = a.attached /\ t.refusal = a.refusal
      /\ t.failed = a.failed /\ t.blocks = a.blocks /\ t.legacy = m
  BY <1>2, <1>6 DEF Aggregates
<1> QED BY <1>7 DEF t, m

Members == {"thinking", "text", "attachment", "refusal", "call", "function_call"}

\* InJsonOrder, of the aggregate a of the members in log.
Sorted(a, log) ==
    /\ \A p, q \in 1..Len(log) : p < q => Rank(log[p]) <= Rank(log[q])
    /\ \A i, j \in CallsOf(a) : i < j => a.tools[i].piece < a.tools[j].piece

Was(member, log) == \E p \in 1..Len(log) : log[p] = member

\* What a member has was sent.
Brought(a, log) ==
    /\ a.text # <<>> => Was("text", log)
    /\ a.attached # <<>> => Was("attachment", log)
    /\ a.refusal # <<>> => Was("refusal", log)
    /\ CallsOf(a) # {} => Was("call", log)
    /\ \A i \in Indices : a.tools[i].piece <= Len(log)

LaidOut(a, sg) == \E o \in Seq(Indices) : Lists(o, a) /\ Ascending(o) /\ Laid(a, sg, o)

Ordered(a, log, sg) ==
    /\ a \in Aggregates /\ log \in Seq(Members) /\ sg \in Signatures
    /\ a.signature = "none"
    /\ a.blocks = <<>> => sg = "none"
    /\ Brought(a, log)
    /\ Sorted(a, log) => LaidOut(a, sg)

\* Which members a rank leaves.
LEMMA Ranks ==
    /\ \A m \in Members : Rank(m) \in 1..5
    /\ \A m \in Members : Rank(m) <= 1 => m = "thinking"
    /\ \A m \in Members : Rank(m) <= 2 => m \in {"thinking", "text"}
    /\ \A m \in Members : Rank(m) <= 3 => m \in {"thinking", "text", "attachment"}
    /\ \A m \in Members : Rank(m) <= 4 => m \in {"thinking", "text", "attachment", "refusal"}
    /\ Rank("thinking") = 1 /\ Rank("text") = 2 /\ Rank("attachment") = 3 /\ Rank("refusal") = 4
BY DEF Rank, Members

\* One more member was sent.
LEMMA LogGrows ==
    ASSUME NEW log \in Seq(Members), NEW m \in Members
    PROVE  /\ Append(log, m) \in Seq(Members) /\ Len(Append(log, m)) = Len(log) + 1
           /\ Append(log, m)[Len(log) + 1] = m
           /\ \A p \in 1..Len(log) : Append(log, m)[p] = log[p]
           /\ \A x : Was(x, log) => Was(x, Append(log, m))
           /\ Was(m, Append(log, m))
<1> DEFINE more == Append(log, m)
           N == Len(log)
<1>1. /\ more \in Seq(Members) /\ Len(more) = N + 1 /\ more[N + 1] = m
      /\ \A p \in 1..N : more[p] = log[p]
      /\ N \in Nat
  OBVIOUS
<1> HIDE DEF more, N
<1>2. Was(m, more)
  <2>1. N + 1 \in 1..Len(more)
    BY <1>1
  <2> QED BY <1>1, <2>1 DEF Was
<1>3. ASSUME NEW x, Was(x, log) PROVE Was(x, more)
  <2>1. PICK p \in 1..N : log[p] = x
    BY <1>3 DEF Was, N
  <2>2. p \in 1..Len(more)
    BY <1>1, <2>1
  <2> QED BY <1>1, <2>1, <2>2 DEF Was
<1> QED BY <1>1, <1>2, <1>3 DEF more, N

\* The last member of an answer in order comes behind all others.
LEMMA SortedBefore ==
    ASSUME NEW a \in Aggregates, NEW t \in Aggregates, t.tools = a.tools,
           NEW log \in Seq(Members), NEW m \in Members, Sorted(t, Append(log, m))
    PROVE  Sorted(a, log) /\ \A x \in Members : Was(x, log) => Rank(x) <= Rank(m)
<1> DEFINE more == Append(log, m)
           N == Len(log)
<1>1. /\ more \in Seq(Members) /\ Len(more) = N + 1 /\ more[N + 1] = m
      /\ \A p \in 1..N : more[p] = log[p]
      /\ N \in Nat
  BY LogGrows
<1> HIDE DEF more
<1>2. \A p, q \in 1..(N + 1) : p < q => Rank(more[p]) <= Rank(more[q])
  BY <1>1 DEF Sorted, more
<1> HIDE DEF N
<1>3. \A p, q \in 1..N : p < q => Rank(log[p]) <= Rank(log[q])
  <2> SUFFICES ASSUME NEW p \in 1..N, NEW q \in 1..N, p < q PROVE Rank(log[p]) <= Rank(log[q])
    OBVIOUS
  <2>1. p \in 1..(N + 1) /\ q \in 1..(N + 1)
    BY <1>1
  <2>2. Rank(more[p]) <= Rank(more[q])
    BY <1>2, <2>1
  <2> QED BY <1>1, <2>2
<1>4. \A i, j \in CallsOf(a) : i < j => a.tools[i].piece < a.tools[j].piece
  BY DEF Sorted, CallsOf
<1>5. ASSUME NEW x \in Members, Was(x, log) PROVE Rank(x) <= Rank(m)
  <2>1. PICK p \in 1..N : log[p] = x
    BY <1>5 DEF Was, N
  <2>2. p \in 1..(N + 1) /\ N + 1 \in 1..(N + 1) /\ p < N + 1
    BY <1>1
  <2>3. Rank(more[p]) <= Rank(more[N + 1])
    BY <1>2, <2>2
  <2> QED BY <1>1, <2>1, <2>3
<1> QED BY <1>3, <1>4, <1>5 DEF Sorted, N

\* Without calls there is reasoning and text.
LEMMA NothingCalled ==
    ASSUME NEW a \in Aggregates, NEW sg, LaidOut(a, sg), CallsOf(a) = {}
    PROVE  a.blocks = Leading(a, sg) \o Middle(a)
<1>1. PICK o \in Seq(Indices) : Lists(o, a) /\ Laid(a, sg, o)
  BY DEF LaidOut
<1>2. Len(o) = 0
  <2> SUFFICES ASSUME Len(o) # 0 PROVE FALSE
    OBVIOUS
  <2>1. 1 \in 1..Len(o) /\ o[1] \in Indices
    OBVIOUS
  <2>2. o[1] \in CallsOf(a)
    BY <1>1, <2>1 DEF Lists
  <2> QED BY <2>2
<1>3. CallBlocks(o) = <<>>
  BY <1>2 DEF CallBlocks
<1> QED BY <1>1, <1>3 DEF Laid

\* One more at the end.
LEMMA Appended ==
    ASSUME NEW S, NEW s \in Seq(S), NEW x \in S
    PROVE  /\ Append(s, x) \in Seq(S) /\ Len(Append(s, x)) = Len(s) + 1
           /\ Append(s, x) # <<>> /\ Append(s, x)[Len(s) + 1] = x
           /\ \A i \in 1..Len(s) : Append(s, x)[i] = s[i]
           /\ s \o <<x>> = Append(s, x)
<1>1. /\ Append(s, x) \in Seq(S) /\ Len(Append(s, x)) = Len(s) + 1
      /\ Append(s, x)[Len(s) + 1] = x
      /\ \A i \in 1..Len(s) : Append(s, x)[i] = s[i]
  OBVIOUS
<1>2. Append(s, x) # <<>>
  <2>1. Len(s) \in Nat /\ Len(<<>>) = 0
    OBVIOUS
  <2> DEFINE a == Append(s, x)
  <2> HIDE DEF a
  <2>2. Len(a) # 0
    BY <1>1, <2>1 DEF a
  <2> QED BY <2>1, <2>2 DEF a
<1>3. s \o <<x>> = Append(s, x)
  OBVIOUS
<1> QED BY <1>1, <1>2, <1>3

\* A piece of a kind that is last, if at all, among the blocks.
LEMMA GrownOptional ==
    ASSUME NEW L \in Seq(Placements), NEW kind \in Kinds, NEW p \in Seq(Nat), NEW n \in Nat,
           NEW sg \in Signatures, NEW present \in BOOLEAN,
           L = <<>> \/ L[Len(L)].kind # kind, ~present => p = <<>> /\ sg = "none"
    PROVE  Grown(L \o Optional(present, Placed(kind, p, sg, 0)), kind, n)
               = L \o <<Placed(kind, Append(p, n), sg, 0)>>
<1> DEFINE b == Placed(kind, p, sg, 0)
           d == Placed(kind, Append(p, n), sg, 0)
           N == Len(L)
<1>1. b \in Placements /\ d \in Placements /\ b.kind = kind /\ Longer(b, n) = d
  <2> DEFINE q == Append(p, n)
  <2>1. q \in Seq(Nat)
    OBVIOUS
  <2>2. 0 \in Indices
    BY ConverterAssumption
  <2> HIDE DEF q
  <2>3. b \in Placements /\ Placed(kind, q, sg, 0) \in Placements
    BY <2>1, <2>2, PlacedType
  <2>4. b.kind = kind /\ b.pieces = p /\ [b EXCEPT !.pieces = q] = Placed(kind, q, sg, 0)
    BY DEF Placed
  <2>5. Longer(b, n) = [b EXCEPT !.pieces = q]
    BY <2>4 DEF Longer, q
  <2> QED BY <2>3, <2>4, <2>5 DEF q
<1>2. N \in Nat /\ \A x \in Placements : L \o <<x>> = Append(L, x)
  OBVIOUS
<1>3. CASE present
  <2> DEFINE M == Append(L, b)
  <2>1. Optional(present, b) = <<b>>
    BY <1>3 DEF Optional
  <2> HIDE DEF b, d
  <2>2. L \o <<b>> = M /\ L \o <<d>> = Append(L, d) /\ M \in Seq(Placements)
    BY <1>1, <1>2
  <2>3. M # <<>> /\ Len(M) = N + 1 /\ M[N + 1] = b
    BY <1>1, Appended
  <2>4. Grown(M, kind, n) = [M EXCEPT ![N + 1] = d]
    <3> HIDE DEF M, N
    <3> QED BY <1>1, <2>3 DEF Grown
  <2>5. [M EXCEPT ![N + 1] = d] = Append(L, d)
    <3> DEFINE K == [M EXCEPT ![N + 1] = d]
    <3>1. Append(L, d) \in Seq(Placements) /\ Len(Append(L, d)) = N + 1
          /\ Append(L, d)[N + 1] = d /\ \A i \in 1..N : Append(L, d)[i] = L[i] /\ M[i] = L[i]
      BY <1>1
    <3> HIDE DEF M, N
    <3>2. K \in Seq(Placements) /\ Len(K) = N + 1 /\ K[N + 1] = d /\ \A i \in 1..N : K[i] = M[i]
      BY <1>1, <1>2, <2>2, <2>3
    <3> HIDE DEF K
    <3>3. \A i \in 1..(N + 1) : K[i] = Append(L, d)[i]
      <4> SUFFICES ASSUME NEW i \in 1..(N + 1) PROVE K[i] = Append(L, d)[i]
        OBVIOUS
      <4>1. i = N + 1 \/ i \in 1..N
        BY <1>2
      <4> QED BY <3>1, <3>2, <4>1
    <3> QED BY <3>1, <3>2, <3>3, SameSeq DEF K
  <2> QED BY <2>1, <2>2, <2>4, <2>5 DEF b, d
<1>4. CASE ~present
  <2>1. Optional(present, b) = <<>>
    BY <1>4 DEF Optional
  <2>2. d = Placed(kind, <<n>>, "none", 0)
    BY <1>4
  <2> HIDE DEF b, d
  <2>3. L \o <<>> = L /\ L \o <<d>> = Append(L, d)
    BY <1>1
  <2>4. Grown(L, kind, n) = Append(L, d)
    BY <2>2 DEF Grown
  <2> QED BY <2>1, <2>3, <2>4 DEF b, d
<1> QED BY <1>3, <1>4

\* Types of the parts that blocks in order consist of.
LEMMA LeadingType ==
    ASSUME NEW a \in Aggregates, NEW sg \in Signatures
    PROVE  /\ Leading(a, sg) \in Seq(Placements) /\ Middle(a) \in Seq(Placements)
           /\ Leading(a, sg) = <<>> \/ Leading(a, sg)[Len(Leading(a, sg))].kind = "thinking"
           /\ Texts(a) \in Seq(Nat)
<1> DEFINE b == Placed("thinking", a.thinking, sg, 0)
           d == Placed("text", Texts(a), "none", 0)
<1>1. /\ a.thinking \in Seq(Nat) /\ a.text \in Seq(Nat) /\ a.attached \in Seq(Nat)
      /\ a.refusal \in Seq(Nat)
  BY DEF Aggregates
<1>2. Texts(a) \in Seq(Nat)
  BY <1>1 DEF Texts
<1>3. b \in Placements /\ d \in Placements
  <2>1. 0 \in Indices
    BY ConverterAssumption
  <2>2. "thinking" \in Kinds /\ "text" \in Kinds /\ "none" \in Signatures
    BY DEF Kinds, Signatures
  <2> QED BY <1>1, <1>2, <2>1, <2>2, PlacedType
<1>4. b.kind = "thinking"
  BY DEF Placed
<1>5. /\ Leading(a, sg) = Optional(a.thinking # <<>> \/ sg # "none", b)
      /\ Middle(a) = Optional(Texts(a) # <<>>, d)
  BY DEF Leading, Middle
<1> HIDE DEF b, d
<1> QED BY <1>2, <1>3, <1>4, <1>5 DEF Optional

\* Nothing has been said or called yet.
LEMMA OnlyThought ==
    ASSUME NEW a, NEW log, NEW sg, Ordered(a, log, sg), Sorted(a, log),
           \A x \in Members : Was(x, log) => Rank(x) <= 1
    PROVE  a.blocks = Leading(a, sg) /\ Middle(a) = <<>> /\ CallsOf(a) = {}
           /\ a.text = <<>> /\ a.attached = <<>> /\ a.refusal = <<>>
<1>1. a.text = <<>> /\ a.attached = <<>> /\ a.refusal = <<>> /\ CallsOf(a) = {}
  <2>1. ~Was("text", log) /\ ~Was("attachment", log) /\ ~Was("refusal", log) /\ ~Was("call", log)
    <3>1. "text" \in Members /\ "attachment" \in Members /\ "refusal" \in Members
          /\ "call" \in Members
      BY DEF Members
    <3>2. Rank("call") = 5
      BY DEF Rank
    <3> QED BY <3>1, <3>2, Ranks
  <2> QED BY <2>1 DEF Ordered, Brought
<1>2. Middle(a) = <<>>
  <2>1. Texts(a) = <<>>
    BY <1>1 DEF Texts
  <2> QED BY <2>1 DEF Middle, Optional
<1>3. a.blocks = Leading(a, sg) \o <<>>
  BY <1>1, <1>2, NothingCalled DEF Ordered
<1>4. Leading(a, sg) \o <<>> = Leading(a, sg)
  <2>1. Leading(a, sg) \in Seq(Placements)
    BY LeadingType DEF Ordered
  <2> QED BY <2>1
<1> QED BY <1>1, <1>2, <1>3, <1>4

\* Reasoning and text are laid out, without calls.
LEMMA NoCalls ==
    ASSUME NEW t \in Aggregates, NEW sg, CallsOf(t) = {}, t.blocks = Leading(t, sg) \o Middle(t)
    PROVE  LaidOut(t, sg)
<1>1. <<>> \in Seq(Indices)
  OBVIOUS
<1>2. Lists(<<>>, t) /\ Ascending(<<>>)
  BY DEF Lists, Ascending
<1>3. CallBlocks(<<>>) = <<>>
  BY DEF CallBlocks
<1>4. Laid(t, sg, <<>>)
  BY <1>3 DEF Laid
<1> QED BY <1>1, <1>2, <1>4 DEF LaidOut

\* Think keeps the order.
LEMMA ThinkOrdered ==
    ASSUME NEW a, NEW log, NEW sg, Ordered(a, log, sg)
    PROVE  Ordered(AddThinking(a, Len(log) + 1), Append(log, "thinking"), sg)
<1> DEFINE n == Len(log) + 1
           t == AddThinking(a, n)
           more == Append(log, "thinking")
<1>1. a \in Aggregates /\ log \in Seq(Members) /\ sg \in Signatures /\ n \in Nat /\ Len(log) \in Nat
  BY DEF Ordered
<1>2. /\ t \in Aggregates /\ Keeps(t, a) /\ t.blocks = Grown(a.blocks, "thinking", n)
      /\ t.thinking = Append(a.thinking, n) /\ t.text = a.text
      /\ t.attached = a.attached /\ t.refusal = a.refusal
  BY <1>1, PiecesAdded
<1>3. "thinking" \in Members /\ "thinking" \in Kinds
  BY DEF Members, Kinds
<1>4. t.blocks # <<>>
  <2>1. a.blocks \in Seq(Placements)
    BY <1>1 DEF Aggregates
  <2> QED BY <1>1, <1>2, <1>3, <2>1, GrownType
<1>5. Brought(t, more) /\ more \in Seq(Members)
  <2>1. /\ more \in Seq(Members) /\ Len(more) = Len(log) + 1
        /\ \A x : Was(x, log) => Was(x, more)
    BY <1>1, <1>3, LogGrows
  <2>2. \A i \in Indices : t.tools[i].piece <= Len(more)
    <3>1. \A i \in Indices : a.tools[i].piece \in Nat /\ a.tools[i].piece <= Len(log)
      BY <1>1 DEF Ordered, Brought, Aggregates, ToolStates
    <3> HIDE DEF t, more
    <3> QED BY <1>1, <1>2, <2>1, <3>1 DEF Keeps
  <2>3. CallsOf(t) = CallsOf(a)
    BY <1>2 DEF CallsOf, Keeps
  <2> HIDE DEF t, more
  <2> QED BY <1>2, <2>1, <2>2, <2>3 DEF Ordered, Brought
<1> HIDE DEF t
<1>6. ASSUME Sorted(t, more) PROVE LaidOut(t, sg)
  <2>1. Sorted(a, log) /\ \A x \in Members : Was(x, log) => Rank(x) <= 1
    <3>1. t.tools = a.tools
      BY <1>2 DEF Keeps
    <3> QED BY <1>1, <1>2, <1>3, <1>6, <3>1, SortedBefore, Ranks
  <2>2. /\ a.blocks = Leading(a, sg) /\ Middle(a) = <<>> /\ CallsOf(a) = {}
        /\ a.text = <<>> /\ a.attached = <<>> /\ a.refusal = <<>>
    BY <2>1, OnlyThought
  <2>3. Middle(t) = <<>> /\ CallsOf(t) = {}
    BY <1>2, <2>2 DEF Middle, Texts, CallsOf, Keeps
  <2> DEFINE present == a.thinking # <<>> \/ sg # "none"
             d == Placed("thinking", Append(a.thinking, n), sg, 0)
             opt == Optional(present, Placed("thinking", a.thinking, sg, 0))
  <2>4. Leading(t, sg) = <<d>>
    <3>1. Append(a.thinking, n) # <<>>
      <4> DEFINE th == a.thinking
      <4>1. th \in Seq(Nat)
        BY <1>1 DEF Aggregates
      <4> HIDE DEF th, n
      <4>2. Append(th, n) # <<>>
        BY <1>1, <4>1, Appended
      <4> QED BY <4>2 DEF th
    <3> QED BY <1>2, <3>1 DEF Leading, Optional
  <2>5. Grown(<<>> \o opt, "thinking", n) = <<>> \o <<d>>
    <3>1. a.thinking \in Seq(Nat)
      BY <1>1 DEF Aggregates
    <3>3. <<>> \in Seq(Placements)
      OBVIOUS
    <3>2. present \in BOOLEAN /\ (~present => a.thinking = <<>> /\ sg = "none")
      OBVIOUS
    <3> HIDE DEF n
    <3> QED BY <1>1, <1>3, <3>1, <3>2, <3>3, GrownOptional
  <2>6. <<>> \o opt = opt /\ <<>> \o <<d>> = <<d>> \o <<>> /\ <<d>> \o <<>> = <<d>>
    <3>1. opt \in Seq(Placements)
      BY <1>1, LeadingType DEF Leading
    <3> HIDE DEF opt, d
    <3> QED BY <3>1
  <2>7. opt = a.blocks
    BY <2>2 DEF Leading
  <2> HIDE DEF opt, d
  <2>8. t.blocks = Leading(t, sg) \o Middle(t)
    BY <1>2, <2>3, <2>4, <2>5, <2>6, <2>7
  <2> QED BY <1>2, <2>3, <2>8, NoCalls
<1> QED BY <1>1, <1>2, <1>4, <1>5, <1>6 DEF Ordered, Keeps, t

\* An event keeps the order if it does so behind members of its rank and lower.
LEMMA SentOrdered ==
    ASSUME NEW a, NEW log, NEW sg, Ordered(a, log, sg), NEW m \in Members,
           NEW t \in Aggregates, Keeps(t, a), t.blocks # <<>>,
           t.text # <<>> => a.text # <<>> \/ m = "text",
           t.attached # <<>> => a.attached # <<>> \/ m = "attachment",
           t.refusal # <<>> => a.refusal # <<>> \/ m = "refusal",
           Sorted(a, log) /\ (\A x \in Members : Was(x, log) => Rank(x) <= Rank(m))
               => LaidOut(t, sg)
    PROVE  Ordered(t, Append(log, m), sg)
<1> DEFINE more == Append(log, m)
<1>1. a \in Aggregates /\ log \in Seq(Members) /\ sg \in Signatures /\ Len(log) \in Nat
  BY DEF Ordered
<1>2. /\ more \in Seq(Members) /\ Len(more) = Len(log) + 1
      /\ \A x : Was(x, log) => Was(x, more)
      /\ Was(m, more)
  BY <1>1, LogGrows
<1> HIDE DEF more
<1>3. Brought(t, more)
  <2>1. \A i \in Indices : t.tools[i].piece <= Len(more)
    <3>1. \A i \in Indices : a.tools[i].piece \in Nat /\ a.tools[i].piece <= Len(log)
      BY <1>1 DEF Ordered, Brought, Aggregates, ToolStates
    <3> QED BY <1>1, <1>2, <3>1 DEF Keeps
  <2>2. CallsOf(t) = CallsOf(a)
    BY DEF CallsOf, Keeps
  <2> QED BY <1>2, <2>1, <2>2 DEF Ordered, Brought
<1>4. ASSUME Sorted(t, more) PROVE LaidOut(t, sg)
  <2>1. t.tools = a.tools
    BY DEF Keeps
  <2> QED BY <1>1, <1>4, <2>1, SortedBefore DEF more
<1> QED BY <1>1, <1>2, <1>3, <1>4 DEF Ordered, Keeps, more

\* Behind members of low rank, those of higher rank are empty.
LEMMA NotYet ==
    ASSUME NEW a, NEW log, NEW sg, Ordered(a, log, sg), NEW r \in 1..4,
           \A x \in Members : Was(x, log) => Rank(x) <= r
    PROVE  /\ CallsOf(a) = {}
           /\ r <= 3 => a.refusal = <<>>
           /\ r <= 2 => a.attached = <<>>
<1>1. "attachment" \in Members /\ "refusal" \in Members /\ "call" \in Members
  BY DEF Members
<1>2. Rank("call") = 5
  BY DEF Rank
<1>3. ~Was("call", log) /\ (r <= 3 => ~Was("refusal", log)) /\ (r <= 2 => ~Was("attachment", log))
  BY <1>1, <1>2, Ranks
<1> QED BY <1>3 DEF Ordered, Brought

\* A piece of text keeps reasoning and text laid out.
LEMMA TextLaid ==
    ASSUME NEW a \in Aggregates, NEW sg \in Signatures, NEW n \in Nat, LaidOut(a, sg), CallsOf(a) = {},
           NEW t \in Aggregates, Keeps(t, a), t.thinking = a.thinking,
           t.blocks = Grown(a.blocks, "text", n), Texts(t) = Append(Texts(a), n)
    PROVE  LaidOut(t, sg)
<1> DEFINE L == Leading(a, sg)
           p == Texts(a)
           q == Append(p, n)
<1>1. /\ L \in Seq(Placements) /\ p \in Seq(Nat)
      /\ L = <<>> \/ L[Len(L)].kind = "thinking"
  BY LeadingType
<1>2. a.blocks = L \o Optional(p # <<>>, Placed("text", p, "none", 0))
  BY NothingCalled DEF Middle
<1>3. Leading(t, sg) = L
  BY DEF Leading
<1>4. q # <<>>
  <2>1. p \in Seq(Nat)
    BY <1>1
  <2> HIDE DEF p
  <2>2. \A s \in Seq(Nat) : Append(s, n) # <<>>
    BY Appended
  <2> QED BY <2>1, <2>2
<1>5. Middle(t) = <<Placed("text", q, "none", 0)>>
  <2> HIDE DEF q
  <2>1. Texts(t) = q
    BY DEF q
  <2> QED BY <1>4, <2>1 DEF Middle, Optional
<1>6. CallsOf(t) = {}
  BY DEF CallsOf, Keeps
<1> HIDE DEF L, p
<1>7. t.blocks = L \o <<Placed("text", q, "none", 0)>>
  <2>1. "text" \in Kinds /\ "none" \in Signatures
    BY DEF Kinds, Signatures
  <2>2. L = <<>> \/ L[Len(L)].kind # "text"
    BY <1>1
  <2>3. (p # <<>>) \in BOOLEAN
    OBVIOUS
  <2>4. Grown(L \o Optional(p # <<>>, Placed("text", p, "none", 0)), "text", n)
            = L \o <<Placed("text", Append(p, n), "none", 0)>>
    BY <1>1, <2>1, <2>2, <2>3, GrownOptional
  <2> QED BY <1>2, <2>4
<1> HIDE DEF q
<1>8. t.blocks = Leading(t, sg) \o Middle(t)
  BY <1>3, <1>5, <1>7
<1> QED BY <1>6, <1>8, NoCalls

\* Say, Attach and Decline keep the order.
LEMMA TextOrdered ==
    ASSUME NEW a, NEW log, NEW sg, Ordered(a, log, sg)
    PROVE  /\ Ordered(AddText(a, Len(log) + 1), Append(log, "text"), sg)
           /\ Ordered(AddAttachment(a, Len(log) + 1), Append(log, "attachment"), sg)
           /\ Ordered(AddRefusal(a, Len(log) + 1), Append(log, "refusal"), sg)
<1> DEFINE n == Len(log) + 1
           x == a.text
           y == a.attached
           z == a.refusal
<1>1. a \in Aggregates /\ log \in Seq(Members) /\ sg \in Signatures /\ n \in Nat
  BY DEF Ordered
<1>2. x \in Seq(Nat) /\ y \in Seq(Nat) /\ z \in Seq(Nat) /\ a.blocks \in Seq(Placements)
  BY <1>1 DEF Aggregates
<1>3. "text" \in Kinds /\ "text" \in Members /\ "attachment" \in Members /\ "refusal" \in Members
  BY DEF Kinds, Members
<1>4. Grown(a.blocks, "text", n) # <<>>
  BY <1>1, <1>2, <1>3, GrownType
<1>5. Texts(a) = (x \o y) \o z
  BY DEF Texts
<1>6. \A p \in Seq(Nat) : p \o <<>> = p /\ <<>> \o p = p
  OBVIOUS
<1>7. \A p \in Seq(Nat), q \in Seq(Nat) : p \o Append(q, n) = Append(p \o q, n)
  <2> HIDE DEF n
  <2> SUFFICES ASSUME NEW p \in Seq(Nat), NEW q \in Seq(Nat)
               PROVE  p \o Append(q, n) = Append(p \o q, n)
    OBVIOUS
  <2> QED BY <1>1
<1>8. x \o y \in Seq(Nat) /\ Append(x, n) \in Seq(Nat)
  <2> HIDE DEF x, y, n
  <2> QED BY <1>1, <1>2
<1> HIDE DEF n, x, y, z
<1>9. Ordered(AddText(a, n), Append(log, "text"), sg)
  <2> DEFINE t == AddText(a, n)
  <2>1. /\ t \in Aggregates /\ Keeps(t, a) /\ t.blocks = Grown(a.blocks, "text", n)
        /\ t.thinking = a.thinking /\ t.text = Append(x, n)
        /\ t.attached = y /\ t.refusal = z
    BY <1>1, PiecesAdded DEF x, y, z
  <2> HIDE DEF t
  <2>2. ASSUME Sorted(a, log), \A m \in Members : Was(m, log) => Rank(m) <= Rank("text")
        PROVE  LaidOut(t, sg)
    <3>1. CallsOf(a) = {} /\ y = <<>> /\ z = <<>>
      <4>1. 2 \in 1..4 /\ \A m \in Members : Was(m, log) => Rank(m) <= 2
        BY <2>2, Ranks
      <4> QED BY <4>1, NotYet DEF y, z
    <3>2. Texts(t) = Append(Texts(a), n)
      <4>1. Texts(t) = (Append(x, n) \o y) \o z
        BY <2>1 DEF Texts
      <4> QED BY <1>2, <1>5, <1>6, <1>8, <3>1, <4>1
    <3> QED BY <1>1, <2>1, <2>2, <3>1, <3>2, TextLaid DEF Ordered
  <2> QED BY <1>3, <1>4, <2>1, <2>2, SentOrdered DEF t, x, y, z
<1>10. Ordered(AddAttachment(a, n), Append(log, "attachment"), sg)
  <2> DEFINE t == AddAttachment(a, n)
  <2>1. /\ t \in Aggregates /\ Keeps(t, a) /\ t.blocks = Grown(a.blocks, "text", n)
        /\ t.thinking = a.thinking /\ t.text = x
        /\ t.attached = Append(y, n) /\ t.refusal = z
    BY <1>1, PiecesAdded DEF x, y, z
  <2> HIDE DEF t
  <2>2. ASSUME Sorted(a, log), \A m \in Members : Was(m, log) => Rank(m) <= Rank("attachment")
        PROVE  LaidOut(t, sg)
    <3>1. CallsOf(a) = {} /\ z = <<>>
      <4>1. 3 \in 1..4 /\ \A m \in Members : Was(m, log) => Rank(m) <= 3
        BY <2>2, Ranks
      <4> QED BY <4>1, NotYet DEF z
    <3>2. Texts(t) = Append(Texts(a), n)
      <4>1. Texts(t) = (x \o Append(y, n)) \o z
        BY <2>1 DEF Texts
      <4>2. x \o Append(y, n) = Append(x \o y, n)
        BY <1>2, <1>7
      <4>3. Append(x \o y, n) \in Seq(Nat)
        BY <1>1, <1>8
      <4> QED BY <1>5, <1>6, <1>8, <3>1, <4>1, <4>2, <4>3
    <3> QED BY <1>1, <2>1, <2>2, <3>1, <3>2, TextLaid DEF Ordered
  <2> QED BY <1>3, <1>4, <2>1, <2>2, SentOrdered DEF t, x, y, z
<1>11. Ordered(AddRefusal(a, n), Append(log, "refusal"), sg)
  <2> DEFINE t == AddRefusal(a, n)
  <2>1. /\ t \in Aggregates /\ Keeps(t, a) /\ t.blocks = Grown(a.blocks, "text", n)
        /\ t.thinking = a.thinking /\ t.text = x
        /\ t.attached = y /\ t.refusal = Append(z, n)
    BY <1>1, PiecesAdded DEF x, y, z
  <2> HIDE DEF t
  <2>2. ASSUME Sorted(a, log), \A m \in Members : Was(m, log) => Rank(m) <= Rank("refusal")
        PROVE  LaidOut(t, sg)
    <3>1. CallsOf(a) = {}
      <4>1. 4 \in 1..4 /\ \A m \in Members : Was(m, log) => Rank(m) <= 4
        BY <2>2, Ranks
      <4> QED BY <4>1, NotYet
    <3>2. Texts(t) = Append(Texts(a), n)
      <4>1. Texts(t) = (x \o y) \o Append(z, n)
        BY <2>1 DEF Texts
      <4> QED BY <1>2, <1>5, <1>7, <1>8, <4>1
    <3> QED BY <1>1, <2>1, <2>2, <3>1, <3>2, TextLaid DEF Ordered
  <2> QED BY <1>3, <1>4, <2>1, <2>2, SentOrdered DEF t, x, y, z
<1> QED BY <1>9, <1>10, <1>11 DEF n

\* The layout depends on the members and the blocks alone.
LEMMA LaidOutKept ==
    ASSUME NEW a \in Aggregates, NEW sg, LaidOut(a, sg), NEW t \in Aggregates, t.tools = a.tools,
           t.thinking = a.thinking, t.text = a.text, t.attached = a.attached,
           t.refusal = a.refusal, t.blocks = a.blocks
    PROVE  LaidOut(t, sg)
<1>1. PICK o \in Seq(Indices) : Lists(o, a) /\ Ascending(o) /\ Laid(a, sg, o)
  BY DEF LaidOut
<1>2. CallsOf(t) = CallsOf(a)
  BY DEF CallsOf
<1>3. Leading(t, sg) = Leading(a, sg) /\ Middle(t) = Middle(a)
  BY DEF Leading, Middle, Texts
<1>4. Lists(o, t) /\ Laid(t, sg, o)
  BY <1>1, <1>2, <1>3 DEF Lists, Laid
<1> QED BY <1>1, <1>4 DEF LaidOut

\* Whatever changes but the members and their places.
LEMMA OrderedKept ==
    ASSUME NEW a, NEW log, NEW sg, Ordered(a, log, sg), NEW t \in Aggregates, t.tools = a.tools,
           t.thinking = a.thinking, t.text = a.text, t.attached = a.attached,
           t.refusal = a.refusal, t.blocks = a.blocks, t.signature = a.signature
    PROVE  /\ Ordered(t, log, sg)
           /\ \A m \in Members : Ordered(t, Append(log, m), sg)
<1>1. a \in Aggregates /\ log \in Seq(Members) /\ Len(log) \in Nat
  BY DEF Ordered
<1>2. CallsOf(t) = CallsOf(a)
  BY DEF CallsOf
<1>3. Sorted(a, log) => LaidOut(t, sg)
  BY <1>1, LaidOutKept DEF Ordered
<1>4. Ordered(t, log, sg)
  <2>1. Sorted(t, log) => Sorted(a, log)
    BY <1>2 DEF Sorted
  <2> QED BY <1>2, <1>3, <2>1 DEF Ordered, Brought
<1>5. ASSUME NEW m \in Members PROVE Ordered(t, Append(log, m), sg)
  <2> DEFINE more == Append(log, m)
  <2>1. /\ more \in Seq(Members) /\ Len(more) = Len(log) + 1
        /\ \A x : Was(x, log) => Was(x, more)
    BY <1>1, LogGrows
  <2>2. Sorted(t, more) => Sorted(a, log)
    BY <1>1, SortedBefore
  <2> HIDE DEF more
  <2>3. \A i \in Indices : t.tools[i].piece <= Len(more)
    <3>1. \A i \in Indices : a.tools[i].piece \in Nat /\ a.tools[i].piece <= Len(log)
      BY <1>1 DEF Ordered, Brought, Aggregates, ToolStates
    <3> QED BY <1>1, <2>1, <3>1
  <2>4. Brought(t, more)
    BY <1>2, <2>1, <2>3 DEF Ordered, Brought
  <2> QED BY <1>3, <2>1, <2>2, <2>4 DEF Ordered, more
<1> QED BY <1>4, <1>5

\* Sign keeps the order: it follows reasoning or comes first.
LEMMA SignOrdered ==
    ASSUME NEW a, NEW log, NEW sg, Ordered(a, log, sg), log # <<>> => Last(log) = "thinking",
           NEW new \in Signatures \ {"none"}
    PROVE  Ordered(AddSignature(a, new), log, new)
<1> DEFINE t == AddSignature(a, new)
           bs == a.blocks
           N == Len(log)
<1>1. a \in Aggregates /\ log \in Seq(Members) /\ sg \in Signatures /\ bs \in Seq(Placements)
      /\ N \in Nat
  <2>1. a \in Aggregates /\ log \in Seq(Members) /\ sg \in Signatures
    BY DEF Ordered
  <2>2. bs \in Seq(Placements)
    BY <2>1 DEF Aggregates
  <2> QED BY <2>1, <2>2
<1>2. /\ t \in Aggregates /\ Keeps(t, a) /\ t.blocks # <<>>
      /\ t.thinking = a.thinking /\ t.text = a.text
      /\ t.attached = a.attached /\ t.refusal = a.refusal
      /\ bs = <<>> => t.blocks = <<Placed("thinking", <<>>, new, 0)>>
      /\ bs # <<>> /\ bs[Len(bs)].kind = "thinking" =>
             t.blocks = [bs EXCEPT ![Len(bs)] = [bs[Len(bs)] EXCEPT !.signature = new]]
  BY <1>1, SignatureAdded
<1> HIDE DEF t
<1>3. CallsOf(t) = CallsOf(a) /\ (Sorted(t, log) => Sorted(a, log))
  BY <1>2 DEF CallsOf, Keeps, Sorted
<1>4. Brought(t, log)
  BY <1>2, <1>3 DEF Ordered, Brought, Keeps
<1>5. ASSUME Sorted(a, log) PROVE LaidOut(t, new)
  <2>1. \A x \in Members : Was(x, log) => Rank(x) <= 1
    <3> SUFFICES ASSUME NEW x \in Members, Was(x, log) PROVE Rank(x) <= 1
      OBVIOUS
    <3>1. PICK p \in 1..N : log[p] = x
      BY DEF Was
    <3>2. log # <<>> /\ log[N] = "thinking" /\ N \in 1..N
      BY <1>1, <3>1 DEF Last
    <3>3. p = N \/ p < N
      BY <1>1, <3>1
    <3>4. p < N => Rank(log[p]) <= Rank(log[N])
      BY <1>5, <3>1, <3>2 DEF Sorted
    <3> QED BY <3>1, <3>2, <3>3, <3>4, Ranks
  <2>2. /\ bs = Leading(a, sg) /\ Middle(a) = <<>> /\ CallsOf(a) = {}
        /\ a.text = <<>> /\ a.attached = <<>> /\ a.refusal = <<>>
    BY <1>5, <2>1, OnlyThought
  <2>3. Middle(t) = <<>> /\ CallsOf(t) = {}
    BY <1>2, <1>3, <2>2 DEF Middle, Texts
  <2> DEFINE b == Placed("thinking", a.thinking, sg, 0)
             d == Placed("thinking", a.thinking, new, 0)
  <2>4. Leading(t, new) = <<d>> /\ (bs = <<>> => a.thinking = <<>>) /\ (bs # <<>> => bs = <<b>>)
    BY <1>2, <2>2 DEF Leading, Optional
  <2>5. b.kind = "thinking" /\ [b EXCEPT !.signature = new] = d
    BY DEF Placed
  <2>6. bs = <<>> => t.blocks = <<d>>
    BY <1>2, <2>4
  <2> HIDE DEF b, d, bs
  <2>7. bs # <<>> => t.blocks = <<d>>
    <3> SUFFICES ASSUME bs # <<>> PROVE t.blocks = <<d>>
      OBVIOUS
    <3>1. bs = <<b>>
      BY <2>4
    <3>2. Len(bs) = 1 /\ bs[1] = b
      BY <3>1
    <3>3. t.blocks = [bs EXCEPT ![1] = d]
      BY <1>2, <2>5, <3>2
    <3>4. [<<b>> EXCEPT ![1] = d] = <<d>>
      OBVIOUS
    <3> QED BY <3>1, <3>3, <3>4
  <2>8. <<d>> \o <<>> = <<d>>
    OBVIOUS
  <2>9. t.blocks = Leading(t, new) \o Middle(t)
    BY <2>3, <2>4, <2>6, <2>7, <2>8
  <2> QED BY <1>2, <2>3, <2>9, NoCalls
<1> QED BY <1>1, <1>2, <1>3, <1>4, <1>5 DEF Ordered, Keeps, t

\* Call keeps the order: a new call ascends, or the answer is not in order.
LEMMA CallOrdered ==
    ASSUME NEW a, NEW log, NEW sg, Ordered(a, log, sg), NEW i \in Indices, NEW fragment \in Fragments
    PROVE  Ordered(AddToolCall(a, i, fragment, Len(log) + 1),
                   IF i \in CallsOf(a) THEN log ELSE Append(log, "call"), sg)
<1> DEFINE N == Len(log)
           n == N + 1
           t == AddToolCall(a, i, fragment, n)
           k == Taken(a.tools[i], fragment, n)
           more == Append(log, "call")
<1>1. a \in Aggregates /\ log \in Seq(Members) /\ sg \in Signatures /\ N \in Nat /\ n \in Nat
      /\ n # 0 /\ "call" \in Members
  BY DEF Ordered, Members
<1>2. a.tools \in [Indices -> ToolStates] /\ \A j \in Indices : a.tools[j].piece \in Nat
  BY <1>1 DEF Aggregates, ToolStates
<1>3. /\ t \in Aggregates
      /\ t.signature = a.signature /\ t.thinking = a.thinking /\ t.text = a.text
      /\ t.attached = a.attached /\ t.refusal = a.refusal
      /\ t.tools = Put(a.tools, i, k)
      /\ t.blocks = IF a.tools[i].piece = 0 THEN Append(a.blocks, CallBlock(i)) ELSE a.blocks
  BY <1>1, ToolCallAdded
<1>4. k.piece = IF a.tools[i].piece = 0 THEN n ELSE a.tools[i].piece
  BY <1>1, <1>2, TakenType
<1> HIDE DEF t, k, n
<1>5. \A j \in Indices : t.tools[j].piece = IF j = i /\ a.tools[i].piece = 0 THEN n
                                            ELSE a.tools[j].piece
  BY <1>2, <1>3, <1>4 DEF Put
<1>6. i \in CallsOf(a) <=> a.tools[i].piece # 0
  BY DEF CallsOf
<1>7. ASSUME i \in CallsOf(a) PROVE Ordered(t, log, sg)
  <2>1. t.blocks = a.blocks /\ \A j \in Indices : t.tools[j].piece = a.tools[j].piece
    BY <1>3, <1>5, <1>6, <1>7
  <2>2. CallsOf(t) = CallsOf(a)
    BY <2>1 DEF CallsOf
  <2>3. Sorted(t, log) => Sorted(a, log)
    BY <2>1, <2>2 DEF Sorted, CallsOf
  <2>4. ASSUME LaidOut(a, sg) PROVE LaidOut(t, sg)
    <3>1. PICK o \in Seq(Indices) : Lists(o, a) /\ Ascending(o) /\ Laid(a, sg, o)
      BY <2>4 DEF LaidOut
    <3>2. Leading(t, sg) = Leading(a, sg) /\ Middle(t) = Middle(a)
      BY <1>3 DEF Leading, Middle, Texts
    <3>3. Lists(o, t) /\ Laid(t, sg, o)
      BY <2>1, <2>2, <3>1, <3>2 DEF Lists, Laid
    <3> QED BY <3>1, <3>3 DEF LaidOut
  <2>5. Brought(t, log)
    BY <1>3, <2>1, <2>2 DEF Ordered, Brought
  <2> QED BY <1>1, <1>3, <2>1, <2>3, <2>4, <2>5 DEF Ordered
<1>8. ASSUME i \notin CallsOf(a) PROVE Ordered(t, more, sg)
  <2>1. /\ more \in Seq(Members) /\ Len(more) = n
        /\ \A x : Was(x, log) => Was(x, more)
        /\ Was("call", more)
    BY <1>1, LogGrows DEF n
  <2>2. t.blocks = Append(a.blocks, CallBlock(i)) /\ t.tools[i].piece = n
        /\ \A j \in Indices : j # i => t.tools[j].piece = a.tools[j].piece
    BY <1>3, <1>5, <1>6, <1>8
  <2>3. CallsOf(t) = CallsOf(a) \cup {i}
    BY <1>1, <2>2 DEF CallsOf
  <2>4. \A j \in Indices : a.tools[j].piece <= N
    BY DEF Ordered, Brought
  <2> HIDE DEF N
  <2>5. Brought(t, more)
    <3>1. \A j \in Indices : t.tools[j].piece <= Len(more)
      BY <1>1, <1>2, <1>5, <2>1, <2>4 DEF n
    <3> HIDE DEF more
    <3> QED BY <1>3, <2>1, <3>1 DEF Ordered, Brought
  <2>6. ASSUME Sorted(t, more)
        PROVE  Sorted(a, log) /\ \A j \in CallsOf(a) : j < i
    <3>1. \A p, q \in 1..n : p < q => Rank(more[p]) <= Rank(more[q])
      <4> HIDE DEF more
      <4> QED BY <2>1, <2>6 DEF Sorted
    <3>2. \A p \in 1..N : more[p] = log[p] /\ p \in 1..n
      BY <1>1, LogGrows DEF N, n
    <3>3. \A p, q \in 1..N : p < q => Rank(log[p]) <= Rank(log[q])
      <4> HIDE DEF more
      <4> SUFFICES ASSUME NEW p \in 1..N, NEW q \in 1..N, p < q
                   PROVE  Rank(log[p]) <= Rank(log[q])
        OBVIOUS
      <4>1. p \in 1..n /\ q \in 1..n /\ more[p] = log[p] /\ more[q] = log[q]
        BY <3>2
      <4>2. Rank(more[p]) <= Rank(more[q])
        BY <3>1, <4>1
      <4> QED BY <4>1, <4>2
    <3>4. \A j, l \in CallsOf(t) : j < l => t.tools[j].piece < t.tools[l].piece
      BY <2>6 DEF Sorted
    <3>5. \A j, l \in CallsOf(a) : j < l => a.tools[j].piece < a.tools[l].piece
      <4> SUFFICES ASSUME NEW j \in CallsOf(a), NEW l \in CallsOf(a), j < l
                   PROVE  a.tools[j].piece < a.tools[l].piece
        OBVIOUS
      <4>1. j \in CallsOf(t) /\ l \in CallsOf(t) /\ j # i /\ l # i /\ j \in Indices /\ l \in Indices
        BY <1>8, <2>3 DEF CallsOf
      <4>2. t.tools[j].piece < t.tools[l].piece
        BY <3>4, <4>1
      <4> QED BY <2>2, <4>1, <4>2
    <3>6. \A j \in CallsOf(a) : j < i
      <4> SUFFICES ASSUME NEW j \in CallsOf(a), ~(j < i) PROVE FALSE
        OBVIOUS
      <4>1. j \in Indices /\ j # i /\ j \in Nat /\ i \in Nat
        BY <1>8, ConverterAssumption DEF CallsOf
      <4>2. t.tools[i].piece < t.tools[j].piece
        BY <2>3, <3>4, <4>1
      <4>3. n < a.tools[j].piece
        BY <2>2, <4>1, <4>2
      <4> QED BY <1>1, <1>2, <2>4, <4>1, <4>3 DEF n
    <3> QED BY <3>3, <3>5, <3>6 DEF Sorted, N
  <2>7. ASSUME Sorted(t, more) PROVE LaidOut(t, sg)
    <3>1. PICK o \in Seq(Indices) : Lists(o, a) /\ Ascending(o) /\ Laid(a, sg, o)
      BY <2>6, <2>7 DEF Ordered, LaidOut
    <3> DEFINE u == Append(o, i)
               K == Len(o)
    <3>2. u \in Seq(Indices) /\ Len(u) = K + 1 /\ u[K + 1] = i /\ \A j \in 1..K : u[j] = o[j]
          /\ K \in Nat
      OBVIOUS
    <3>9. K \in Nat
      OBVIOUS
    <3>3. \A j \in 1..K : o[j] \in CallsOf(a)
      <4> SUFFICES ASSUME NEW j \in 1..K PROVE o[j] \in CallsOf(a)
        OBVIOUS
      <4>1. o[j] \in Indices
        OBVIOUS
      <4> QED BY <3>1, <4>1 DEF Lists
    <3> HIDE DEF u
    <3>4. Lists(u, t)
      <4> SUFFICES ASSUME NEW j \in Indices
                   PROVE  j \in CallsOf(t) <=> \E m \in 1..Len(u) : u[m] = j
        BY <3>2 DEF Lists
      <4>1. j \in CallsOf(a) <=> \E m \in 1..K : o[m] = j
        BY <3>1 DEF Lists
      <4> HIDE DEF K
      <4>2. \A m : m \in 1..(K + 1) <=> m \in 1..K \/ m = K + 1
        BY <3>9
      <4>3. (\E m \in 1..(K + 1) : u[m] = j) <=> (\E m \in 1..K : o[m] = j) \/ j = i
        BY <3>2, <4>2
      <4> QED BY <2>3, <3>2, <4>1, <4>3
    <3>5. Ascending(u)
      <4> SUFFICES ASSUME NEW j \in 1..Len(u), NEW l \in 1..Len(u), j < l PROVE u[j] < u[l]
        BY DEF Ascending
      <4> HIDE DEF K
      <4>1. j \in 1..K /\ (l \in 1..K \/ l = K + 1)
        <5>1. j \in 1..(K + 1) /\ l \in 1..(K + 1)
          BY <3>2
        <5> QED BY <3>9, <5>1
      <4>2. l \in 1..K => o[j] < o[l]
        BY <3>1, <4>1 DEF Ascending, K
      <4>3. o[j] < i
        BY <2>6, <2>7, <3>3, <4>1
      <4> QED BY <3>2, <4>1, <4>2, <4>3
    <3>6. CallBlocks(u) = Append(CallBlocks(o), CallBlock(i))
      <4>1. \A m \in 1..K : CallBlock(u[m]) = CallBlock(o[m])
        BY <3>2
      <4>2. CallBlocks(o) = [m \in 1..K |-> CallBlock(o[m])]
        BY DEF CallBlocks
      <4>3. CallBlocks(u) = [m \in 1..(K + 1) |-> CallBlock(u[m])] /\ CallBlock(u[K + 1]) = CallBlock(i)
        BY <3>2 DEF CallBlocks
      <4> DEFINE B == {CallBlock(j) : j \in Indices}
                 X == CallBlocks(u)
                 Y == CallBlocks(o)
                 b == CallBlock(i)
      <4>4. \A m \in 1..K : CallBlock(o[m]) \in B
        OBVIOUS
      <4>5. b \in B
        OBVIOUS
      <4> HIDE DEF B, b, K
      <4>6. Y \in Seq(B) /\ Len(Y) = K /\ \A m \in 1..K : Y[m] = CallBlock(o[m])
        BY <3>9, <4>2, <4>4
      <4>7. X \in Seq(B) /\ Len(X) = K + 1 /\ X[K + 1] = b /\ \A m \in 1..K : X[m] = CallBlock(o[m])
        <5>1. \A m \in 1..(K + 1) : CallBlock(u[m]) \in B
          <6> SUFFICES ASSUME NEW m \in 1..(K + 1) PROVE CallBlock(u[m]) \in B
            OBVIOUS
          <6>1. m \in 1..K \/ m = K + 1
            BY <3>9
          <6> QED BY <4>1, <4>3, <4>4, <4>5, <6>1 DEF b
        <5>2. K + 1 \in 1..(K + 1) /\ \A m \in 1..K : m \in 1..(K + 1)
          BY <3>9
        <5>3. X = [m \in 1..(K + 1) |-> CallBlock(u[m])]
          BY <4>3
        <5> HIDE DEF X
        <5> QED BY <3>2, <4>1, <4>3, <5>1, <5>2, <5>3 DEF b
      <4> HIDE DEF X, Y
      <4>8. /\ Append(Y, b) \in Seq(B) /\ Len(Append(Y, b)) = K + 1 /\ Append(Y, b)[K + 1] = b
            /\ \A m \in 1..K : Append(Y, b)[m] = Y[m]
        BY <4>5, <4>6, Appended
      <4>9. \A m \in 1..(K + 1) : X[m] = Append(Y, b)[m]
        <5> SUFFICES ASSUME NEW m \in 1..(K + 1) PROVE X[m] = Append(Y, b)[m]
          OBVIOUS
        <5>1. m \in 1..K \/ m = K + 1
          BY <3>9
        <5> QED BY <4>6, <4>7, <4>8, <5>1
      <4> QED BY <4>7, <4>8, <4>9, SameSeq DEF X, Y, b
    <3>7. Leading(t, sg) = Leading(a, sg) /\ Middle(t) = Middle(a)
      BY <1>3 DEF Leading, Middle, Texts
    <3>8. Laid(t, sg, u)
      <4> DEFINE A == Leading(a, sg) \o Middle(a)
                 Y == CallBlocks(o)
                 b == CallBlock(i)
      <4>1. A \in Seq(Placements)
        <5>1. Leading(a, sg) \in Seq(Placements) /\ Middle(a) \in Seq(Placements)
          BY <1>1, LeadingType
        <5> QED BY <5>1
      <4>2. \A j \in Indices : CallBlock(j) \in Placements
        <5>1. <<>> \in Seq(Nat)
          OBVIOUS
        <5>2. "tool" \in Kinds /\ "none" \in Signatures
          BY DEF Kinds, Signatures
        <5> QED BY <5>1, <5>2, PlacedType DEF CallBlock
      <4>3. Y \in Seq(Placements)
        <5>1. \A m \in 1..K : CallBlock(o[m]) \in Placements
          BY <4>2
        <5> QED BY <3>2, <5>1 DEF CallBlocks
      <4>4. b \in Placements
        BY <4>2
      <4>5. a.blocks = A \o Y
        BY <3>1 DEF Laid
      <4> HIDE DEF A, Y, b
      <4>6. Append(A \o Y, b) = A \o Append(Y, b)
        BY <4>1, <4>3, <4>4
      <4>7. t.blocks = A \o CallBlocks(u)
        BY <2>2, <3>6, <4>5, <4>6 DEF Y, b
      <4> QED BY <3>7, <4>7 DEF Laid, A
    <3> QED BY <3>2, <3>4, <3>5, <3>8 DEF LaidOut
  <2>8. t.blocks # <<>>
    <3>1. a.blocks \in Seq(Placements)
      BY <1>1 DEF Aggregates
    <3> DEFINE b == CallBlock(i)
    <3> HIDE DEF b
    <3>2. Append(a.blocks, b) # <<>>
      <4>1. a.blocks \in Seq(Placements \cup {b}) /\ b \in Placements \cup {b}
        BY <3>1
      <4> QED BY <4>1, Appended
    <3> QED BY <2>2, <3>2 DEF b
  <2> QED BY <1>1, <1>3, <2>1, <2>5, <2>7, <2>8 DEF Ordered
<1> QED BY <1>7, <1>8 DEF t, n

-----------------------------------------------------------------------------
(* The two conversions of an answer that came in order.                     *)

\* A set has one ascending sequence.
LEMMA AscendingOnce ==
    ASSUME NEW C \in SUBSET Nat, NEW K \in Nat, NEW c \in Surjection(1..K, C), NEW o \in Surjection(1..K, C),
           \A j, k \in 1..K : j < k => c[j] < c[k],
           \A j, k \in 1..K : j < k => o[j] < o[k]
    PROVE  c = o
<1>1. c \in [1..K -> C] /\ o \in [1..K -> C]
      /\ (\A x \in C : \E j \in 1..K : c[j] = x) /\ (\A x \in C : \E j \in 1..K : o[j] = x)
  BY DEF Surjection
<1> SUFFICES ASSUME c # o PROVE FALSE
  OBVIOUS
<1> DEFINE T == {k \in 1..K : c[k] # o[k]}
<1>2. T \subseteq Nat /\ T # {}
  BY <1>1
<1>3. PICK k \in T : \A j \in T : k <= j
  <2> HIDE DEF T
  <2> QED BY <1>2, LeastOf
<1>4. k \in 1..K /\ c[k] # o[k] /\ \A j \in 1..K : j < k => c[j] = o[j]
  BY <1>3
<1>5. PICK j \in 1..K : o[j] = c[k]
  BY <1>1, <1>4
<1>6. PICK i \in 1..K : c[i] = o[k]
  BY <1>1, <1>4
<1> HIDE DEF T
<1>7. \A x \in 1..K : c[x] \in Nat /\ o[x] \in Nat
  BY <1>1
<1>8. j > k
  <2>1. ~(j < k)
    <3> SUFFICES ASSUME j < k PROVE FALSE
      OBVIOUS
    <3>1. c[j] < c[k] /\ c[j] = o[j]
      BY <1>4, <1>5
    <3> QED BY <1>4, <1>5, <1>7, <3>1
  <2>2. j # k
    BY <1>4, <1>5
  <2> QED BY <1>4, <1>5, <2>1, <2>2
<1>9. i > k
  <2>1. ~(i < k)
    <3> SUFFICES ASSUME i < k PROVE FALSE
      OBVIOUS
    <3>1. o[i] < o[k] /\ c[i] = o[i]
      BY <1>4, <1>6
    <3> QED BY <1>4, <1>6, <1>7, <3>1
  <2>2. i # k
    BY <1>4, <1>6
  <2> QED BY <1>4, <1>6, <2>1, <2>2
<1>10. o[k] < o[j] /\ c[k] < c[i]
  BY <1>4, <1>5, <1>6, <1>8, <1>9
<1> QED BY <1>4, <1>5, <1>6, <1>7, <1>10

\* The calls sorted, as PlainCalls chooses them, are those the blocks list.
LEMMA OrderFound ==
    ASSUME NEW a \in Aggregates, NEW o \in Seq(Indices), Lists(o, a), Ascending(o)
    PROVE  o = CHOOSE calls \in SetToSeqs(CallsOf(a)) :
                   \A j, k \in DOMAIN calls : j < k => calls[j] < calls[k]
<1> DEFINE C == CallsOf(a)
           K == Len(o)
           Up(calls) == \A j, k \in DOMAIN calls : j < k => calls[j] < calls[k]
           c == CHOOSE calls \in SetToSeqs(C) : Up(calls)
<1>1. C \in SUBSET Nat /\ K \in Nat /\ DOMAIN o = 1..K /\ \A j \in 1..K : o[j] \in Nat
  <2>1. C \in SUBSET Nat
    BY ConverterAssumption DEF CallsOf
  <2>2. K \in Nat /\ DOMAIN o = 1..K /\ \A j \in 1..K : o[j] \in Indices
    OBVIOUS
  <2> QED BY <2>1, <2>2, ConverterAssumption
<1>2. o \in Surjection(1..K, C)
  <2>1. \A j \in 1..K : o[j] \in C
    <3> SUFFICES ASSUME NEW j \in 1..K PROVE o[j] \in C
      OBVIOUS
    <3>1. o[j] \in Indices
      OBVIOUS
    <3> QED BY <3>1 DEF Lists
  <2>2. \A x \in C : \E j \in 1..K : o[j] = x
    BY DEF Lists, CallsOf
  <2>3. o \in [1..K -> C]
    BY <1>1, <2>1
  <2> QED BY <2>2, <2>3 DEF Surjection
<1>3. \A j, k \in 1..K : j < k => o[j] < o[k]
  BY DEF Ascending
<1>4. o \in Injection(1..K, C)
  <2> SUFFICES ASSUME NEW j \in 1..K, NEW k \in 1..K, o[j] = o[k] PROVE j = k
    BY <1>2 DEF Surjection, Injection, IsInjective
  <2> HIDE DEF K
  <2>1. j < k \/ k < j \/ j = k
    BY <1>1
  <2>2. o[j] \in Nat /\ o[k] \in Nat
    BY <1>1
  <2> QED BY <1>3, <2>1, <2>2
<1> HIDE DEF C, K
<1>5. IsFiniteSet(1..K) /\ Cardinality(1..K) = K
  <2>1. 1 \in Int /\ K \in Int
    BY <1>1
  <2>2. IsFiniteSet(1..K) /\ Cardinality(1..K) = IF 1 > K THEN 0 ELSE K - 1 + 1
    BY <2>1, FS_Interval
  <2> QED BY <1>1, <2>2
<1>6. IsFiniteSet(C) /\ Cardinality(C) = K
  BY <1>2, <1>4, <1>5, FS_Surjection
<1>7. o \in SetToSeqs(C)
  BY <1>2, <1>4, <1>6 DEF SetToSeqs, Surjection, Injection, IsInjective
<1>8. Up(o)
  BY <1>1, <1>3
<1> HIDE DEF Up
<1>9. c \in SetToSeqs(C) /\ Up(c)
  BY <1>7, <1>8
<1> HIDE DEF c
<1>10. c \in Injection(1..K, C) /\ DOMAIN c = 1..K
  BY <1>6, <1>9 DEF SetToSeqs, Injection, IsInjective
<1>11. c \in Surjection(1..K, C)
  BY <1>5, <1>6, <1>10, FS_Injection
<1>12. \A j, k \in 1..K : j < k => c[j] < c[k]
  BY <1>9, <1>10 DEF Up
<1>13. c = o
  BY <1>1, <1>2, <1>3, <1>11, <1>12, AscendingOnce
<1> QED BY <1>13 DEF c, Up, C

\* The block that shows b.
Converted(a, omit, b) ==
    CASE b.kind = "thinking" -> ThinkingOf(b.pieces, b.signature, omit)
      [] b.kind = "text"     -> TextOf(b.pieces)
      [] b.kind = "tool"     -> CallOf(a, a.tools[b.index])

Mapped(a, omit, bs) == [n \in 1..Len(bs) |-> Converted(a, omit, bs[n])]

\* Types of the blocks that show reasoning.
LEMMA ThinkingOfType ==
    ASSUME NEW p \in Seq(Nat), NEW sg \in Signatures, NEW omit
    PROVE  ThinkingOf(p, sg, omit) \in ShownBlocks /\ ThinkingOf(p, sg, omit).kind = "thinking"
<1> DEFINE x == IF omit THEN <<>> ELSE p
           e == sg = "none" \/ (omit /\ p # <<>> /\ sg # "router")
           y == IF e THEN "encoded" ELSE sg
           z == IF e THEN p ELSE <<>>
<1>1. ThinkingOf(p, sg, omit) = [kind |-> "thinking", pieces |-> x, signature |-> y, carries |-> z]
  BY DEF ThinkingOf, Shows
<1>2. <<>> \in Seq(Nat)
  OBVIOUS
<1>3. x \in Seq(Nat) /\ z \in Seq(Nat) /\ y \in Signs /\ "thinking" \in Kinds
  BY <1>2 DEF Signatures, Signs, Kinds
<1> HIDE DEF x, y, z
<1> QED BY <1>1, <1>3 DEF ShownBlocks

\* Types of the blocks that show a call.
LEMMA CallOfType ==
    ASSUME NEW a, NEW tool \in ToolStates
    PROVE  CallOf(a, tool) \in ShownBlocks
<1> DEFINE p == <<tool.piece>>
<1>1. p \in Seq(Nat)
  <2>1. tool.piece \in Nat
    BY DEF ToolStates
  <2> QED BY <2>1
<1>2. <<>> \in Seq(Nat)
  OBVIOUS
<1> HIDE DEF p
<1>3. Shows("tool", p, "none", <<>>) \in ShownBlocks
  BY <1>1, <1>2 DEF Shows, ShownBlocks, Kinds, Signs
<1>4. TextOf(p) \in ShownBlocks
  BY <1>1, TextOfType
<1>5. CallOf(a, tool) = IF Incomplete(a) THEN TextOf(p) ELSE Shows("tool", p, "none", <<>>)
  BY DEF CallOf, p
<1> QED BY <1>3, <1>4, <1>5

\* One sequence behind another.
LEMMA Concatenated ==
    ASSUME NEW S, NEW s \in Seq(S), NEW t \in Seq(S)
    PROVE  /\ s \o t \in Seq(S) /\ Len(s \o t) = Len(s) + Len(t)
           /\ \A n \in 1..(Len(s) + Len(t)) : (s \o t)[n] = IF n <= Len(s) THEN s[n] ELSE t[n - Len(s)]
  OBVIOUS

\* The blocks are shown one by one.
LEMMA MappedIs ==
    ASSUME NEW a \in Aggregates, NEW omit
    PROVE  /\ FromBlocks(a, omit) = Mapped(a, omit, a.blocks)
           /\ \A b \in Placements : Converted(a, omit, b) \in ShownBlocks
           /\ \A bs \in Seq(Placements) : /\ Mapped(a, omit, bs) \in Seq(ShownBlocks)
                                          /\ Len(Mapped(a, omit, bs)) = Len(bs)
           /\ \A bs, cs \in Seq(Placements) :
                  Mapped(a, omit, bs \o cs) = Mapped(a, omit, bs) \o Mapped(a, omit, cs)
<1>1. FromBlocks(a, omit) = Mapped(a, omit, a.blocks)
  BY DEF FromBlocks, Mapped, Converted
<1>2. ASSUME NEW b \in Placements PROVE Converted(a, omit, b) \in ShownBlocks
  <2>1. b.kind \in Kinds /\ b.pieces \in Seq(Nat) /\ b.signature \in Signatures /\ b.index \in Indices
    BY DEF Placements
  <2>2. ThinkingOf(b.pieces, b.signature, omit) \in ShownBlocks
    BY <2>1, ThinkingOfType
  <2>3. TextOf(b.pieces) \in ShownBlocks
    BY <2>1, TextOfType
  <2>4. CallOf(a, a.tools[b.index]) \in ShownBlocks
    <3>1. a.tools[b.index] \in ToolStates
      BY <2>1 DEF Aggregates
    <3> QED BY <3>1, CallOfType
  <2> QED BY <2>1, <2>2, <2>3, <2>4 DEF Converted, Kinds
<1>3. ASSUME NEW bs \in Seq(Placements)
      PROVE  /\ Mapped(a, omit, bs) \in Seq(ShownBlocks) /\ Len(Mapped(a, omit, bs)) = Len(bs)
  <2>1. \A n \in 1..Len(bs) : Converted(a, omit, bs[n]) \in ShownBlocks
    BY <1>2
  <2>2. Len(bs) \in Nat
    OBVIOUS
  <2> QED BY <2>1, <2>2 DEF Mapped
<1>4. ASSUME NEW bs \in Seq(Placements), NEW cs \in Seq(Placements)
      PROVE  Mapped(a, omit, bs \o cs) = Mapped(a, omit, bs) \o Mapped(a, omit, cs)
  <2> DEFINE X == Mapped(a, omit, bs \o cs)
             Y == Mapped(a, omit, bs)
             Z == Mapped(a, omit, cs)
             k == Len(bs)
             l == Len(cs)
  <2>1. /\ k \in Nat /\ l \in Nat /\ bs \o cs \in Seq(Placements) /\ Len(bs \o cs) = k + l
        /\ \A n \in 1..(k + l) : (bs \o cs)[n] = IF n <= k THEN bs[n] ELSE cs[n - k]
    OBVIOUS
  <2>2. X \in Seq(ShownBlocks) /\ Y \in Seq(ShownBlocks) /\ Z \in Seq(ShownBlocks)
        /\ Len(X) = k + l /\ Len(Y) = k /\ Len(Z) = l
    BY <1>3, <2>1
  <2>3. /\ \A n \in 1..(k + l) : X[n] = Converted(a, omit, (bs \o cs)[n])
        /\ \A n \in 1..k : Y[n] = Converted(a, omit, bs[n])
        /\ \A n \in 1..l : Z[n] = Converted(a, omit, cs[n])
    BY <2>1 DEF Mapped
  <2> HIDE DEF X, Y, Z, k, l
  <2>4. /\ Y \o Z \in Seq(ShownBlocks) /\ Len(Y \o Z) = k + l
        /\ \A n \in 1..(k + l) : (Y \o Z)[n] = IF n <= k THEN Y[n] ELSE Z[n - k]
    BY <2>2, Concatenated
  <2>5. \A n \in 1..(k + l) : X[n] = (Y \o Z)[n]
    <3> SUFFICES ASSUME NEW n \in 1..(k + l) PROVE X[n] = (Y \o Z)[n]
      OBVIOUS
    <3>1. CASE n <= k
      <4>1. n \in 1..k
        BY <2>1, <3>1
      <4> QED BY <2>1, <2>3, <2>4, <3>1, <4>1
    <3>2. CASE ~(n <= k)
      <4>1. n - k \in 1..l
        BY <2>1, <3>2
      <4> QED BY <2>1, <2>3, <2>4, <3>2, <4>1
    <3> QED BY <3>1, <3>2
  <2> QED BY <2>2, <2>4, <2>5, SameSeq DEF X, Y, Z
<1> QED BY <1>1, <1>2, <1>3, <1>4

\* The blocks of the calls.
Calling(a, o) == [n \in 1..Len(o) |-> CallOf(a, a.tools[o[n]])]

\* The calls of an answer without a legacy call, in order.
LEMMA PlainCallsOf ==
    ASSUME NEW m \in Aggregates, NEW o \in Seq(Indices), Lists(o, m), Ascending(o), ~HasLegacy(m)
    PROVE  PlainCalls(m) = [n \in 1..Len(o) |-> m.tools[o[n]]]
<1>1. CASE CallsOf(m) # {}
  <2> DEFINE order == CHOOSE calls \in SetToSeqs(CallsOf(m)) :
                          \A j, k \in DOMAIN calls : j < k => calls[j] < calls[k]
  <2>1. PlainCalls(m) = [n \in 1..Len(order) |-> m.tools[order[n]]]
    BY <1>1 DEF PlainCalls
  <2>2. order = o
    BY OrderFound
  <2> HIDE DEF order
  <2> QED BY <2>1, <2>2
<1>2. CASE CallsOf(m) = {}
  <2>1. Len(o) = 0
    <3> SUFFICES ASSUME Len(o) # 0 PROVE FALSE
      OBVIOUS
    <3>1. 1 \in 1..Len(o) /\ o[1] \in Indices
      OBVIOUS
    <3>2. o[1] \in CallsOf(m)
      BY <3>1 DEF Lists
    <3> QED BY <1>2, <3>2
  <2>2. PlainCalls(m) = <<>>
    BY <1>2 DEF PlainCalls, Optional
  <2>3. [n \in 1..0 |-> m.tools[o[n]]] = <<>>
    OBVIOUS
  <2> QED BY <2>1, <2>2, <2>3
<1> QED BY <1>1, <1>2

\* The blocks shown of an answer that came in order.
LEMMA ShownLaid ==
    ASSUME NEW a \in Aggregates, NEW sg \in Signatures, NEW o \in Seq(Indices), Laid(a, sg, o), NEW omit
    PROVE  FromBlocks(a, omit)
               = (Optional(a.thinking # <<>> \/ sg # "none", ThinkingOf(a.thinking, sg, omit))
                     \o OptText(Texts(a))) \o Calling(a, o)
<1> DEFINE L == Leading(a, sg)
           M == Middle(a)
           C == CallBlocks(o)
           x == Placed("thinking", a.thinking, sg, 0)
           y == Placed("text", Texts(a), "none", 0)
<1>1. L \in Seq(Placements) /\ M \in Seq(Placements)
  BY LeadingType
<1>2. C \in Seq(Placements)
  <2>1. \A i \in Indices : CallBlock(i) \in Placements
    <3>1. <<>> \in Seq(Nat)
      OBVIOUS
    <3>2. "tool" \in Kinds /\ "none" \in Signatures
      BY DEF Kinds, Signatures
    <3> QED BY <3>1, <3>2, PlacedType DEF CallBlock
  <2>2. \A n \in 1..Len(o) : CallBlock(o[n]) \in Placements
    BY <2>1
  <2>3. Len(o) \in Nat
    OBVIOUS
  <2> QED BY <2>2, <2>3 DEF CallBlocks
<1>3. FromBlocks(a, omit) = Mapped(a, omit, (L \o M) \o C)
  BY MappedIs DEF Laid
<1>4. Mapped(a, omit, (L \o M) \o C)
          = (Mapped(a, omit, L) \o Mapped(a, omit, M)) \o Mapped(a, omit, C)
  <2> HIDE DEF L, M, C
  <2>1. L \o M \in Seq(Placements)
    BY <1>1, Concatenated
  <2>2. \A bs, cs \in Seq(Placements) :
            Mapped(a, omit, bs \o cs) = Mapped(a, omit, bs) \o Mapped(a, omit, cs)
    BY MappedIs
  <2>3. Mapped(a, omit, (L \o M) \o C) = Mapped(a, omit, L \o M) \o Mapped(a, omit, C)
    BY <1>2, <2>1, <2>2
  <2>4. Mapped(a, omit, L \o M) = Mapped(a, omit, L) \o Mapped(a, omit, M)
    BY <1>1, <2>2
  <2> QED BY <2>3, <2>4
<1>5. Mapped(a, omit, L)
          = Optional(a.thinking # <<>> \/ sg # "none", ThinkingOf(a.thinking, sg, omit))
  <2>1. Converted(a, omit, x) = ThinkingOf(a.thinking, sg, omit)
    BY DEF Converted, Placed
  <2> HIDE DEF x
  <2>2. Mapped(a, omit, <<x>>) = <<Converted(a, omit, x)>> /\ Mapped(a, omit, <<>>) = <<>>
    BY DEF Mapped
  <2> QED BY <2>1, <2>2 DEF Leading, Optional, x
<1>6. Mapped(a, omit, M) = OptText(Texts(a))
  <2>1. Converted(a, omit, y) = TextOf(Texts(a))
    BY DEF Converted, Placed
  <2> HIDE DEF y
  <2>2. Mapped(a, omit, <<y>>) = <<Converted(a, omit, y)>> /\ Mapped(a, omit, <<>>) = <<>>
    BY DEF Mapped
  <2> QED BY <2>1, <2>2 DEF Middle, Optional, OptText, y
<1>7. Mapped(a, omit, C) = Calling(a, o)
  <2>1. Len(o) \in Nat
    OBVIOUS
  <2>2. Len(C) = Len(o) /\ \A n \in 1..Len(o) : C[n] = CallBlock(o[n])
    BY <2>1 DEF CallBlocks
  <2>3. \A i \in Indices : Converted(a, omit, CallBlock(i)) = CallOf(a, a.tools[i])
    BY DEF Converted, CallBlock, Placed
  <2>4. \A n \in 1..Len(o) : o[n] \in Indices
    OBVIOUS
  <2> HIDE DEF C
  <2> QED BY <2>2, <2>3, <2>4 DEF Mapped, Calling
<1> QED BY <1>3, <1>4, <1>5, <1>6, <1>7

\* Types of the blocks of the calls.
LEMMA CallingType ==
    ASSUME NEW a \in Aggregates, NEW o \in Seq(Indices)
    PROVE  Calling(a, o) \in Seq(ShownBlocks)
<1>1. \A n \in 1..Len(o) : CallOf(a, a.tools[o[n]]) \in ShownBlocks
  <2> SUFFICES ASSUME NEW n \in 1..Len(o) PROVE CallOf(a, a.tools[o[n]]) \in ShownBlocks
    OBVIOUS
  <2>1. o[n] \in Indices
    OBVIOUS
  <2>2. a.tools[o[n]] \in ToolStates
    BY <2>1 DEF Aggregates
  <2> QED BY <2>2, CallOfType
<1>2. Len(o) \in Nat
  OBVIOUS
<1> QED BY <1>1, <1>2 DEF Calling

\* Blocks in order and the members show the same content, once joined.
LEMMA SameContent ==
    ASSUME NEW a \in Aggregates, NEW sg \in Signatures, NEW o \in Seq(Indices), Laid(a, sg, o),
           Lists(o, a), Ascending(o), ~HasLegacy(a),
           NEW m \in Aggregates, m = [a EXCEPT !.blocks = <<>>, !.signature = sg]
    PROVE  \A omit : Glued(FromBlocks(a, omit)) = Glued(FromMembers(m, omit))
<1> TAKE omit
<1> DEFINE S == Optional(a.thinking # <<>> \/ sg # "none", ThinkingOf(a.thinking, sg, omit))
           p == a.text
           q == a.attached
           r == a.refusal
           C == Calling(a, o)
<1>1. /\ m.thinking = a.thinking /\ m.signature = sg /\ m.text = p /\ m.attached = q
      /\ m.refusal = r /\ m.tools = a.tools /\ m.legacy = a.legacy /\ m.reason = a.reason
  BY DEF Aggregates
<1>2. p \in Seq(Nat) /\ q \in Seq(Nat) /\ r \in Seq(Nat) /\ a.thinking \in Seq(Nat)
  BY DEF Aggregates
<1>3. S \in Seq(ShownBlocks)
  <2> DEFINE x == ThinkingOf(a.thinking, sg, omit)
  <2>1. x \in ShownBlocks
    BY <1>2, ThinkingOfType
  <2> HIDE DEF x
  <2>2. <<x>> \in Seq(ShownBlocks)
    BY <2>1
  <2>3. <<>> \in Seq(ShownBlocks)
    OBVIOUS
  <2>4. S = IF a.thinking # <<>> \/ sg # "none" THEN <<x>> ELSE <<>>
    BY DEF Optional, x
  <2> HIDE DEF S
  <2> QED BY <2>2, <2>3, <2>4
<1>4. C \in Seq(ShownBlocks)
  BY CallingType
<1>5. FromMembers(m, omit) = (((S \o OptText(p)) \o OptText(q)) \o OptText(r)) \o C
  <2>1. CallsOf(m) = CallsOf(a) /\ HasLegacy(m) = HasLegacy(a)
    BY <1>1 DEF CallsOf, HasLegacy
  <2>2. Lists(o, m)
    BY <2>1 DEF Lists
  <2>3. PlainCalls(m) = [n \in 1..Len(o) |-> m.tools[o[n]]]
    BY <2>1, <2>2, PlainCallsOf
  <2> DEFINE calls == PlainCalls(m)
  <2>4. [n \in 1..Len(calls) |-> CallOf(m, calls[n])] = C
    <3>1. Len(o) \in Nat
      OBVIOUS
    <3>2. Len(calls) = Len(o) /\ \A n \in 1..Len(o) : calls[n] = a.tools[o[n]]
      BY <1>1, <2>3, <3>1
    <3>3. \A tool : CallOf(m, tool) = CallOf(a, tool)
      BY <1>1 DEF CallOf, Incomplete, Declined
    <3> HIDE DEF calls
    <3> QED BY <3>2, <3>3 DEF Calling
  <2>5. RefusalOf(m) = OptText(r)
    BY <1>1 DEF RefusalOf, OptText
  <2> HIDE DEF C
  <2>6. FromMembers(m, omit)
            = (((Optional(m.thinking # <<>> \/ m.signature # "none",
                          ThinkingOf(m.thinking, m.signature, omit))
                    \o Optional(m.text # <<>>, TextOf(m.text)))
                    \o Optional(m.attached # <<>>, TextOf(m.attached)))
                    \o RefusalOf(m)) \o C
    BY <2>4 DEF FromMembers
  <2> QED BY <1>1, <2>5, <2>6 DEF OptText
<1>6. FromBlocks(a, omit) = (S \o OptText((p \o q) \o r)) \o C
  BY ShownLaid DEF Texts
<1> HIDE DEF S, C, p, q, r
<1>7. /\ p \o q \in Seq(Nat) /\ (p \o q) \o r \in Seq(Nat)
      /\ OptText(p) \in Seq(ShownBlocks) /\ OptText(q) \in Seq(ShownBlocks)
      /\ OptText(r) \in Seq(ShownBlocks) /\ OptText(p \o q) \in Seq(ShownBlocks)
      /\ OptText((p \o q) \o r) \in Seq(ShownBlocks)
  <2>1. p \o q \in Seq(Nat)
    BY <1>2
  <2>2. (p \o q) \o r \in Seq(Nat)
    BY <1>2, <2>1
  <2> QED BY <1>2, <2>1, <2>2, OptTextType
<1> DEFINE A == OptText(p)
           B == OptText(q)
           R == OptText(r)
           AB == OptText(p \o q)
           ABR == OptText((p \o q) \o r)
<1>8. Glued((S \o A) \o B) = Glued(S \o AB)
  BY <1>2, <1>3, TextsGlued
<1>9. Glued((S \o AB) \o R) = Glued(S \o ABR)
  BY <1>2, <1>3, <1>7, TextsGlued
<1> HIDE DEF A, B, R, AB, ABR
<1>10. /\ (S \o A) \o B \in Seq(ShownBlocks) /\ S \o AB \in Seq(ShownBlocks)
       /\ ((S \o A) \o B) \o R \in Seq(ShownBlocks) /\ S \o ABR \in Seq(ShownBlocks)
       /\ R \in Seq(ShownBlocks)
  <2>1. /\ A \in Seq(ShownBlocks) /\ B \in Seq(ShownBlocks) /\ R \in Seq(ShownBlocks)
        /\ AB \in Seq(ShownBlocks) /\ ABR \in Seq(ShownBlocks)
    BY <1>7 DEF A, B, R, AB, ABR
  <2>2. S \o A \in Seq(ShownBlocks) /\ S \o AB \in Seq(ShownBlocks) /\ S \o ABR \in Seq(ShownBlocks)
    BY <1>3, <2>1, Concatenated
  <2>3. (S \o A) \o B \in Seq(ShownBlocks)
    BY <2>1, <2>2, Concatenated
  <2>4. ((S \o A) \o B) \o R \in Seq(ShownBlocks)
    BY <2>1, <2>3, Concatenated
  <2> QED BY <2>1, <2>2, <2>3, <2>4
<1>11. Glued(((S \o A) \o B) \o R) = Glued((S \o AB) \o R)
  BY <1>8, <1>10, GluedConcat
<1>12. Glued((((S \o A) \o B) \o R) \o C) = Glued((S \o ABR) \o C)
  <2>1. Glued(((S \o A) \o B) \o R) = Glued(S \o ABR)
    BY <1>9, <1>11
  <2> QED BY <1>4, <1>10, <2>1, GluedConcat
<1> QED BY <1>5, <1>6, <1>12 DEF A, B, R, ABR

\* The same calls are looked at for their arguments.
LEMMA SameTools ==
    ASSUME NEW a \in Aggregates, NEW sg \in Signatures, NEW o \in Seq(Indices), Laid(a, sg, o),
           Lists(o, a), Ascending(o), ~HasLegacy(a), a.blocks # <<>>,
           NEW m \in Aggregates, m = [a EXCEPT !.blocks = <<>>, !.signature = sg]
    PROVE  ToolsUsed(a) = ToolsUsed(m)
<1> DEFINE L == Leading(a, sg) \o Middle(a)
           C == CallBlocks(o)
           N == Len(L)
           K == Len(o)
<1>1. L \in Seq(Placements) /\ \A n \in 1..N : L[n].kind # "tool"
  <2> DEFINE x == Placed("thinking", a.thinking, sg, 0)
             y == Placed("text", Texts(a), "none", 0)
  <2>1. Leading(a, sg) \in Seq(Placements) /\ Middle(a) \in Seq(Placements)
    BY LeadingType
  <2>2. x.kind # "tool" /\ y.kind # "tool"
    BY DEF Placed
  <2>3. Leading(a, sg) \in {<<>>, <<x>>} /\ Middle(a) \in {<<>>, <<y>>}
    BY DEF Leading, Middle, Optional
  <2> HIDE DEF x, y
  <2>4. \A n \in 1..N : L[n] \in {x, y}
    BY <2>3
  <2>5. L \in Seq(Placements)
    BY <2>1, Concatenated
  <2> QED BY <2>2, <2>4, <2>5
<1>2. /\ K \in Nat /\ \A n \in 1..K : o[n] \in Indices
      /\ C \in Seq({CallBlock(i) : i \in Indices}) /\ Len(C) = K
      /\ \A n \in 1..K : C[n] = CallBlock(o[n])
  <2>1. K \in Nat /\ \A n \in 1..K : o[n] \in Indices
    OBVIOUS
  <2> HIDE DEF K
  <2>2. C = [n \in 1..K |-> CallBlock(o[n])]
    BY DEF CallBlocks, K
  <2> HIDE DEF C
  <2> QED BY <2>1, <2>2
<1>3. a.blocks = L \o C
  BY DEF Laid
<1>4. \A i \in Indices : CallBlock(i).kind = "tool" /\ CallBlock(i).index = i
  BY DEF CallBlock, Placed
<1> HIDE DEF L, C, K
<1>5. DOMAIN a.blocks = 1..(N + K) /\ N \in Nat
      /\ \A n \in 1..(N + K) : a.blocks[n] = IF n <= N THEN L[n] ELSE C[n - N]
  <2> DEFINE S == Placements \cup {CallBlock(i) : i \in Indices}
  <2>1. L \in Seq(S) /\ C \in Seq(S)
    BY <1>1, <1>2
  <2> HIDE DEF S
  <2> QED BY <1>2, <1>3, <2>1, Concatenated
<1> HIDE DEF N
<1> DEFINE B == {b \in ToSet(a.blocks) : b.kind = "tool"}
<1>6. B = {CallBlock(o[n]) : n \in 1..K}
  <2>1. ASSUME NEW b \in B PROVE b \in {CallBlock(o[n]) : n \in 1..K}
    <3>1. PICK n \in 1..(N + K) : a.blocks[n] = b
      BY <1>5 DEF ToSet
    <3>2. ~(n <= N)
      <4> SUFFICES ASSUME n <= N PROVE FALSE
        OBVIOUS
      <4>1. n \in 1..N /\ b = L[n]
        BY <1>5, <3>1
      <4> QED BY <1>1, <4>1 DEF N
    <3>3. n - N \in 1..K /\ b = C[n - N]
      BY <1>2, <1>5, <3>1, <3>2
    <3> QED BY <1>2, <3>3
  <2>2. ASSUME NEW n \in 1..K PROVE CallBlock(o[n]) \in B
    <3>1. n + N \in 1..(N + K) /\ ~(n + N <= N) /\ (n + N) - N = n
      BY <1>2, <1>5
    <3>2. a.blocks[n + N] = CallBlock(o[n])
      BY <1>2, <1>5, <3>1
    <3>3. CallBlock(o[n]) \in ToSet(a.blocks)
      BY <1>5, <3>1, <3>2 DEF ToSet
    <3> QED BY <1>2, <1>4, <3>3
  <2> QED BY <2>1, <2>2
<1>7. ToolsUsed(a) = {a.tools[b.index] : b \in B}
  BY DEF ToolsUsed
<1> HIDE DEF B
<1>8. ToolsUsed(a) = {a.tools[o[n]] : n \in 1..K}
  <2>1. \A n \in 1..K : CallBlock(o[n]).index = o[n]
    BY <1>2, <1>4
  <2> QED BY <1>6, <1>7, <2>1
<1>9. m.blocks = <<>> /\ m.tools = a.tools /\ m.legacy = a.legacy
  BY DEF Aggregates
<1>10. PlainCalls(m) = [n \in 1..K |-> a.tools[o[n]]]
  <2>1. Lists(o, m) /\ ~HasLegacy(m)
    BY <1>9 DEF Lists, HasLegacy, CallsOf
  <2>2. PlainCalls(m) = [n \in 1..Len(o) |-> m.tools[o[n]]]
    BY <2>1, PlainCallsOf
  <2> QED BY <1>9, <2>2 DEF K
<1>11. ToolsUsed(m) = {a.tools[o[n]] : n \in 1..K}
  <2>1. ToolsUsed(m) = ToSet(PlainCalls(m))
    BY <1>9 DEF ToolsUsed
  <2> QED BY <1>10, <2>1 DEF ToSet
<1> QED BY <1>8, <1>11

\* A record with another content.
LEMMA ContentReplaced ==
    ASSUME NEW f, NEW c, NEW h, NEW s, NEW r, r = [failed |-> f, content |-> c, stop |-> s]
    PROVE  [r EXCEPT !.content = h] = [failed |-> f, content |-> h, stop |-> s]
OBVIOUS

\* Of an answer in order both conversions make the same message, or none.
LEMMA SameMessage ==
    ASSUME NEW a, NEW log, NEW sg, Ordered(a, log, sg), Sorted(a, log),
           HasLegacy(a) => a.blocks = <<>>, NEW omit
    PROVE  Joined(Transformed([a EXCEPT !.blocks = <<>>, !.signature = sg], omit))
               = Joined(Transformed(a, omit))
<1> DEFINE m == [a EXCEPT !.blocks = <<>>, !.signature = sg]
<1>1. a \in Aggregates /\ sg \in Signatures /\ a.signature = "none"
  BY DEF Ordered
<1>2. /\ m \in Aggregates /\ m.blocks = <<>> /\ m.refusal = a.refusal
      /\ m.reason = a.reason /\ m.failed = a.failed
  <2>1. <<>> \in Seq(Placements)
    OBVIOUS
  <2> QED BY <1>1, <2>1 DEF Aggregates
<1>3. CASE a.blocks = <<>>
  <2>1. sg = "none"
    BY <1>3 DEF Ordered
  <2>2. m = a
    BY <1>1, <1>3, <2>1 DEF Aggregates
  <2> QED BY <2>2
<1>4. CASE a.blocks # <<>>
  <2>1. ~HasLegacy(a)
    BY <1>4
  <2>2. PICK o \in Seq(Indices) : Lists(o, a) /\ Ascending(o) /\ Laid(a, sg, o)
    BY DEF Ordered, LaidOut
  <2>9. m = [a EXCEPT !.blocks = <<>>, !.signature = sg]
    OBVIOUS
  <2> HIDE DEF m
  <2>3. ToolsUsed(a) = ToolsUsed(m)
    BY <2>9, <1>1, <1>2, <1>4, <2>1, <2>2, SameTools
  <2>4. Glued(FromBlocks(a, omit)) = Glued(FromMembers(m, omit))
    BY <1>1, <1>2, <2>1, <2>2, <2>9, SameContent
  <2>5. /\ Unsupported(m) = Unsupported(a) /\ StopReasonOf(m) = StopReasonOf(a)
        /\ \A tool : Rejected(m, tool) = Rejected(a, tool)
    BY <1>2 DEF Unsupported, StopReasonOf, Rejected, Incomplete, Declined
  <2> DEFINE wrong == a.failed \/ Unsupported(a) \/ \E tool \in ToolsUsed(a) : Rejected(a, tool)
             A == [failed |-> FALSE, content |-> FromBlocks(a, omit), stop |-> StopReasonOf(a)]
             M == [failed |-> FALSE, content |-> FromMembers(m, omit), stop |-> StopReasonOf(a)]
  <2>6. Transformed(a, omit) = IF wrong THEN NoMessage ELSE A
    BY <1>4 DEF Transformed
  <2>7. Transformed(m, omit) = IF wrong THEN NoMessage ELSE M
    BY <1>2, <2>3, <2>5 DEF Transformed
  <2> HIDE DEF wrong
  <2>8. Joined(A) = Joined(M)
    <3>1. Joined(A) = [A EXCEPT !.content = Glued(A.content)]
          /\ Joined(M) = [M EXCEPT !.content = Glued(M.content)]
      BY JoinedIs
    <3>2. A.content = FromBlocks(a, omit) /\ M.content = FromMembers(m, omit)
      OBVIOUS
    <3> DEFINE f == FromBlocks(a, omit)
               g == FromMembers(m, omit)
               s == StopReasonOf(a)
               h == Glued(f)
    <3>3. Joined(A) = [A EXCEPT !.content = h] /\ Joined(M) = [M EXCEPT !.content = h]
      BY <2>4, <3>1, <3>2
    <3> HIDE DEF f, g, s, h
    <3> DEFINE no == FALSE
    <3>4. A = [failed |-> no, content |-> f, stop |-> s]
          /\ M = [failed |-> no, content |-> g, stop |-> s]
      BY DEF f, g, s
    <3> HIDE DEF A, M, no
    <3> DEFINE H == [failed |-> no, content |-> h, stop |-> s]
    <3>5. [A EXCEPT !.content = h] = H
      BY <3>4, ContentReplaced
    <3>6. [M EXCEPT !.content = h] = H
      BY <3>4, ContentReplaced
    <3> QED BY <3>3, <3>5, <3>6
  <2> HIDE DEF A, M
  <2> QED BY <2>6, <2>7, <2>8 DEF m
<1> QED BY <1>3, <1>4

\* Types of an aggregate without any event.
LEMMA NewAggregateType ==
    /\ NewAggregate \in Aggregates
    /\ \A i \in Indices : NewAggregate.tools[i] = NoTool
<1>1. NoTool \in ToolStates
  BY DEF NoTool, ToolStates
<1> DEFINE ts == [i \in Indices |-> NoTool]
<1>2. ts \in [Indices -> ToolStates] /\ \A i \in Indices : ts[i] = NoTool
  BY <1>1
<1>3. <<>> \in Seq(Nat)
  OBVIOUS
<1>4. <<>> \in Seq(Placements)
  OBVIOUS
<1>5. NewAggregate = [blocks |-> <<>>, thinking |-> <<>>, signature |-> "none", text |-> <<>>,
                      attached |-> <<>>, refusal |-> <<>>, tools |-> ts, legacy |-> NoTool,
                      reason |-> "", failed |-> FALSE]
  BY DEF NewAggregate
<1> HIDE DEF ts
<1>6. NewAggregate \in Aggregates
  BY <1>1, <1>2, <1>3, <1>4, <1>5 DEF Aggregates, Signatures
<1> QED BY <1>2, <1>5, <1>6

\* Ordered, of the answer so far.
JsonInvariant == Ordered(agg, sent, signed)

\* Before the first event there is nothing to order.
LEMMA JsonInit == Init => JsonInvariant
<1> SUFFICES ASSUME Init PROVE Ordered(NewAggregate, <<>>, "none")
  BY DEF Init, JsonInvariant
<1>1. NewAggregate \in Aggregates /\ \A i \in Indices : NewAggregate.tools[i] = NoTool
  BY NewAggregateType
<1>2. <<>> \in Seq(Members)
  OBVIOUS
<1> DEFINE a == NewAggregate
<1>3. /\ a.blocks = <<>> /\ a.thinking = <<>> /\ a.signature = "none" /\ a.text = <<>>
      /\ a.attached = <<>> /\ a.refusal = <<>>
  BY DEF NewAggregate
<1> HIDE DEF a
<1>4. CallsOf(a) = {} /\ \A i \in Indices : a.tools[i].piece <= Len(<<>>)
  <2>1. \A i \in Indices : a.tools[i].piece = 0
    <3>1. NoTool.piece = 0
      BY DEF NoTool
    <3> QED BY <1>1, <3>1 DEF a
  <2>2. Len(<<>>) = 0
    OBVIOUS
  <2> QED BY <2>1, <2>2 DEF CallsOf
<1>5. Brought(a, <<>>)
  BY <1>3, <1>4 DEF Brought
<1>6. Leading(a, "none") = <<>> /\ Middle(a) = <<>>
  BY <1>3 DEF Leading, Middle, Texts, Optional
<1>7. a.blocks = Leading(a, "none") \o Middle(a)
  BY <1>3, <1>6
<1>8. LaidOut(a, "none")
  BY <1>1, <1>4, <1>7, NoCalls DEF a
<1>9. "none" \in Signatures
  BY DEF Signatures
<1> QED BY <1>1, <1>2, <1>3, <1>5, <1>8, <1>9 DEF Ordered, a

\* Every event keeps the invariant.
LEMMA JsonStep == JsonInvariant /\ [Next]_vars => JsonInvariant'
<1> SUFFICES ASSUME JsonInvariant, [Next]_vars PROVE Ordered(agg', sent', signed')
  BY DEF JsonInvariant
<1> USE DEF JsonInvariant, Send, Piece
<1>0. agg \in Aggregates
  BY DEF Ordered
<1>1. CASE Think
  BY <1>1, ThinkOrdered DEF Think
<1>2. CASE Sign
  BY <1>2, SignOrdered DEF Sign
<1>3. CASE Say
  BY <1>3, TextOrdered DEF Say
<1>4. CASE Attach
  BY <1>4, TextOrdered DEF Attach
<1>5. CASE Decline
  BY <1>5, TextOrdered DEF Decline
<1>6. CASE Call
  <2>1. PICK i \in Indices, fragment \in Fragments :
            /\ IF i \in CallsOf(agg) THEN sent' = sent ELSE sent' = Append(sent, "call")
            /\ agg' = AddToolCall(agg, i, fragment, Len(sent) + 1)
    BY <1>6 DEF Call
  <2>2. sent' = IF i \in CallsOf(agg) THEN sent ELSE Append(sent, "call")
    BY <2>1
  <2>3. signed' = signed
    BY <1>6 DEF Call
  <2> QED BY <2>1, <2>2, <2>3, CallOrdered
<1>7. CASE LegacyCall
  <2>1. PICK fragment \in Fragments : agg' = AddFunctionCall(agg, fragment, Len(sent) + 1)
    BY <1>7 DEF LegacyCall
  <2>2. /\ agg' \in Aggregates
        /\ agg'.signature = agg.signature /\ agg'.tools = agg.tools
        /\ agg'.thinking = agg.thinking /\ agg'.text = agg.text
        /\ agg'.attached = agg.attached /\ agg'.refusal = agg.refusal
        /\ agg'.blocks = agg.blocks
    <3>1. Len(sent) + 1 \in Nat
      BY DEF Ordered
    <3> QED BY <1>0, <2>1, <3>1, FunctionCallAdded
  <2>3. "function_call" \in Members
    BY DEF Members
  <2>4. signed' = signed /\ (sent' = sent \/ sent' = Append(sent, "function_call"))
    BY <1>7 DEF LegacyCall
  <2> QED BY <2>2, <2>3, <2>4, OrderedKept
<1>8. CASE FinishReason
  <2>1. PICK reason \in {"stop", "length", "tool_calls", "content_filter", "other"} :
            agg' = [agg EXCEPT !.reason = reason]
    BY <1>8 DEF FinishReason
  <2>2. /\ agg' \in Aggregates
        /\ agg'.signature = agg.signature /\ agg'.tools = agg.tools
        /\ agg'.thinking = agg.thinking /\ agg'.text = agg.text
        /\ agg'.attached = agg.attached /\ agg'.refusal = agg.refusal
        /\ agg'.blocks = agg.blocks
    BY <1>0, <2>1 DEF Aggregates
  <2> QED BY <1>8, <2>2, OrderedKept DEF FinishReason
<1>9. CASE ErrorEvent
  <2>1. /\ agg' \in Aggregates
        /\ agg'.signature = agg.signature /\ agg'.tools = agg.tools
        /\ agg'.thinking = agg.thinking /\ agg'.text = agg.text
        /\ agg'.attached = agg.attached /\ agg'.refusal = agg.refusal
        /\ agg'.blocks = agg.blocks
    BY <1>0, <1>9 DEF ErrorEvent, Aggregates
  <2> QED BY <1>9, <2>1, OrderedKept DEF ErrorEvent
<1>10. CASE End
  BY <1>10 DEF End
<1>11. CASE UNCHANGED vars
  BY <1>11 DEF vars
<1> QED BY <1>1, <1>2, <1>3, <1>4, <1>5, <1>6, <1>7, <1>8, <1>9, <1>10, <1>11 DEF Next

(* Whatever the events, the aggregate has what they brought, and when they  *)
(* came in the order of a message its blocks are laid out like one.         *)
THEOREM AggregateIsLaidOut == Spec => []JsonInvariant
<1> QED BY JsonInit, JsonStep, PTL DEF Spec

(* The aggregate of an answer whose events come in the order of a message   *)
(* is converted as that message is: transform_chat_json_response makes the  *)
(* same of the blocks and of the members.                                   *)
THEOREM JsonAlwaysAgrees == Spec => []JsonAgrees
<1>1. JsonInvariant => JsonAgrees
  <2> SUFFICES ASSUME JsonInvariant, agg.reason # "", InJsonOrder, LegacyAlone
               PROVE  Joined(Json) = Joined(Buffered)
    BY DEF JsonAgrees
  <2>1. Buffered = Transformed(agg, conv.omit)
    BY DEF Buffered, Aggregated
  <2>2. Sorted(agg, sent)
    BY DEF InJsonOrder, Sorted
  <2>3. HasLegacy(agg) => agg.blocks = <<>>
    BY DEF LegacyAlone
  <2>4. Json = Transformed([agg EXCEPT !.blocks = <<>>, !.signature = signed], conv.omit)
    BY DEF Json
  <2>5. Ordered(agg, sent, signed)
    BY DEF JsonInvariant
  <2> DEFINE omit == conv.omit
  <2>6. Joined(Transformed([agg EXCEPT !.blocks = <<>>, !.signature = signed], omit))
            = Joined(Transformed(agg, omit))
    <3> HIDE DEF omit
    <3> QED BY <2>2, <2>3, <2>5, SameMessage
  <2> QED BY <2>1, <2>4, <2>6
<1> QED BY <1>1, AggregateIsLaidOut, PTL

-----------------------------------------------------------------------------
(* Assembled: what the fold over the frames makes of them.                  *)

\* Block, the step of the fold.
AssembleStep(content, f) ==
    LET last == Len(content)
    IN  CASE f.type = "start" -> Append(content, Shows(f.kind, <<>>, "none", <<>>))
          [] f.type = "delta" -> [content EXCEPT ![last].pieces = @ \o f.pieces]
          [] f.type = "signature" ->
               [content EXCEPT ![last].signature = f.kind, ![last].carries = f.pieces]
          [] OTHER -> content

\* The subsets over which the fold goes, of the first n frames.
FoldsFrames(it, seq, n) ==
    it = [s \in SUBSET (1..n) |->
             IF s = {} THEN <<>> ELSE AssembleStep(it[s \ {Max(s)}], seq[Max(s)])]

\* FoldLeft chooses a function over sets of positions: there is one.
LEMMA FramesFoldExists ==
    ASSUME NEW N \in Nat, NEW seq
    PROVE  \E it : FoldsFrames(it, seq, N)
<1> DEFINE T == {n \in Nat : \E it : FoldsFrames(it, seq, n)}
<1>1. 0 \in T
  <2> DEFINE it == [s \in SUBSET (1..0) |-> <<>>]
  <2>1. \A s \in SUBSET (1..0) : s = {}
    OBVIOUS
  <2>2. FoldsFrames(it, seq, 0)
    BY <2>1 DEF FoldsFrames
  <2> QED BY <2>2
<1>2. ASSUME NEW n \in 0..N, n \in T PROVE n + 1 \in T
  <2>1. PICK it : FoldsFrames(it, seq, n)
    BY <1>2
  <2> DEFINE S == SUBSET (1..(n + 1))
             h == [s \in S |-> IF n + 1 \in s THEN AssembleStep(it[s \ {n + 1}], seq[n + 1]) ELSE it[s]]
  <2>2. n + 1 \in Nat /\ n \in Nat
    OBVIOUS
  <2>3. ASSUME NEW s \in S
        PROVE  h[s] = IF s = {} THEN <<>> ELSE AssembleStep(h[s \ {Max(s)}], seq[Max(s)])
    <3>1. CASE n + 1 \in s
      <4>1. s \subseteq 1..(n + 1) /\ s # {}
        BY <3>1
      <4>2. Max(s) \in s /\ \A y \in s : Max(s) >= y
        BY <2>2, <4>1, GreatestOf
      <4>3. Max(s) \in 1..(n + 1) /\ Max(s) >= n + 1
        BY <3>1, <4>1, <4>2
      <4>4. Max(s) = n + 1
        <5> DEFINE x == Max(s)
        <5> HIDE DEF x
        <5>1. x \in 1..(n + 1) /\ x >= n + 1
          BY <4>3 DEF x
        <5>2. x = n + 1
          BY <5>1, <2>2
        <5> QED BY <5>2 DEF x
      <4>5. s \ {n + 1} \in S /\ n + 1 \notin s \ {n + 1}
        OBVIOUS
      <4>6. h[s \ {n + 1}] = it[s \ {n + 1}]
        BY <4>5
      <4>7. h[s] = AssembleStep(it[s \ {n + 1}], seq[n + 1])
        BY <3>1
      <4> QED BY <4>1, <4>4, <4>6, <4>7
    <3>2. CASE n + 1 \notin s /\ s # {}
      <4>1. s \in SUBSET (1..n)
        BY <2>2, <3>2
      <4>2. Max(s) \in s
        BY <2>2, <4>1, <3>2, GreatestOf
      <4>3. it[s] = AssembleStep(it[s \ {Max(s)}], seq[Max(s)])
        BY <2>1, <3>2, <4>1 DEF FoldsFrames
      <4>4. s \ {Max(s)} \in S /\ n + 1 \notin s \ {Max(s)}
        BY <3>2
      <4>5. h[s \ {Max(s)}] = it[s \ {Max(s)}] /\ h[s] = it[s]
        BY <3>2, <4>4
      <4> QED BY <3>2, <4>3, <4>5
    <3>3. CASE s = {}
      <4>1. {} \in SUBSET (1..n) /\ n + 1 \notin s
        BY <3>3
      <4>2. it[{}] = <<>>
        BY <2>1, <4>1 DEF FoldsFrames
      <4> QED BY <3>3, <4>1, <4>2
    <3> QED BY <3>1, <3>2, <3>3
  <2> DEFINE k == [s \in S |-> IF s = {} THEN <<>> ELSE AssembleStep(h[s \ {Max(s)}], seq[Max(s)])]
  <2>4. h = k
    <3>1. \A s \in S : h[s] = k[s]
      BY <2>3
    <3>2. DOMAIN h = S /\ DOMAIN k = S /\ h = [s \in S |-> h[s]] /\ k = [s \in S |-> k[s]]
      OBVIOUS
    <3> HIDE DEF h, k
    <3> QED BY <3>1, <3>2
  <2>5. FoldsFrames(h, seq, n + 1)
    <3> HIDE DEF h
    <3> QED BY <2>4 DEF FoldsFrames, S
  <2> HIDE DEF h
  <2> QED BY <2>2, <2>5
<1>3. N \in 0..N
  OBVIOUS
<1> HIDE DEF T
<1>4. 0..N \subseteq T
  BY <1>1, <1>2, UpTo
<1> QED BY <1>3, <1>4 DEF T

\* The blocks behind the first n frames.
RunFrames(f, seq) ==
    f[0] = <<>> /\ \A n \in 1..Len(seq) : f[n] = AssembleStep(f[n - 1], seq[n])

\* The fold of Assembled goes through the frames one after the other.
LEMMA AssembledRun ==
    ASSUME NEW S, NEW seq \in Seq(S)
    PROVE  \E f : RunFrames(f, seq) /\ Assembled(seq) = f[Len(seq)]
<1> DEFINE N == Len(seq)
           it == CHOOSE it : FoldsFrames(it, seq, N)
           f == [n \in 0..N |-> it[1..n]]
<1>1. N \in Nat /\ DOMAIN seq = 1..N
  OBVIOUS
<1>2. Assembled(seq) = it[1..N]
  <2>1. Assembled(seq) = FoldLeft(AssembleStep, <<>>, seq)
    BY DEF Assembled, AssembleStep
  <2> QED BY <1>1, <2>1 DEF FoldLeft, MapThenFoldSet, FoldsFrames
<1>3. FoldsFrames(it, seq, N)
  <2>1. \E x : FoldsFrames(x, seq, N)
    BY <1>1, FramesFoldExists
  <2> QED BY <2>1
<1> HIDE DEF it
<1>4. f[0] = <<>>
  <2>1. {} \in SUBSET (1..N) /\ 1..0 = {}
    OBVIOUS
  <2>2. it[{}] = <<>>
    BY <1>3, <2>1 DEF FoldsFrames
  <2> QED BY <1>1, <2>1, <2>2
<1>5. ASSUME NEW n \in 1..N PROVE f[n] = AssembleStep(f[n - 1], seq[n])
  <2>1. 1..n \in SUBSET (1..N) /\ 1..n # {} /\ n \in Nat
    <3> HIDE DEF N, f
    <3>1. n \in Nat /\ 1 <= n /\ n <= N
      BY <1>1
    <3> QED BY <1>1, <3>1
  <2>2. Max(1..n) \in 1..n /\ \A y \in 1..n : Max(1..n) >= y
    BY <2>1, GreatestOf
  <2>3. Max(1..n) = n
    <3> DEFINE x == Max(1..n)
    <3>1. x \in 1..n /\ x >= n
      BY <2>1, <2>2
    <3> HIDE DEF x
    <3>2. x = n
      BY <2>1, <3>1
    <3> QED BY <3>2 DEF x
  <2>4. (1..n) \ {n} = 1..(n - 1)
    BY <2>1
  <2>5. it[1..n] = AssembleStep(it[1..(n - 1)], seq[n])
    BY <1>3, <2>1, <2>3, <2>4 DEF FoldsFrames
  <2>6. n \in 0..N /\ n - 1 \in 0..N
    BY <1>1
  <2> QED BY <2>5, <2>6
<1>6. f[N] = it[1..N]
  <2> HIDE DEF N
  <2>1. N \in 0..N
    BY <1>1
  <2> QED BY <2>1
<1> HIDE DEF f
<1> QED BY <1>2, <1>4, <1>5, <1>6 DEF RunFrames

\* No frames, no blocks.
LEMMA AssembledEmpty == Assembled(<<>>) = <<>>
<1>1. <<>> \in Seq({}) /\ Len(<<>>) = 0
  OBVIOUS
<1>2. PICK f : RunFrames(f, <<>>) /\ Assembled(<<>>) = f[Len(<<>>)]
  BY <1>1, AssembledRun
<1> QED BY <1>1, <1>2 DEF RunFrames

\* One more frame is one more step of the fold.
LEMMA AssembledAppend ==
    ASSUME NEW S, NEW seq \in Seq(S), NEW x \in S
    PROVE  Assembled(Append(seq, x)) = AssembleStep(Assembled(seq), x)
<1> DEFINE N == Len(seq)
           longer == Append(seq, x)
<1>1. /\ N \in Nat /\ longer \in Seq(S) /\ Len(longer) = N + 1 /\ longer[N + 1] = x
      /\ \A n \in 1..N : longer[n] = seq[n]
  OBVIOUS
<1>2. PICK f : RunFrames(f, seq) /\ Assembled(seq) = f[N]
  BY AssembledRun
<1>3. PICK g : RunFrames(g, longer) /\ Assembled(longer) = g[N + 1]
  BY <1>1, AssembledRun
<1>4. f[0] = g[0] /\ \A n \in 1..N : f[n] = AssembleStep(f[n - 1], seq[n]) /\ g[n] = AssembleStep(g[n - 1], seq[n])
  <2> HIDE DEF longer
  <2> QED BY <1>1, <1>2, <1>3 DEF RunFrames
<1>5. g[N + 1] = AssembleStep(g[N], x)
  <2>1. N + 1 \in 1..(N + 1) /\ (N + 1) - 1 = N
    BY <1>1
  <2> HIDE DEF longer, N
  <2> QED BY <1>1, <1>3, <2>1 DEF RunFrames
<1> HIDE DEF N, longer
<1> DEFINE T == {n \in Nat : f[n] = g[n]}
<1>6. 0 \in T
  BY <1>4
<1>7. ASSUME NEW n \in 0..N, n \in T, n # N PROVE n + 1 \in T
  <2>1. n + 1 \in 1..N /\ (n + 1) - 1 = n /\ n + 1 \in Nat
    BY <1>1, <1>7
  <2>2. f[n + 1] = g[n + 1]
    BY <1>4, <1>7, <2>1
  <2> QED BY <2>1, <2>2
<1>8. N \in T
  <2> HIDE DEF T
  <2>1. 0..N \subseteq T
    BY <1>1, <1>6, <1>7, UpTo
  <2>2. N \in 0..N
    BY <1>1
  <2> QED BY <2>1, <2>2
<1> QED BY <1>2, <1>3, <1>5, <1>8 DEF longer

-----------------------------------------------------------------------------
(* What a client that has been sent the frames of a converter shows, once   *)
(* the open block is closed.                                                *)

Emitted ==
    [type : {"message_start", "start", "delta", "signature", "stop", "message_delta",
             "message_stop"},
     kind : Kinds \cup Signs \cup {"end_turn", "max_tokens", "tool_use", "refusal"},
     index : Nat, pieces : Seq(Nat)]

Converters ==
    [omit : BOOLEAN, started : BOOLEAN, next : Nat,
     open : {"none", "text", "thinking"}, at : Nat,
     replay : Seq(Nat), signature : Signatures,
     tools : [Indices -> ToolStates], deferred : Seq(Placements), deferring : BOOLEAN,
     reason : {"", "stop", "length", "tool_calls", "content_filter", "other"},
     refused : BOOLEAN, semantic : BOOLEAN,
     frames : Seq(Emitted), failed : BOOLEAN]

\* The fields that no frame depends on.
Kept(s, t) ==
    /\ t \in Converters
    /\ t.omit = s.omit /\ t.tools = s.tools /\ t.deferred = s.deferred
    /\ t.deferring = s.deferring /\ t.reason = s.reason /\ t.refused = s.refused
    /\ t.semantic = s.semantic /\ t.failed = s.failed

\* The fields of the open block.
Block(s, t) == t.open = s.open /\ t.replay = s.replay /\ t.signature = s.signature

Replaced(X, b) == [X EXCEPT ![Len(X)] = b]

\* A client shows X once the open block is closed.
View(s, X) ==
    /\ X \in Seq(ShownBlocks)
    /\ s.open # "thinking" =>
           s.replay = <<>> /\ s.signature = "none" /\ Assembled(s.frames) = X
    /\ s.open = "text" => X # <<>> /\ \E q \in Seq(Nat) : X[Len(X)] = TextOf(q)
    /\ s.open = "thinking" =>
           /\ X # <<>> /\ X[Len(X)] = ThinkingOf(s.replay, s.signature, s.omit)
           /\ Assembled(s.frames)
                  = Replaced(X, Shows("thinking", IF s.omit THEN <<>> ELSE s.replay, "none", <<>>))

LastIs(S, X, b, Z) ==
    /\ Z \in Seq(S) /\ Z # <<>> /\ Len(Z) = Len(X) /\ Z[Len(X)] = b
    /\ \A n \in 1..Len(X) : n # Len(X) => Z[n] = X[n]

\* The last block replaced.
LEMMA Replacing ==
    ASSUME NEW S, NEW X \in Seq(S), X # <<>>, NEW b \in S
    PROVE  LastIs(S, X, b, Replaced(X, b))
<1> DEFINE N == Len(X)
           Y == Replaced(X, b)
<1>1. N \in Nat /\ N \in 1..N /\ DOMAIN X = 1..N /\ N # 0
  OBVIOUS
<1>2. /\ Y \in Seq(S) /\ Len(Y) = N /\ Y[N] = b
      /\ \A n \in 1..N : n # N => Y[n] = X[n]
  BY DEF Replaced
<1> HIDE DEF Y
<1>4. Y # <<>>
  <2>1. Len(<<>>) = 0
    OBVIOUS
  <2> QED BY <1>1, <1>2, <2>1
<1> QED BY <1>2, <1>4 DEF LastIs, Y

\* ... determines the rest.
LEMMA LastIsOnce ==
    ASSUME NEW S, NEW X \in Seq(S), X # <<>>, NEW b, NEW Y, NEW Z,
           LastIs(S, X, b, Y), LastIs(S, X, b, Z)
    PROVE  Y = Z
<1>1. Len(X) \in Nat
  OBVIOUS
<1>2. Y \in Seq(S) /\ Z \in Seq(S) /\ Len(Y) = Len(Z) /\ \A n \in 1..Len(Y) : Y[n] = Z[n]
  BY <1>1 DEF LastIs
<1> QED BY <1>2, SameSeq

\* ... twice, and with what it was.
LEMMA ReplacedTwice ==
    ASSUME NEW S, NEW X \in Seq(S), X # <<>>, NEW b \in S, NEW c \in S
    PROVE  /\ Replaced(Replaced(X, b), c) = Replaced(X, c)
           /\ Replaced(X, X[Len(X)]) = X
<1> DEFINE Y == Replaced(X, b)
           Z == Replaced(Y, c)
           W == Replaced(X, c)
<1>1. LastIs(S, X, b, Y) /\ LastIs(S, X, c, W)
  BY Replacing
<1> HIDE DEF Y, W
<1>2. Y \in Seq(S) /\ Y # <<>>
  BY <1>1 DEF LastIs
<1>3. LastIs(S, Y, c, Z)
  BY <1>2, Replacing
<1> HIDE DEF Z
<1>4. LastIs(S, X, c, Z)
  BY <1>1, <1>3 DEF LastIs
<1>5. Z = W
  BY <1>1, <1>4, LastIsOnce
<1>6. Replaced(X, X[Len(X)]) = X
  BY DEF Replaced
<1> QED BY <1>5, <1>6 DEF Z, Y, W

\* A block behind others replaced.
LEMMA ReplacedBehind ==
    ASSUME NEW S, NEW X \in Seq(S), NEW b \in S, NEW c \in S
    PROVE  Replaced(Append(X, b), c) = Append(X, c)
<1> DEFINE Y == Append(X, b)
           Z == Replaced(Y, c)
           W == Append(X, c)
           N == Len(X)
<1>1. /\ Y \in Seq(S) /\ Len(Y) = N + 1 /\ Y # <<>> /\ W \in Seq(S) /\ Len(W) = N + 1
      /\ N \in Nat /\ W[N + 1] = c /\ W # <<>>
      /\ \A n \in 1..(N + 1) : n # N + 1 => W[n] = Y[n]
  OBVIOUS
<1> HIDE DEF Y, W, N
<1>2. LastIs(S, Y, c, Z)
  BY <1>1, Replacing
<1>3. LastIs(S, Y, c, W)
  BY <1>1 DEF LastIs
<1>4. Z = W
  BY <1>1, <1>2, <1>3, LastIsOnce
<1> QED BY <1>4 DEF Z, Y, W

\* A frame is sent.
LEMMA FramePushed ==
    ASSUME NEW s \in Converters, NEW f \in Emitted
    PROVE  /\ Kept(s, Push(s, f)) /\ Block(s, Push(s, f))
           /\ Push(s, f).started = s.started /\ Push(s, f).next = s.next /\ Push(s, f).at = s.at
           /\ Push(s, f).frames = Append(s.frames, f)
           /\ Assembled(Push(s, f).frames) = AssembleStep(Assembled(s.frames), f)
<1>1. s.frames \in Seq(Emitted)
  BY DEF Converters
<1>2. Append(s.frames, f) \in Seq(Emitted)
  BY <1>1
<1>3. Push(s, f) = [s EXCEPT !.frames = Append(s.frames, f)]
  BY DEF Push
<1>4. Assembled(Append(s.frames, f)) = AssembleStep(Assembled(s.frames), f)
  BY <1>1, AssembledAppend
<1>5. Push(s, f).frames = Append(s.frames, f)
  BY <1>3 DEF Converters
<1> QED BY <1>2, <1>3, <1>4, <1>5 DEF Converters, Kept, Block

LEMMA FrameType ==
    ASSUME NEW type \in {"message_start", "start", "delta", "signature", "stop",
                         "message_delta", "message_stop"},
           NEW kind \in Kinds \cup Signs \cup {"end_turn", "max_tokens", "tool_use", "refusal"},
           NEW index \in Nat, NEW pieces \in Seq(Nat)
    PROVE  /\ Frame(type, kind, index, pieces) \in Emitted
           /\ Frame(type, kind, index, pieces).type = type
           /\ Frame(type, kind, index, pieces).kind = kind
           /\ Frame(type, kind, index, pieces).pieces = pieces
  BY DEF Frame, Emitted

LEMMA ShowsType ==
    ASSUME NEW kind \in Kinds, NEW p \in Seq(Nat), NEW sg \in Signs, NEW q \in Seq(Nat)
    PROVE  /\ Shows(kind, p, sg, q) \in ShownBlocks
           /\ Shows(kind, p, sg, q).kind = kind /\ Shows(kind, p, sg, q).pieces = p
BY DEF Shows, ShownBlocks

\* What a frame changes.
LEMMA Steps ==
    ASSUME NEW c, NEW f
    PROVE  /\ f.type = "start" => AssembleStep(c, f) = Append(c, Shows(f.kind, <<>>, "none", <<>>))
           /\ f.type \in {"message_start", "stop", "message_delta", "message_stop"} =>
                  AssembleStep(c, f) = c
           /\ c \in Seq(ShownBlocks) /\ c # <<>> /\ f.type = "delta" =>
                  AssembleStep(c, f)
                      = Replaced(c, [c[Len(c)] EXCEPT !.pieces = c[Len(c)].pieces \o f.pieces])
           /\ c \in Seq(ShownBlocks) /\ c # <<>> /\ f.type = "signature" =>
                  AssembleStep(c, f)
                      = Replaced(c, [c[Len(c)] EXCEPT !.signature = f.kind, !.carries = f.pieces])
<1>1. f.type = "start" => AssembleStep(c, f) = Append(c, Shows(f.kind, <<>>, "none", <<>>))
  BY DEF AssembleStep
<1>2. f.type \in {"message_start", "stop", "message_delta", "message_stop"} => AssembleStep(c, f) = c
  BY DEF AssembleStep
<1>3. ASSUME c \in Seq(ShownBlocks), c # <<>>, f.type = "delta"
      PROVE  AssembleStep(c, f)
                 = Replaced(c, [c[Len(c)] EXCEPT !.pieces = c[Len(c)].pieces \o f.pieces])
  <2> DEFINE n == Len(c)
             b == [c[n] EXCEPT !.pieces = c[n].pieces \o f.pieces]
  <2>1. AssembleStep(c, f) = [c EXCEPT ![n].pieces = c[n].pieces \o f.pieces]
    BY <1>3 DEF AssembleStep
  <2>2. [c EXCEPT ![n].pieces = c[n].pieces \o f.pieces] = [c EXCEPT ![n] = b]
    BY <1>3
  <2> QED BY <2>1, <2>2 DEF Replaced
<1>4. ASSUME c \in Seq(ShownBlocks), c # <<>>, f.type = "signature"
      PROVE  AssembleStep(c, f)
                 = Replaced(c, [c[Len(c)] EXCEPT !.signature = f.kind, !.carries = f.pieces])
  <2> DEFINE n == Len(c)
             b == [c[n] EXCEPT !.signature = f.kind, !.carries = f.pieces]
  <2>1. AssembleStep(c, f) = [c EXCEPT ![n].signature = f.kind, ![n].carries = f.pieces]
    BY <1>4 DEF AssembleStep
  <2>2. [c EXCEPT ![n].signature = f.kind, ![n].carries = f.pieces] = [c EXCEPT ![n] = b]
    BY <1>4
  <2> QED BY <2>1, <2>2 DEF Replaced
<1> QED BY <1>1, <1>2, <1>3, <1>4

LEMMA ConverterType ==
    ASSUME NEW s \in Converters
    PROVE  /\ s.open \in {"none", "text", "thinking"} /\ s.at \in Nat /\ s.next \in Nat
           /\ s.replay \in Seq(Nat) /\ s.signature \in Signatures /\ s.omit \in BOOLEAN
           /\ s.frames \in Seq(Emitted)
BY DEF Converters

\* The start of the message shows nothing.
LEMMA StartShows ==
    ASSUME NEW s \in Converters, NEW X, View(s, X)
    PROVE  LET t == EnsureStarted(s)
           IN  Kept(s, t) /\ Block(s, t) /\ View(t, X) /\ t.started
<1> DEFINE u == [s EXCEPT !.started = TRUE]
           f == Frame("message_start", "none", 0, <<>>)
           t == EnsureStarted(s)
<1>1. CASE s.started
  BY <1>1 DEF EnsureStarted, Kept, Block
<1>2. CASE ~s.started
  <2>1. f \in Emitted /\ f.type = "message_start"
    <3>1. <<>> \in Seq(Nat)
      OBVIOUS
    <3> QED BY <3>1 DEF Frame, Emitted, Signs
  <2>2. /\ Kept(s, u) /\ Block(s, u) /\ u.frames = s.frames /\ u.started
    BY DEF Converters, Kept, Block
  <2>3. t = Push(u, f)
    BY <1>2 DEF EnsureStarted
  <2> HIDE DEF t, u, f
  <2>4. /\ Kept(u, t) /\ Block(u, t) /\ t.started = u.started
        /\ Assembled(t.frames) = AssembleStep(Assembled(u.frames), f)
    BY <2>1, <2>2, <2>3, FramePushed DEF Kept
  <2>5. Assembled(t.frames) = Assembled(s.frames)
    BY <2>1, <2>2, <2>4, Steps
  <2>6. Kept(s, t) /\ Block(s, t) /\ t.started
    BY <2>2, <2>4 DEF Kept, Block
  <2>7. View(t, X)
    BY <2>5, <2>6 DEF View, Kept, Block
  <2> QED BY <2>6, <2>7 DEF t
<1> QED BY <1>1, <1>2

\* Closing a block changes nothing that is shown: a signature carries what the
\* client has not seen of the reasoning.
LEMMA CloseShows ==
    ASSUME NEW s \in Converters, NEW X, View(s, X)
    PROVE  LET t == CloseOpen(s)
           IN  Kept(s, t) /\ View(t, X) /\ t.open = "none" /\ t.started = s.started
<1> DEFINE t == CloseOpen(s)
           stop == Frame("stop", s.open, s.at, <<>>)
<1>0. X \in Seq(ShownBlocks)
  BY DEF View
<1>1. CASE s.open = "none"
  BY <1>1 DEF CloseOpen, Kept
<1>2. stop \in Emitted /\ stop.type = "stop"
  <2>1. <<>> \in Seq(Nat)
    OBVIOUS
  <2> QED BY <2>1, ConverterType DEF Frame, Emitted, Signs, Kinds
<1>3. CASE s.open = "text"
  <2> DEFINE u == [s EXCEPT !.open = "none"]
  <2>1. /\ Kept(s, u) /\ u.frames = s.frames /\ u.started = s.started /\ u.open = "none"
        /\ u.replay = s.replay /\ u.signature = s.signature
    BY DEF Converters, Kept
  <2>2. t = Push(u, stop)
    BY <1>3 DEF CloseOpen
  <2> HIDE DEF t, u, stop
  <2>3. /\ Kept(u, t) /\ Block(u, t) /\ t.started = u.started
        /\ Assembled(t.frames) = AssembleStep(Assembled(u.frames), stop)
    BY <1>2, <2>1, <2>2, FramePushed DEF Kept
  <2>4. Assembled(t.frames) = X
    BY <1>2, <1>3, <2>1, <2>3, Steps DEF View
  <2>5. Kept(s, t) /\ t.started = s.started /\ t.open = "none" /\ t.replay = s.replay
        /\ t.signature = s.signature
    BY <2>1, <2>3 DEF Kept, Block
  <2>6. View(t, X)
    BY <1>0, <1>3, <2>4, <2>5 DEF View
  <2> QED BY <2>5, <2>6 DEF t
<1>4. CASE s.open = "thinking"
  <2> DEFINE f == SignatureOf(s)
             v == Push(s, f)
             u == [v EXCEPT !.signature = "none", !.replay = <<>>, !.open = "none"]
             encoded == s.signature = "none" \/ (s.omit /\ s.replay # <<>> /\ s.signature # "router")
             shown == IF s.omit THEN <<>> ELSE s.replay
             b == Shows("thinking", shown, "none", <<>>)
             c == Replaced(X, b)
             N == Len(X)
  <2>0. <<>> \in Seq(Nat)
    OBVIOUS
  <2>1. /\ f \in Emitted /\ f.type = "signature"
        /\ f.kind = IF encoded THEN "encoded" ELSE s.signature
        /\ f.pieces = IF encoded THEN s.replay ELSE <<>>
    <3>1. s.signature \in Signs
      BY ConverterType DEF Signs, Signatures
    <3> QED BY <2>0, <3>1, ConverterType DEF SignatureOf, Frame, Emitted, Signs
  <2>2. b \in ShownBlocks
    <3>1. "thinking" \in Kinds /\ "none" \in Signs /\ shown \in Seq(Nat)
      BY <2>0, ConverterType DEF Kinds, Signs
    <3> QED BY <2>0, <3>1, ShowsType
  <2>3. X # <<>> /\ X[N] = ThinkingOf(s.replay, s.signature, s.omit) /\ Assembled(s.frames) = c
    BY <1>4 DEF View
  <2>4. [b EXCEPT !.signature = f.kind, !.carries = f.pieces] = X[N]
    <3>1. X[N] = Shows("thinking", shown, IF encoded THEN "encoded" ELSE s.signature,
                       IF encoded THEN s.replay ELSE <<>>)
      BY <2>3 DEF ThinkingOf
    <3> DEFINE k == f.kind
               q == f.pieces
    <3>2. X[N] = Shows("thinking", shown, k, q)
      BY <2>1, <3>1
    <3> HIDE DEF k, q, shown
    <3>3. [b EXCEPT !.signature = k, !.carries = q] = Shows("thinking", shown, k, q)
      <4> DEFINE x == [b EXCEPT !.signature = k]
                 y == [x EXCEPT !.carries = q]
      <4>1. b = [kind |-> "thinking", pieces |-> shown, signature |-> "none", carries |-> <<>>]
        BY DEF Shows
      <4> HIDE DEF b
      <4>2. x = [kind |-> "thinking", pieces |-> shown, signature |-> k, carries |-> <<>>]
        BY <4>1
      <4> HIDE DEF x
      <4>3. y = [kind |-> "thinking", pieces |-> shown, signature |-> k, carries |-> q]
        BY <4>2
      <4> QED BY <4>3 DEF x, Shows
    <3> QED BY <3>2, <3>3 DEF k, q
  <2> HIDE DEF b
  <2>5. /\ c \in Seq(ShownBlocks) /\ c # <<>> /\ c[Len(c)] = b
        /\ Replaced(c, X[N]) = X
    <3>1. LastIs(ShownBlocks, X, b, c)
      BY <1>0, <2>2, <2>3, Replacing
    <3>2. X[N] \in ShownBlocks
      <4>1. N \in 1..N
        BY <1>0, <2>3
      <4> QED BY <1>0, <4>1
    <3>3. Replaced(c, X[N]) = Replaced(X, X[N]) /\ Replaced(X, X[N]) = X
      BY <1>0, <2>2, <2>3, <3>2, ReplacedTwice
    <3> HIDE DEF c
    <3> QED BY <3>1, <3>3 DEF LastIs
  <2> HIDE DEF c, f
  <2>6. /\ Kept(s, v) /\ Block(s, v) /\ v.started = s.started
        /\ Assembled(v.frames) = AssembleStep(c, f)
    BY <2>1, <2>3, FramePushed
  <2>7. Assembled(v.frames) = X
    <3>1. AssembleStep(c, f) = Replaced(c, [c[Len(c)] EXCEPT !.signature = f.kind, !.carries = f.pieces])
      BY <2>1, <2>5, Steps
    <3> QED BY <2>4, <2>5, <2>6, <3>1
  <2>8. t = Push(u, stop)
    BY <1>4 DEF CloseOpen, f
  <2>9. /\ Kept(s, u) /\ u.frames = v.frames /\ u.started = s.started /\ u.open = "none"
        /\ u.replay = <<>> /\ u.signature = "none"
    <3>1. v \in Converters
      BY <2>6 DEF Kept
    <3> HIDE DEF v
    <3>2. "none" \in Signatures
      BY DEF Signatures
    <3>3. Kept(v, u) /\ u.frames = v.frames /\ u.started = v.started /\ u.open = "none"
          /\ u.replay = <<>> /\ u.signature = "none"
      BY <2>0, <3>1, <3>2 DEF Converters, Kept
    <3> QED BY <2>6, <3>3 DEF Kept
  <2> HIDE DEF t, u, v, stop
  <2>10. /\ Kept(u, t) /\ Block(u, t) /\ t.started = u.started
         /\ Assembled(t.frames) = AssembleStep(Assembled(u.frames), stop)
    BY <1>2, <2>8, <2>9, FramePushed DEF Kept
  <2>11. Assembled(t.frames) = X
    BY <1>2, <2>7, <2>9, <2>10, Steps
  <2>12. Kept(s, t) /\ t.started = s.started /\ t.open = "none" /\ t.replay = <<>>
         /\ t.signature = "none"
    BY <2>9, <2>10 DEF Kept, Block
  <2>13. View(t, X)
    BY <1>0, <2>11, <2>12 DEF View
  <2> QED BY <2>12, <2>13 DEF t
<1> QED BY <1>1, <1>3, <1>4, ConverterType

Extended(b, p) == [b EXCEPT !.pieces = b.pieces \o p]

\* More of a new block.
LEMMA ExtendedNew ==
    ASSUME NEW kind \in Kinds, NEW p \in Seq(Nat), NEW q \in Seq(Nat)
    PROVE  Extended(Shows(kind, p, "none", <<>>), q) = Shows(kind, p \o q, "none", <<>>)
<1> DEFINE b == Shows(kind, p, "none", <<>>)
           r == p \o q
           x == [b EXCEPT !.pieces = r]
<1>1. b = [kind |-> kind, pieces |-> p, signature |-> "none", carries |-> <<>>]
  BY DEF Shows
<1>2. b.pieces = p
  BY <1>1
<1> HIDE DEF r, b
<1>3. x = [kind |-> kind, pieces |-> r, signature |-> "none", carries |-> <<>>]
  BY <1>1
<1>4. Extended(b, q) = x
  BY <1>2 DEF Extended, r
<1> QED BY <1>3, <1>4 DEF Shows, b, r

\* A block is started.
LEMMA BlockStarted ==
    ASSUME NEW s \in Converters, NEW kind \in Kinds
    PROVE  LET t == StartBlock(s, kind)
           IN  /\ Kept(s, t) /\ Block(s, t)
               /\ Assembled(t.frames) = Append(Assembled(s.frames), Shows(kind, <<>>, "none", <<>>))
<1> DEFINE u == [s EXCEPT !.next = s.next + 1, !.at = s.next]
           f == Frame("start", kind, s.next, <<>>)
           t == StartBlock(s, kind)
<1>1. s.next \in Nat /\ s.next + 1 \in Nat /\ <<>> \in Seq(Nat)
  BY ConverterType
<1>2. Kept(s, u) /\ Block(s, u) /\ u.frames = s.frames
  BY <1>1 DEF Converters, Kept, Block
<1>3. f \in Emitted /\ f.type = "start" /\ f.kind = kind
  BY <1>1 DEF Frame, Emitted
<1>4. t = Push(u, f)
  BY DEF StartBlock
<1> HIDE DEF u, f, t
<1>5. Kept(u, t) /\ Block(u, t) /\ Assembled(t.frames) = AssembleStep(Assembled(u.frames), f)
  BY <1>2, <1>3, <1>4, FramePushed DEF Kept
<1>6. AssembleStep(Assembled(u.frames), f)
          = Append(Assembled(u.frames), Shows(f.kind, <<>>, "none", <<>>))
  BY <1>3, Steps
<1>7. Assembled(t.frames) = Append(Assembled(s.frames), Shows(kind, <<>>, "none", <<>>))
  BY <1>2, <1>3, <1>5, <1>6
<1> QED BY <1>2, <1>5, <1>7 DEF Kept, Block, t

\* A delta extends the last block.
LEMMA DeltaPushed ==
    ASSUME NEW s \in Converters, NEW kind \in Kinds, NEW p \in Seq(Nat),
           Assembled(s.frames) \in Seq(ShownBlocks), Assembled(s.frames) # <<>>
    PROVE  LET t == Push(s, Frame("delta", kind, s.at, p))
               c == Assembled(s.frames)
           IN  /\ Kept(s, t) /\ Block(s, t)
               /\ Assembled(t.frames) = Replaced(c, Extended(c[Len(c)], p))
<1> DEFINE f == Frame("delta", kind, s.at, p)
           t == Push(s, f)
           c == Assembled(s.frames)
<1>1. s.at \in Nat
  BY ConverterType
<1>2. f \in Emitted /\ f.type = "delta" /\ f.pieces = p
  BY <1>1 DEF Frame, Emitted
<1> HIDE DEF f
<1>3. Kept(s, t) /\ Block(s, t) /\ Assembled(t.frames) = AssembleStep(c, f)
  BY <1>2, FramePushed
<1> HIDE DEF t
<1>4. AssembleStep(c, f) = Replaced(c, [c[Len(c)] EXCEPT !.pieces = c[Len(c)].pieces \o f.pieces])
  BY <1>2, Steps
<1>5. AssembleStep(c, f) = Replaced(c, Extended(c[Len(c)], p))
  BY <1>2, <1>4 DEF Extended
<1> QED BY <1>3, <1>5 DEF t, f

\* The first delta of a block.
LEMMA NewBlockShown ==
    ASSUME NEW s \in Converters, NEW X, View(s, X), NEW kind \in Kinds, s.open = "none"
    PROVE  LET t == StartBlock(s, kind)
           IN  /\ Kept(s, t) /\ Block(s, t)
               /\ Assembled(t.frames) = Append(X, Shows(kind, <<>>, "none", <<>>))
               /\ Append(X, Shows(kind, <<>>, "none", <<>>)) \in Seq(ShownBlocks)
               /\ \A u, p : /\ u \in Converters /\ p \in Seq(Nat) /\ u.frames = t.frames
                            => LET v == Push(u, Frame("delta", kind, u.at, p))
                               IN  /\ Kept(u, v) /\ Block(u, v)
                                   /\ Assembled(v.frames) = Append(X, Shows(kind, p, "none", <<>>))
<1> DEFINE t == StartBlock(s, kind)
           b == Shows(kind, <<>>, "none", <<>>)
           c == Append(X, b)
<1>0. "none" \in Signs /\ <<>> \in Seq(Nat)
  BY DEF Signs
<1>1. X \in Seq(ShownBlocks) /\ Assembled(s.frames) = X
  BY DEF View
<1>2. Kept(s, t) /\ Block(s, t) /\ Assembled(t.frames) = c
  BY <1>1, BlockStarted
<1>3. b \in ShownBlocks
  BY <1>0, ShowsType
<1> HIDE DEF t
<1>4. ASSUME NEW u \in Converters, NEW p \in Seq(Nat), u.frames = t.frames
      PROVE  LET v == Push(u, Frame("delta", kind, u.at, p))
             IN  /\ Kept(u, v) /\ Block(u, v)
                 /\ Assembled(v.frames) = Append(X, Shows(kind, p, "none", <<>>))
  <2> DEFINE v == Push(u, Frame("delta", kind, u.at, p))
             d == Shows(kind, p, "none", <<>>)
  <2>1. d \in ShownBlocks
    BY <1>0, ShowsType
  <2>2. Extended(b, p) = d
    <3>1. Extended(b, p) = Shows(kind, <<>> \o p, "none", <<>>)
      BY <1>0, ExtendedNew
    <3>2. <<>> \o p = p
      OBVIOUS
    <3> QED BY <3>1, <3>2
  <2> HIDE DEF b, d
  <2>3. c \in Seq(ShownBlocks) /\ c # <<>> /\ c[Len(c)] = b
    BY <1>1, <1>3
  <2>4. Assembled(u.frames) = c
    BY <1>2, <1>4
  <2> HIDE DEF c
  <2>5. Kept(u, v) /\ Block(u, v) /\ Assembled(v.frames) = Replaced(c, Extended(c[Len(c)], p))
    BY <2>3, <2>4, DeltaPushed
  <2>6. Replaced(c, d) = Append(X, d)
    BY <1>1, <1>3, <2>1, ReplacedBehind DEF c
  <2> QED BY <2>2, <2>3, <2>5, <2>6 DEF d
<1>5. c \in Seq(ShownBlocks)
  <2> HIDE DEF b
  <2> QED BY <1>1, <1>3
<1> QED BY <1>2, <1>4, <1>5 DEF t

\* Text continues a text block or begins one.
LEMMA TextShows ==
    ASSUME NEW s \in Converters, NEW X, View(s, X), ~s.deferring, NEW p \in Seq(Nat)
    PROVE  LET t == EmitText(s, p)
           IN  /\ Kept(s, t) /\ t.open = "text" /\ t.replay = <<>> /\ t.signature = "none"
               /\ s.open # "text" => View(t, Append(X, TextOf(p)))
               /\ \A q \in Seq(Nat) : s.open = "text" /\ X[Len(X)] = TextOf(q)
                                       => View(t, Replaced(X, TextOf(q \o p)))
<1> DEFINE t == EmitText(s, p)
           N == Len(X)
<1>0. X \in Seq(ShownBlocks) /\ "text" \in Kinds
  BY DEF View, Kinds
<1>1. CASE s.open = "text"
  <2>1. PICK q \in Seq(Nat) : X # <<>> /\ X[N] = TextOf(q) /\ Assembled(s.frames) = X
                             /\ s.replay = <<>> /\ s.signature = "none"
    BY <1>1 DEF View
  <2> DEFINE r == q \o p
             b == TextOf(r)
             Y == Replaced(X, b)
  <2>2. t = Push(s, Frame("delta", "text", s.at, p))
    BY <1>1 DEF EmitText, EnsureBlock
  <2> HIDE DEF t
  <2>3. Kept(s, t) /\ Block(s, t) /\ Assembled(t.frames) = Replaced(X, Extended(X[N], p))
    BY <1>0, <2>1, <2>2, DeltaPushed
  <2>4. Extended(X[N], p) = b
    BY <1>0, <2>1, ExtendedNew DEF TextOf
  <2>5. r \in Seq(Nat)
    OBVIOUS
  <2> HIDE DEF r
  <2>50. b \in ShownBlocks
    BY <2>5, TextOfType
  <2> HIDE DEF b
  <2>6. LastIs(ShownBlocks, X, b, Y)
    BY <1>0, <2>1, <2>50, Replacing
  <2> HIDE DEF Y
  <2>7. Y \in Seq(ShownBlocks) /\ Y # <<>> /\ Y[Len(Y)] = b
    BY <2>6 DEF LastIs
  <2>8. t.open = "text" /\ t.replay = <<>> /\ t.signature = "none"
    BY <1>1, <2>1, <2>3 DEF Block
  <2>9. \E x \in Seq(Nat) : Y[Len(Y)] = TextOf(x)
    BY <2>5, <2>7 DEF b
  <2>10. Assembled(t.frames) = Y
    BY <2>3, <2>4 DEF Y
  <2>11. View(t, Y)
    BY <2>7, <2>8, <2>9, <2>10 DEF View
  <2>12. ASSUME NEW x \in Seq(Nat), X[N] = TextOf(x)
         PROVE  View(t, Replaced(X, TextOf(x \o p)))
    <3>1. x = q
      BY <2>1, <2>12, TextOfType
    <3> QED BY <2>11, <3>1 DEF Y, b, r
  <2> QED BY <1>1, <2>3, <2>8, <2>12 DEF t
<1>2. CASE s.open # "text"
  <2> DEFINE c == CloseOpen(s)
             d == StartBlock(c, "text")
             b == [d EXCEPT !.open = "text"]
             Y == Append(X, TextOf(p))
  <2>1. Kept(s, c) /\ View(c, X) /\ c.open = "none"
    BY CloseShows
  <2>2. t = Push(b, Frame("delta", "text", b.at, p))
    BY <1>2 DEF EmitText, EnsureBlock
  <2>3. c \in Converters
    BY <2>1 DEF Kept
  <2> HIDE DEF c
  <2>4. /\ Kept(c, d) /\ Block(c, d)
        /\ b \in Converters /\ b.frames = d.frames =>
               Kept(b, t) /\ Block(b, t) /\ Assembled(t.frames) = Append(X, Shows("text", p, "none", <<>>))
    <3> HIDE DEF d, b, t
    <3> QED BY <1>0, <2>1, <2>2, <2>3, NewBlockShown DEF d
  <2>5. d \in Converters
    BY <2>4 DEF Kept
  <2> HIDE DEF d
  <2>6. Kept(d, b) /\ b.frames = d.frames /\ b.open = "text" /\ b.replay = d.replay
        /\ b.signature = d.signature
    BY <2>5 DEF Converters, Kept
  <2> HIDE DEF b, t
  <2>7. Kept(b, t) /\ Block(b, t) /\ Assembled(t.frames) = Y
    BY <2>4, <2>6 DEF Kept, TextOf
  <2>8. c.replay = <<>> /\ c.signature = "none"
    BY <2>1 DEF View
  <2>9. Kept(s, t) /\ t.open = "text" /\ t.replay = <<>> /\ t.signature = "none"
    BY <2>1, <2>4, <2>6, <2>7, <2>8 DEF Kept, Block
  <2>10. Y \in Seq(ShownBlocks) /\ Y # <<>> /\ \E q \in Seq(Nat) : Y[Len(Y)] = TextOf(q)
    <3> DEFINE x == TextOf(p)
    <3>1. x \in ShownBlocks
      BY TextOfType
    <3> HIDE DEF x
    <3>2. Y \in Seq(ShownBlocks) /\ Len(Y) = Len(X) + 1 /\ Y # <<>> /\ Y[Len(X) + 1] = x
      BY <1>0, <3>1, Appended DEF x
    <3> HIDE DEF Y
    <3> QED BY <3>2 DEF x
  <2> HIDE DEF Y
  <2>11. View(t, Y)
    BY <2>7, <2>9, <2>10 DEF View
  <2> QED BY <1>2, <2>9, <2>11 DEF Y, t
<1> QED BY <1>1, <1>2

Reasoned(p) == Shows("thinking", p, "none", <<>>)

\* A block that shows reasoning, before it is signed.
LEMMA ReasonedType ==
    ASSUME NEW p \in Seq(Nat)
    PROVE  Reasoned(p) \in ShownBlocks
<1>1. "thinking" \in Kinds /\ "none" \in Signs /\ <<>> \in Seq(Nat)
  BY DEF Kinds, Signs
<1> QED BY <1>1, ShowsType DEF Reasoned

\* Reasoning begins a block behind all others.
LEMMA ThoughtShows ==
    ASSUME NEW s \in Converters, NEW X, View(s, X), ~s.deferring, NEW p \in Seq(Nat),
           s.open # "thinking"
    PROVE  LET t == EmitThinking(s, p)
           IN  /\ Kept(s, t) /\ t.open = "thinking" /\ t.replay = p /\ t.signature = "none"
               /\ View(t, Append(X, ThinkingOf(p, "none", s.omit)))
<1> DEFINE t == EmitThinking(s, p)
           c == CloseOpen(s)
           d == StartBlock(c, "thinking")
           e == [d EXCEPT !.open = "thinking"]
           b == [e EXCEPT !.replay = e.replay \o p]
           f == Frame("delta", "thinking", b.at, p)
           shown == IF s.omit THEN <<>> ELSE p
           g == ThinkingOf(p, "none", s.omit)
           Y == Append(X, g)
<1>0. X \in Seq(ShownBlocks) /\ "thinking" \in Kinds /\ <<>> \in Seq(Nat)
  BY DEF View, Kinds
<1>1. Kept(s, c) /\ View(c, X) /\ c.open = "none"
  BY CloseShows
<1>2. t = IF s.omit \/ p = <<>> THEN b ELSE Push(b, f)
  <2>1. EnsureBlock(s, "thinking") = e
    BY DEF EnsureBlock
  <2> DEFINE y == EnsureBlock(s, "thinking")
             z == [y EXCEPT !.replay = y.replay \o p]
  <2> HIDE DEF e
  <2>2. z = b
    BY <2>1
  <2>3. t = IF s.omit \/ p = <<>> THEN z ELSE Push(z, Frame("delta", "thinking", z.at, p))
    BY DEF EmitThinking
  <2> HIDE DEF z, b, t
  <2> QED BY <2>2, <2>3
<1>3. c \in Converters /\ c.replay = <<>> /\ c.signature = "none"
  BY <1>1 DEF Kept, View
<1> HIDE DEF c
<1>4. /\ Kept(c, d) /\ Block(c, d)
      /\ Assembled(d.frames) = Append(X, Reasoned(<<>>))
      /\ b \in Converters /\ b.frames = d.frames =>
             /\ Kept(b, Push(b, f)) /\ Block(b, Push(b, f))
             /\ Assembled(Push(b, f).frames) = Append(X, Reasoned(p))
  <2> HIDE DEF d, b
  <2> QED BY <1>0, <1>1, <1>3, NewBlockShown DEF d, Reasoned
<1>5. d \in Converters /\ d.replay = <<>> /\ d.signature = "none"
  BY <1>3, <1>4 DEF Kept, Block
<1> HIDE DEF d
<1>6. Kept(d, e) /\ e.frames = d.frames /\ e.open = "thinking" /\ e.replay = <<>> /\ e.signature = "none"
  BY <1>5 DEF Converters, Kept
<1>7. e \in Converters
  BY <1>6 DEF Kept
<1> HIDE DEF e
<1>8. e.replay \o p = p
  BY <1>6
<1>9. /\ Kept(e, b) /\ b.frames = e.frames /\ b.open = "thinking" /\ b.replay = p
      /\ b.signature = "none"
  BY <1>6, <1>7, <1>8 DEF Converters, Kept
<1> HIDE DEF b, f
<1>10. /\ Kept(b, t) /\ Block(b, t) /\ Assembled(t.frames) = Append(X, Reasoned(shown))
  <2>1. b \in Converters /\ b.frames = d.frames
    BY <1>6, <1>9 DEF Kept
  <2>2. CASE s.omit \/ p = <<>>
    <3>1. t = b /\ shown = <<>>
      BY <1>2, <2>2
    <3>2. Kept(b, b) /\ Block(b, b)
      BY <2>1 DEF Kept, Block
    <3> HIDE DEF t, shown
    <3> QED BY <1>4, <2>1, <3>1, <3>2
  <2>3. CASE ~(s.omit \/ p = <<>>)
    <3>1. t = Push(b, f) /\ shown = p
      BY <1>2, <2>3
    <3> HIDE DEF t, shown
    <3> QED BY <1>4, <2>1, <3>1
  <2> QED BY <2>2, <2>3
<1> HIDE DEF t
<1>11. /\ Kept(s, t) /\ t.open = "thinking" /\ t.replay = p /\ t.signature = "none"
  BY <1>1, <1>4, <1>6, <1>9, <1>10 DEF Kept, Block
<1>12. g \in ShownBlocks /\ shown \in Seq(Nat)
  <2>1. "none" \in Signatures
    BY DEF Signatures
  <2> QED BY <1>0, <2>1, ThinkingOfType
<1>13. Reasoned(shown) \in ShownBlocks
  BY <1>12, ReasonedType
<1> HIDE DEF g
<1>14. Y \in Seq(ShownBlocks) /\ Len(Y) = Len(X) + 1 /\ Y # <<>> /\ Y[Len(X) + 1] = g
  BY <1>0, <1>12, Appended
<1>15. Replaced(Y, Reasoned(shown)) = Append(X, Reasoned(shown))
  BY <1>0, <1>12, <1>13, ReplacedBehind
<1> HIDE DEF Y
<1>16. t.omit = s.omit
  BY <1>11 DEF Kept
<1>17. View(t, Y)
  BY <1>10, <1>11, <1>14, <1>15, <1>16 DEF View, g, shown, Reasoned
<1> QED BY <1>11, <1>17 DEF Y, g, t

\* Reasoning continues the open block.
LEMMA ThoughtContinues ==
    ASSUME NEW s \in Converters, NEW X, View(s, X), ~s.deferring, NEW p \in Seq(Nat),
           s.open = "thinking"
    PROVE  LET t == EmitThinking(s, p)
           IN  /\ Kept(s, t) /\ t.open = "thinking" /\ t.replay = s.replay \o p
               /\ t.signature = s.signature
               /\ View(t, Replaced(X, ThinkingOf(s.replay \o p, s.signature, s.omit)))
<1> DEFINE t == EmitThinking(s, p)
           r == s.replay \o p
           b == [s EXCEPT !.replay = r]
           f == Frame("delta", "thinking", b.at, p)
           before == IF s.omit THEN <<>> ELSE s.replay
           shown == IF s.omit THEN <<>> ELSE r
           g == ThinkingOf(r, s.signature, s.omit)
           Y == Replaced(X, g)
           c == Assembled(s.frames)
           N == Len(X)
<1>0. /\ X \in Seq(ShownBlocks) /\ "thinking" \in Kinds /\ <<>> \in Seq(Nat)
      /\ s.replay \in Seq(Nat) /\ s.signature \in Signatures /\ r \in Seq(Nat)
  <2>1. X \in Seq(ShownBlocks) /\ "thinking" \in Kinds /\ <<>> \in Seq(Nat)
    BY DEF View, Kinds
  <2>2. s.replay \in Seq(Nat) /\ s.signature \in Signatures
    BY DEF Converters
  <2>3. r \in Seq(Nat)
    BY <2>2
  <2> QED BY <2>1, <2>2, <2>3
<1>1. X # <<>> /\ c = Replaced(X, Reasoned(before))
  BY DEF View, Reasoned
<1>2. before \in Seq(Nat) /\ shown \in Seq(Nat)
  BY <1>0
<1>3. Reasoned(before) \in ShownBlocks /\ Reasoned(shown) \in ShownBlocks
  BY <1>2, ReasonedType
<1>4. LastIs(ShownBlocks, X, Reasoned(before), c)
  BY <1>0, <1>1, <1>3, Replacing
<1>5. t = IF s.omit \/ p = <<>> THEN b ELSE Push(b, f)
  BY DEF EmitThinking, EnsureBlock, Converters
<1> HIDE DEF r
<1>6. Kept(s, b) /\ b.frames = s.frames /\ b.open = "thinking" /\ b.replay = r /\ b.signature = s.signature
  BY <1>0 DEF Converters, Kept
<1> HIDE DEF b
<1>7. b \in Converters
  BY <1>6 DEF Kept
<1>8. Kept(b, t) /\ Block(b, t) /\ Assembled(t.frames) = Replaced(X, Reasoned(shown))
  <2>1. CASE s.omit \/ p = <<>>
    <3>1. t = b
      BY <1>5, <2>1
    <3>2. shown = before
      <4>1. s.omit \/ r = s.replay
        BY <1>0, <2>1 DEF r
      <4> QED BY <4>1
    <3>3. Kept(b, b) /\ Block(b, b)
      BY <1>7 DEF Kept, Block
    <3> HIDE DEF t, shown, before
    <3> QED BY <1>1, <1>6, <3>1, <3>2, <3>3
  <2>2. CASE ~(s.omit \/ p = <<>>)
    <3>1. t = Push(b, f)
      BY <1>5, <2>2
    <3> HIDE DEF t
    <3>2. Assembled(b.frames) = c /\ c \in Seq(ShownBlocks) /\ c # <<>> /\ c[Len(c)] = Reasoned(before)
      BY <1>4, <1>6 DEF LastIs
    <3> HIDE DEF c
    <3>3. Kept(b, t) /\ Block(b, t) /\ Assembled(t.frames) = Replaced(c, Extended(Reasoned(before), p))
      BY <1>0, <1>7, <3>1, <3>2, DeltaPushed
    <3>4. Extended(Reasoned(before), p) = Reasoned(shown)
      BY <1>0, <1>2, <2>2, ExtendedNew DEF Reasoned, r
    <3> HIDE DEF before, shown
    <3>5. Replaced(Replaced(X, Reasoned(before)), Reasoned(shown)) = Replaced(X, Reasoned(shown))
      BY <1>0, <1>1, <1>3, ReplacedTwice
    <3> QED BY <1>1, <3>3, <3>4, <3>5
  <2> QED BY <2>1, <2>2
<1> HIDE DEF t
<1>9. Kept(s, t) /\ t.open = "thinking" /\ t.replay = r /\ t.signature = s.signature
  BY <1>6, <1>8 DEF Kept, Block
<1>10. g \in ShownBlocks
  BY <1>0, ThinkingOfType
<1> HIDE DEF g
<1>11. LastIs(ShownBlocks, X, g, Y) /\ Replaced(Y, Reasoned(shown)) = Replaced(X, Reasoned(shown))
  BY <1>0, <1>1, <1>3, <1>10, Replacing, ReplacedTwice
<1> HIDE DEF Y
<1>12. Y \in Seq(ShownBlocks) /\ Y # <<>> /\ Y[Len(Y)] = g
  BY <1>11 DEF LastIs
<1>13. t.omit = s.omit
  BY <1>9 DEF Kept
<1>14. View(t, Y)
  BY <1>8, <1>9, <1>11, <1>12, <1>13 DEF View, g, shown, Reasoned
<1> QED BY <1>9, <1>14 DEF Y, g, r, t

\* The signature of the open block is kept for when it is closed.
LEMMA SignatureShows ==
    ASSUME NEW s \in Converters, NEW X, View(s, X), NEW sg \in Signatures, s.open = "thinking"
    PROVE  LET t == [s EXCEPT !.signature = sg]
           IN  /\ Kept(s, t) /\ t.open = "thinking" /\ t.replay = s.replay /\ t.signature = sg
               /\ View(t, Replaced(X, ThinkingOf(s.replay, sg, s.omit)))
<1> DEFINE t == [s EXCEPT !.signature = sg]
           shown == IF s.omit THEN <<>> ELSE s.replay
           g == ThinkingOf(s.replay, sg, s.omit)
           Y == Replaced(X, g)
<1>0. X \in Seq(ShownBlocks) /\ X # <<>> /\ s.replay \in Seq(Nat)
  BY DEF View, Converters
<1>1. /\ Kept(s, t) /\ t.open = "thinking" /\ t.replay = s.replay /\ t.signature = sg
      /\ t.frames = s.frames
  BY DEF Converters, Kept
<1>2. Assembled(s.frames) = Replaced(X, Reasoned(shown))
  BY DEF View, Reasoned
<1>3. g \in ShownBlocks /\ shown \in Seq(Nat)
  <2>1. <<>> \in Seq(Nat)
    OBVIOUS
  <2> QED BY <1>0, <2>1, ThinkingOfType
<1>4. Reasoned(shown) \in ShownBlocks
  BY <1>3, ReasonedType
<1> HIDE DEF g, t
<1>5. LastIs(ShownBlocks, X, g, Y) /\ Replaced(Y, Reasoned(shown)) = Replaced(X, Reasoned(shown))
  BY <1>0, <1>3, <1>4, Replacing, ReplacedTwice
<1> HIDE DEF Y
<1>6. Y \in Seq(ShownBlocks) /\ Y # <<>> /\ Y[Len(Y)] = g
  BY <1>5 DEF LastIs
<1>7. t.omit = s.omit
  BY <1>1 DEF Kept
<1>8. View(t, Y)
  BY <1>1, <1>2, <1>5, <1>6, <1>7 DEF View, g, shown, Reasoned
<1> QED BY <1>1, <1>8 DEF Y, g, t

ToolOf(piece) == Shows("tool", <<piece>>, "none", <<>>)

\* A call is a block of its own.
LEMMA ToolShows ==
    ASSUME NEW s \in Converters, NEW X, View(s, X), s.open = "none", NEW i \in Indices
    PROVE  LET t == WriteTool(s, i)
           IN  /\ Kept(s, t) /\ t.open = "none"
               /\ View(t, Append(X, ToolOf(s.tools[i].piece)))
<1> DEFINE b == StartBlock(s, "tool")
           p == <<s.tools[i].piece>>
           f == Frame("delta", "tool", b.at, p)
           u == Push(b, f)
           g == Frame("stop", "tool", b.at, <<>>)
           t == WriteTool(s, i)
           x == Shows("tool", p, "none", <<>>)
           Y == Append(X, x)
<1>0. /\ X \in Seq(ShownBlocks) /\ "tool" \in Kinds /\ <<>> \in Seq(Nat) /\ "none" \in Signs
      /\ s.replay = <<>> /\ s.signature = "none"
  BY DEF View, Kinds, Signs
<1>1. p \in Seq(Nat)
  <2>1. s.tools[i] \in ToolStates
    BY DEF Converters
  <2>2. s.tools[i].piece \in Nat
    BY <2>1 DEF ToolStates
  <2> QED BY <2>2
<1>2. b.tools = s.tools
  <2>1. Kept(s, b)
    BY <1>0, NewBlockShown
  <2> HIDE DEF b
  <2> QED BY <2>1 DEF Kept
<1>3. t = Push(u, g)
  BY <1>2 DEF WriteTool
<1> HIDE DEF p
<1>4. /\ Kept(s, b) /\ Block(s, b)
      /\ b \in Converters =>
             Kept(b, u) /\ Block(b, u) /\ Assembled(u.frames) = Append(X, Shows("tool", p, "none", <<>>))
  <2> HIDE DEF b, u
  <2> QED BY <1>0, <1>1, NewBlockShown DEF b, u
<1>5. b \in Converters
  BY <1>4 DEF Kept
<1>6. b.at \in Nat
  <2> HIDE DEF b
  <2> QED BY <1>5, ConverterType
<1>7. g \in Emitted /\ g.type = "stop"
  <2> HIDE DEF b
  <2>1. "tool" \in Kinds \cup Signs \cup {"end_turn", "max_tokens", "tool_use", "refusal"}
    BY <1>0
  <2> QED BY <1>0, <1>6, <2>1 DEF Frame, Emitted
<1> HIDE DEF b, u, t, g
<1>8. u \in Converters /\ Assembled(u.frames) = Y
  BY <1>4, <1>5 DEF Kept
<1> HIDE DEF x
<1>9. /\ Kept(u, t) /\ Block(u, t) /\ Assembled(t.frames) = AssembleStep(Assembled(u.frames), g)
  BY <1>3, <1>7, <1>8, FramePushed
<1>10. AssembleStep(Y, g) = Y
  BY <1>7, Steps
<1>11. Kept(s, t) /\ t.open = "none" /\ t.replay = <<>> /\ t.signature = "none"
  BY <1>0, <1>4, <1>5, <1>9 DEF Kept, Block
<1>12. x \in ShownBlocks
  BY <1>0, <1>1, ShowsType DEF x
<1>13. Y \in Seq(ShownBlocks)
  BY <1>0, <1>12
<1>14. View(t, Y)
  BY <1>8, <1>9, <1>10, <1>11, <1>13 DEF View
<1> QED BY <1>11, <1>14 DEF t, x, p, ToolOf

\* A text block that has grown joins what is in front of it as its parts do.
LEMMA GluedLonger ==
    ASSUME NEW X \in Seq(ShownBlocks), X # <<>>, NEW q \in Seq(Nat), NEW p \in Seq(Nat),
           X[Len(X)] = TextOf(q)
    PROVE  Glued(Replaced(X, TextOf(q \o p))) = JoinStep(Glued(X), TextOf(p))
<1> DEFINE N == Len(X)
           W == [n \in 1..(N - 1) |-> X[n]]
           b == TextOf(q)
           r == q \o p
           c == TextOf(r)
<1>0. N \in Nat /\ N # 0
  OBVIOUS
<1>1. r \in Seq(Nat)
  OBVIOUS
<1> HIDE DEF r
<1>2. b \in ShownBlocks /\ c \in ShownBlocks
  BY <1>1, TextOfType
<1>3. W \in Seq(ShownBlocks) /\ Len(W) = N - 1
  OBVIOUS
<1>4. X = Append(W, b)
  <2> HIDE DEF b
  <2>1. Append(W, b) \in Seq(ShownBlocks) /\ Len(Append(W, b)) = N /\ Append(W, b)[N] = b
    BY <1>0, <1>2, <1>3
  <2>2. \A n \in 1..N : Append(W, b)[n] = X[n]
    <3>1. X[N] = b
      BY DEF b
    <3>2. ASSUME NEW n \in 1..N, n # N PROVE Append(W, b)[n] = X[n]
      <4>1. n \in 1..(N - 1)
        BY <1>0, <3>2
      <4> QED BY <1>2, <1>3, <4>1
    <3> QED BY <2>1, <3>1, <3>2
  <2> QED BY <2>1, <2>2, SameSeq
<1> HIDE DEF W, b, c, N
<1>5. Replaced(X, c) = Append(W, c)
  BY <1>2, <1>3, <1>4, ReplacedBehind
<1>6. Glued(X) = JoinStep(Glued(W), b) /\ Glued(Append(W, c)) = JoinStep(Glued(W), c)
  BY <1>2, <1>3, <1>4, GluedAppend
<1>7. Glued(W) \in Seq(ShownBlocks)
  BY <1>3, GluedType
<1>8. JoinStep(JoinStep(Glued(W), b), TextOf(p)) = JoinStep(Glued(W), c)
  BY <1>7, TextTwice DEF b, c, r
<1> QED BY <1>5, <1>6, <1>8 DEF c, r

-----------------------------------------------------------------------------
(* finish(): what the client shows once the deferred items are sent.        *)

\* What a client shows of a deferred item.
ShownItem(s, item) ==
    CASE item.kind = "text"     -> TextOf(item.pieces)
      [] item.kind = "thinking" -> ThinkingOf(item.pieces, item.signature, s.omit)
      [] item.kind = "tool"     ->
           IF CompleteTools(s, s.reason) THEN ToolOf(s.tools[item.index].piece)
           ELSE TextOf(<<s.tools[item.index].piece>>)

\* A client shows blocks that join to G.
Joins(s, G) == \E X : View(s, X) /\ Glued(X) = G

\* A text sent joins what was there.
LEMMA TextJoins ==
    ASSUME NEW s \in Converters, NEW G, Joins(s, G), ~s.deferring, NEW p \in Seq(Nat)
    PROVE  LET t == EmitText(s, p)
           IN  Kept(s, t) /\ t.open = "text" /\ Joins(t, JoinStep(G, TextOf(p)))
<1> DEFINE t == EmitText(s, p)
<1>1. PICK X : View(s, X) /\ Glued(X) = G
  BY DEF Joins
<1>2. X \in Seq(ShownBlocks) /\ TextOf(p) \in ShownBlocks
  BY <1>1, TextOfType DEF View
<1>3. /\ Kept(s, t) /\ t.open = "text"
      /\ s.open # "text" => View(t, Append(X, TextOf(p)))
      /\ \A q \in Seq(Nat) : s.open = "text" /\ X[Len(X)] = TextOf(q)
                              => View(t, Replaced(X, TextOf(q \o p)))
  BY <1>1, TextShows
<1> HIDE DEF t
<1>4. CASE s.open # "text"
  <2>1. Glued(Append(X, TextOf(p))) = JoinStep(G, TextOf(p))
    BY <1>1, <1>2, GluedAppend
  <2> QED BY <1>3, <1>4, <2>1 DEF Joins, t
<1>5. CASE s.open = "text"
  <2>1. PICK q \in Seq(Nat) : X # <<>> /\ X[Len(X)] = TextOf(q)
    BY <1>1, <1>5 DEF View
  <2>2. Glued(Replaced(X, TextOf(q \o p))) = JoinStep(G, TextOf(p))
    BY <1>1, <1>2, <2>1, GluedLonger
  <2> QED BY <1>3, <1>5, <2>1, <2>2 DEF Joins, t
<1> QED BY <1>4, <1>5

\* Closing a block leaves what joins.
LEMMA CloseJoins ==
    ASSUME NEW s \in Converters, NEW G, Joins(s, G)
    PROVE  LET t == CloseOpen(s)
           IN  Kept(s, t) /\ t.open = "none" /\ Joins(t, G)
<1>1. PICK X : View(s, X) /\ Glued(X) = G
  BY DEF Joins
<1>2. Kept(s, CloseOpen(s)) /\ View(CloseOpen(s), X) /\ CloseOpen(s).open = "none"
  BY <1>1, CloseShows
<1> QED BY <1>1, <1>2 DEF Joins

\* An item sent joins what was there, reasoning behind anything but reasoning.
LEMMA ReplayJoins ==
    ASSUME NEW s \in Converters, NEW G, Joins(s, G), ~s.deferring, NEW item \in Placements,
           item.kind = "thinking" => s.open # "thinking"
    PROVE  LET t == Replay(s, item)
           IN  /\ Kept(s, t) /\ Joins(t, JoinStep(G, ShownItem(s, item)))
               /\ t.open = "thinking" => item.kind = "thinking"
<1> DEFINE t == Replay(s, item)
           p == item.pieces
<1>0. /\ p \in Seq(Nat) /\ item.signature \in Signatures /\ item.index \in Indices
      /\ item.kind \in {"thinking", "text", "tool"} /\ s.omit \in BOOLEAN
  BY DEF Placements, Kinds, Converters
<1>1. CASE item.kind = "text"
  <2>1. t = EmitText(s, p) /\ ShownItem(s, item) = TextOf(p)
    BY <1>1 DEF Replay, ShownItem
  <2> HIDE DEF t, p
  <2>2. Kept(s, t) /\ t.open = "text" /\ Joins(t, JoinStep(G, TextOf(p)))
    BY <1>0, <2>1, TextJoins
  <2> QED BY <2>1, <2>2 DEF t
<1>2. CASE item.kind = "thinking"
  <2> DEFINE e == EmitThinking(s, p)
             sg == item.signature
             b == ThinkingOf(p, sg, s.omit)
             c == ThinkingOf(p, "none", s.omit)
  <2>1. t = [e EXCEPT !.signature = sg] /\ ShownItem(s, item) = b
    BY <1>2 DEF Replay, ShownItem
  <2>2. PICK X : View(s, X) /\ Glued(X) = G
    BY DEF Joins
  <2>3. Kept(s, e) /\ e.open = "thinking" /\ e.replay = p /\ View(e, Append(X, c))
    BY <1>0, <1>2, <2>2, ThoughtShows
  <2> HIDE DEF e, p, t, sg
  <2>4. e \in Converters /\ e.omit = s.omit /\ sg \in Signatures
    BY <1>0, <2>3 DEF Kept, sg
  <2>5. Kept(e, t) /\ t.open = "thinking" /\ View(t, Replaced(Append(X, c), b))
    BY <2>1, <2>3, <2>4, SignatureShows
  <2>6. X \in Seq(ShownBlocks) /\ b \in ShownBlocks /\ c \in ShownBlocks
    <3>1. "none" \in Signatures
      BY DEF Signatures
    <3> QED BY <1>0, <2>2, <2>4, <3>1, ThinkingOfType DEF View
  <2> HIDE DEF b, c
  <2>7. Replaced(Append(X, c), b) = Append(X, b)
    BY <2>6, ReplacedBehind
  <2>8. Glued(Append(X, b)) = JoinStep(G, b)
    BY <2>2, <2>6, GluedAppend
  <2>9. Kept(s, t) /\ Joins(t, JoinStep(G, b))
    BY <2>3, <2>5, <2>7, <2>8 DEF Kept, Joins
  <2> QED BY <1>2, <2>1, <2>9 DEF t
<1>3. CASE item.kind = "tool"
  <2> DEFINE c == CloseOpen(s)
             i == item.index
             piece == s.tools[i].piece
  <2>1. /\ Kept(s, c) /\ c.open = "none" /\ Joins(c, G)
    BY CloseJoins
  <2>2. /\ t = IF CompleteTools(s, s.reason) THEN WriteTool(c, i) ELSE EmitText(c, <<piece>>)
        /\ ShownItem(s, item) = IF CompleteTools(s, s.reason) THEN ToolOf(piece) ELSE TextOf(<<piece>>)
    BY <1>3 DEF Replay, ShownItem
  <2>3. piece \in Nat
    <3>1. s.tools[i] \in ToolStates
      BY <1>0 DEF Converters
    <3> QED BY <3>1 DEF ToolStates
  <2> HIDE DEF t, c, piece
  <2>4. c \in Converters /\ c.tools = s.tools /\ ~c.deferring
    BY <2>1 DEF Kept
  <2>5. CASE CompleteTools(s, s.reason)
    <3>1. PICK X : View(c, X) /\ Glued(X) = G
      BY <2>1 DEF Joins
    <3>2. c.tools[i].piece = piece
      BY <2>4 DEF piece
    <3>3. Kept(c, t) /\ t.open = "none" /\ View(t, Append(X, ToolOf(piece)))
      BY <1>0, <2>1, <2>2, <2>4, <2>5, <3>1, <3>2, ToolShows
    <3>4. X \in Seq(ShownBlocks)
      BY <3>1 DEF View
    <3>5. ToolOf(piece) \in ShownBlocks
      <4>1. "tool" \in Kinds /\ "none" \in Signs /\ <<>> \in Seq(Nat)
        BY DEF Kinds, Signs
      <4>2. <<piece>> \in Seq(Nat)
        BY <2>3
      <4> QED BY <4>1, <4>2, ShowsType DEF ToolOf
    <3>6. Glued(Append(X, ToolOf(piece))) = JoinStep(G, ToolOf(piece))
      BY <3>1, <3>4, <3>5, GluedAppend
    <3>7. Kept(s, t) /\ Joins(t, JoinStep(G, ToolOf(piece)))
      BY <2>1, <3>3, <3>6 DEF Kept, Joins
    <3> QED BY <2>2, <2>5, <3>3, <3>7 DEF t
  <2>6. CASE ~CompleteTools(s, s.reason)
    <3>1. <<piece>> \in Seq(Nat)
      BY <2>3
    <3>2. Kept(c, t) /\ t.open = "text" /\ Joins(t, JoinStep(G, TextOf(<<piece>>)))
      BY <2>1, <2>2, <2>4, <2>6, <3>1, TextJoins
    <3>3. Kept(s, t)
      BY <2>1, <3>2 DEF Kept
    <3> QED BY <2>2, <2>6, <3>2, <3>3 DEF t
  <2> QED BY <2>5, <2>6
<1> QED BY <1>0, <1>1, <1>2, <1>3

LEMMA ReplayDefined ==
    ASSUME NEW s, Len(s.deferred) \in Nat
    PROVE  \E after :
               /\ after = [k \in 0..Len(s.deferred) |->
                              IF k = 0 THEN s ELSE Replay(after[k - 1], s.deferred[k])]
               /\ Replayed(s) = after[Len(s.deferred)]
<1> DEFINE L == Len(s.deferred)
           G(after, n) == [k \in 0..n |-> IF k = 0 THEN s ELSE Replay(after[k - 1], s.deferred[k])]
           T == {n \in Nat : n <= L => \E after : after = G(after, n)}
<1>1. 0 \in T
  <2> DEFINE r == [k \in 0..0 |-> s]
  <2>1. r = G(r, 0)
    OBVIOUS
  <2> QED BY <2>1
<1>2. ASSUME NEW n \in Nat, n \in T PROVE n + 1 \in T
  <2> SUFFICES ASSUME n + 1 <= L PROVE \E after : after = G(after, n + 1)
    OBVIOUS
  <2>1. PICK r : r = G(r, n)
    BY <1>2
  <2> DEFINE q == [k \in 0..(n + 1) |-> IF k = n + 1 THEN Replay(r[n], s.deferred[n + 1]) ELSE r[k]]
  <2>2. ASSUME NEW k \in 0..(n + 1)
        PROVE  q[k] = IF k = 0 THEN s ELSE Replay(q[k - 1], s.deferred[k])
    <3>1. CASE k = n + 1
      <4>1. q[k - 1] = r[n] /\ k # 0
        BY <3>1
      <4> QED BY <3>1, <4>1
    <3>2. CASE k \in 0..n
      <4>1. q[k] = r[k] /\ (k # 0 => q[k - 1] = r[k - 1])
        BY <3>2
      <4>2. r[k] = IF k = 0 THEN s ELSE Replay(r[k - 1], s.deferred[k])
        BY <2>1, <3>2
      <4> QED BY <4>1, <4>2
    <3> QED BY <3>1, <3>2
  <2>3. q = G(q, n + 1)
    BY <2>2
  <2> QED BY <2>3
<1> HIDE DEF T
<1>3. L \in T
  <2>1. \A k \in 0..L : k \in T /\ k # L => k + 1 \in T
    BY <1>2
  <2>2. 0..L \subseteq T
    BY <1>1, <2>1, UpTo
  <2>3. L \in 0..L
    OBVIOUS
  <2> QED BY <2>2, <2>3
<1>4. \E after : after = G(after, L)
  BY <1>3 DEF T
<1> QED BY <1>4 DEF Replayed

ShownItems(s) == [n \in 1..Len(s.deferred) |-> ShownItem(s, s.deferred[n])]

\* Types of what a client shows of the items.
LEMMA ShownItemsType ==
    ASSUME NEW s \in Converters
    PROVE  /\ \A item \in Placements : ShownItem(s, item) \in ShownBlocks
           /\ s.deferred \in Seq(Placements) /\ ShownItems(s) \in Seq(ShownBlocks)
           /\ Len(ShownItems(s)) = Len(s.deferred) /\ Len(s.deferred) \in Nat
<1>1. s.deferred \in Seq(Placements)
  BY DEF Converters
<1>2. ASSUME NEW item \in Placements PROVE ShownItem(s, item) \in ShownBlocks
  <2> DEFINE piece == s.tools[item.index].piece
             p == <<piece>>
  <2>1. /\ item.pieces \in Seq(Nat) /\ item.signature \in Signatures /\ item.index \in Indices
        /\ item.kind \in {"thinking", "text", "tool"}
    BY DEF Placements, Kinds
  <2>2. s.tools[item.index] \in ToolStates
    BY <2>1 DEF Converters
  <2>3. p \in Seq(Nat)
    <3>1. piece \in Nat
      BY <2>2 DEF ToolStates
    <3> QED BY <3>1
  <2>4. "tool" \in Kinds /\ "none" \in Signs /\ <<>> \in Seq(Nat)
    BY DEF Kinds, Signs
  <2>5. ToolOf(piece) \in ShownBlocks
    <3> HIDE DEF p
    <3> QED BY <2>3, <2>4, ShowsType DEF ToolOf, p
  <2> HIDE DEF p
  <2>6. TextOf(p) \in ShownBlocks /\ TextOf(item.pieces) \in ShownBlocks
    BY <2>1, <2>3, TextOfType
  <2>7. ThinkingOf(item.pieces, item.signature, s.omit) \in ShownBlocks
    BY <2>1, ThinkingOfType
  <2> QED BY <2>1, <2>5, <2>6, <2>7 DEF ShownItem, p
<1>3. \A n \in 1..Len(s.deferred) : s.deferred[n] \in Placements
  BY <1>1
<1> QED BY <1>1, <1>2, <1>3 DEF ShownItems

\* Reasoning never follows reasoning: it would continue its block.
Apart(items) ==
    \A n \in 1..Len(items) :
        n < Len(items) => ~(items[n].kind = "thinking" /\ items[n + 1].kind = "thinking")

\* The first n of a sequence.
FirstOf(D, n) == [k \in 1..n |-> D[k]]

\* One more of a sequence behind another.
LEMMA OneMore ==
    ASSUME NEW S, NEW Z \in Seq(S), NEW D \in Seq(S)
    PROVE  /\ Z \o FirstOf(D, 0) = Z /\ FirstOf(D, Len(D)) = D
           /\ \A n \in 0..Len(D) :
                  /\ Z \o FirstOf(D, n) \in Seq(S)
                  /\ n < Len(D) => Z \o FirstOf(D, n + 1) = Append(Z \o FirstOf(D, n), D[n + 1])
<1>1. FirstOf(D, 0) = <<>> /\ Z \o <<>> = Z
  BY DEF FirstOf
<1>2. FirstOf(D, Len(D)) = D
  BY DEF FirstOf
<1>3. ASSUME NEW n \in 0..Len(D)
      PROVE  FirstOf(D, n) \in Seq(S) /\ Len(FirstOf(D, n)) = n /\ \A k \in 1..n : FirstOf(D, n)[k] = D[k]
  BY DEF FirstOf
<1>4. ASSUME NEW n \in 0..Len(D)
      PROVE  /\ Z \o FirstOf(D, n) \in Seq(S)
             /\ n < Len(D) => Z \o FirstOf(D, n + 1) = Append(Z \o FirstOf(D, n), D[n + 1])
  <2> DEFINE A == FirstOf(D, n)
             B == FirstOf(D, n + 1)
             x == D[n + 1]
             L == Z \o B
             R == Append(Z \o A, x)
             N == Len(Z)
             K == Len(D)
  <2>1. A \in Seq(S) /\ Len(A) = n /\ n \in Nat /\ N \in Nat /\ K \in Nat
    BY <1>3
  <2>2. Z \o A \in Seq(S) /\ Len(Z \o A) = N + n
        /\ \A k \in 1..(N + n) : (Z \o A)[k] = IF k <= N THEN Z[k] ELSE A[k - N]
    BY <2>1, Concatenated
  <2>3. ASSUME n < K PROVE L = R
    <3>1. n + 1 \in 0..K /\ n + 1 \in 1..K
      BY <2>1, <2>3
    <3>2. B \in Seq(S) /\ Len(B) = n + 1 /\ \A k \in 1..(n + 1) : B[k] = D[k]
      BY <1>3, <3>1
    <3>3. x \in S
      BY <3>1
    <3> HIDE DEF A, B, x
    <3>4. L \in Seq(S) /\ Len(L) = N + (n + 1)
          /\ \A k \in 1..(N + (n + 1)) : L[k] = IF k <= N THEN Z[k] ELSE B[k - N]
      <4>1. B \in Seq(S) /\ Len(B) = n + 1
        BY <3>2
      <4>2. L \in Seq(S) /\ Len(L) = Len(Z) + Len(B)
            /\ \A k \in 1..(Len(Z) + Len(B)) : L[k] = IF k <= Len(Z) THEN Z[k] ELSE B[k - Len(Z)]
        BY <4>1, Concatenated
      <4> HIDE DEF L
      <4> QED BY <4>1, <4>2
    <3>5. R \in Seq(S) /\ Len(R) = (N + n) + 1 /\ R[(N + n) + 1] = x
          /\ \A k \in 1..(N + n) : R[k] = (Z \o A)[k]
      BY <2>2, <3>3, Appended
    <3> HIDE DEF L, R, N, K
    <3>6. \A k \in 1..n : A[k] = B[k]
      <4>1. \A k \in 1..n : A[k] = D[k]
        BY <1>3 DEF A
      <4>2. \A k \in 1..n : k \in 1..(n + 1)
        BY <2>1
      <4> QED BY <3>2, <4>1, <4>2
    <3>7. ASSUME NEW k \in 1..Len(L) PROVE L[k] = R[k]
      <4>1. CASE k <= N + n
        <5>1. k \in 1..(N + n) /\ (k <= N \/ k - N \in 1..n)
          BY <2>1, <3>4, <4>1
        <5> QED BY <2>2, <3>4, <3>5, <3>6, <5>1
      <4>2. CASE k > N + n
        <5>1. k = (N + n) + 1 /\ ~(k <= N) /\ k - N = n + 1 /\ n + 1 \in 1..(n + 1)
          BY <2>1, <3>4, <4>2
        <5>2. B[n + 1] = x
          BY <3>2, <5>1 DEF x
        <5> QED BY <3>4, <3>5, <5>1, <5>2
      <4>3. k \in Nat /\ N + n \in Nat
        BY <2>1, <3>4
      <4> QED BY <4>1, <4>2, <4>3
    <3>8. Len(L) = Len(R)
      BY <2>1, <3>4, <3>5
    <3> QED BY <3>4, <3>5, <3>7, <3>8, SameSeq
  <2> QED BY <2>2, <2>3
<1> QED BY <1>1, <1>2, <1>4

\* The deferred items join what was there, in their order.
LEMMA ReplayedJoins ==
    ASSUME NEW s \in Converters, ~s.deferring, s.open # "thinking", Apart(s.deferred),
           NEW Z \in Seq(ShownBlocks), Joins(s, Glued(Z))
    PROVE  Kept(s, Replayed(s)) /\ Joins(Replayed(s), Glued(Z \o ShownItems(s)))
<1> DEFINE L == Len(s.deferred)
           D == ShownItems(s)
           H(n) == Z \o FirstOf(D, n)
<1>1. /\ s.deferred \in Seq(Placements) /\ D \in Seq(ShownBlocks) /\ Len(D) = L /\ L \in Nat
      /\ \A item \in Placements : ShownItem(s, item) \in ShownBlocks
  BY ShownItemsType
<1>2. PICK after : /\ after = [k \in 0..L |->
                                  IF k = 0 THEN s ELSE Replay(after[k - 1], s.deferred[k])]
                   /\ Replayed(s) = after[L]
  BY <1>1, ReplayDefined
<1>3. after[0] = s /\ \A n \in 0..L : n # L => after[n + 1] = Replay(after[n], s.deferred[n + 1])
  <2> HIDE DEF L
  <2>1. 0 \in 0..L
    BY <1>1
  <2>2. after[0] = s
    BY <1>2, <2>1
  <2>3. ASSUME NEW n \in 0..L, n # L PROVE after[n + 1] = Replay(after[n], s.deferred[n + 1])
    <3>1. n + 1 \in 0..L /\ n + 1 # 0 /\ (n + 1) - 1 = n
      BY <1>1, <2>3
    <3> QED BY <1>2, <3>1
  <2> QED BY <2>2, <2>3
<1>4. /\ H(0) = Z /\ H(L) = Z \o D
      /\ \A n \in 0..L : H(n) \in Seq(ShownBlocks) /\ (n # L => H(n + 1) = Append(H(n), D[n + 1]))
  <2> HIDE DEF D
  <2>1. /\ Z \o FirstOf(D, 0) = Z /\ FirstOf(D, Len(D)) = D
        /\ \A n \in 0..Len(D) :
               /\ Z \o FirstOf(D, n) \in Seq(ShownBlocks)
               /\ n < Len(D) => Z \o FirstOf(D, n + 1) = Append(Z \o FirstOf(D, n), D[n + 1])
    BY <1>1, OneMore
  <2>2. \A n \in 0..L : n # L => n < L
    BY <1>1
  <2> QED BY <1>1, <2>1, <2>2
<1> DEFINE T == {n \in Nat : /\ Kept(s, after[n]) /\ Joins(after[n], Glued(H(n)))
                             /\ n # 0 /\ after[n].open = "thinking" => s.deferred[n].kind = "thinking"
                             /\ n = 0 => after[n].open # "thinking"}
<1>5. 0 \in T
  <2>1. Kept(s, s)
    BY DEF Kept
  <2> HIDE DEF H
  <2> QED BY <1>3, <1>4, <2>1
<1>6. ASSUME NEW n \in 0..L, n \in T, n # L PROVE n + 1 \in T
  <2> DEFINE a == after[n]
             b == after[n + 1]
             item == s.deferred[n + 1]
             x == D[n + 1]
             G == Glued(H(n))
  <2>1. n + 1 \in 1..L /\ n + 1 \in Nat /\ n + 1 # 0
    BY <1>1, <1>6
  <2>2. item \in Placements
    BY <1>1, <2>1
  <2>3. x = ShownItem(s, item)
    BY <2>1 DEF ShownItems
  <2>4. b = Replay(a, item)
    BY <1>3, <1>6
  <2>5. Kept(s, a) /\ Joins(a, G)
    BY <1>6
  <2>6. item.kind = "thinking" => a.open # "thinking"
    <3>1. CASE n = 0
      BY <1>6, <3>1
    <3>2. CASE n # 0
      <4>1. n \in 1..L /\ n < L
        BY <1>1, <1>6, <3>2
      <4>2. ~(s.deferred[n].kind = "thinking" /\ s.deferred[n + 1].kind = "thinking")
        BY <4>1 DEF Apart
      <4> QED BY <1>6, <3>2, <4>2
    <3> QED BY <3>1, <3>2
  <2>7. G = Glued(H(n)) /\ H(n) \in Seq(ShownBlocks) /\ H(n + 1) = Append(H(n), x)
    BY <1>4, <1>6
  <2> HIDE DEF a, b, item, x, G, H, T, L, D
  <2>8. a \in Converters /\ ~a.deferring
    BY <2>5 DEF Kept
  <2>9. /\ Kept(a, b) /\ Joins(b, JoinStep(G, ShownItem(a, item)))
        /\ b.open = "thinking" => item.kind = "thinking"
    BY <2>2, <2>4, <2>5, <2>6, <2>8, ReplayJoins
  <2>10. ShownItem(a, item) = x
    <3>1. a.omit = s.omit /\ a.tools = s.tools /\ a.reason = s.reason /\ a.refused = s.refused
      BY <2>5 DEF Kept
    <3> QED BY <2>3, <3>1 DEF ShownItem, CompleteTools, IsRefusal
  <2>11. Kept(s, b)
    BY <2>5, <2>9 DEF Kept
  <2>12. Glued(H(n + 1)) = JoinStep(G, x)
    <3>1. x \in ShownBlocks
      BY <1>1, <2>2, <2>3
    <3> QED BY <2>7, <3>1, GluedAppend
  <2> QED BY <2>1, <2>9, <2>10, <2>11, <2>12 DEF T, b, item
<1>7. L \in T
  <2> HIDE DEF T
  <2>1. 0..L \subseteq T
    <3> HIDE DEF L
    <3> QED BY <1>1, <1>5, <1>6, UpTo
  <2>2. L \in 0..L
    BY <1>1
  <2> QED BY <2>1, <2>2
<1> QED BY <1>2, <1>4, <1>7

\* What a converter knows of the reason when it finishes.
Ending(s) == [s EXCEPT !.reason = EffectiveReason(s)]

\* finish() of an answer that it does not reject.
Finishes(s, done) ==
    LET reason == EffectiveReason(s)
    IN  /\ ~(s.reason = "" /\ ~s.semantic /\ Calls(s) = {})
        /\ ~CutOff(s, done)
        /\ reason # "other"
        /\ CompleteTools(s, reason) => \A i \in Calls(s) : ~Unusable(s.tools[i])

\* Two more at the end: the last but one is the first of them.
LEMMA LastButOne ==
    ASSUME NEW S, NEW s \in Seq(S), NEW x \in S, NEW y \in S
    PROVE  LET t == Append(Append(s, x), y) IN t[Len(t) - 1] = x
<1> DEFINE u == Append(s, x)
           t == Append(u, y)
           N == Len(s)
<1>1. N \in Nat /\ u \in Seq(S) /\ Len(u) = N + 1 /\ u[N + 1] = x
  BY Appended
<1> HIDE DEF u
<1>2. Len(t) = (N + 1) + 1 /\ \A i \in 1..(N + 1) : t[i] = u[i]
  BY <1>1, Appended
<1> HIDE DEF t, N
<1>3. N + 1 \in 1..(N + 1) /\ Len(t) - 1 = N + 1
  BY <1>1, <1>2
<1>4. t[Len(t) - 1] = x
  BY <1>1, <1>2, <1>3
<1> QED BY <1>4 DEF t, u

\* finish() sends the deferred items, the stop reason and the end.
LEMMA FinishShows ==
    ASSUME NEW s \in Converters, ~s.failed, Apart(s.deferred), NEW Z \in Seq(ShownBlocks),
           View(s, Z), NEW done, Finishes(s, done)
    PROVE  LET f == Finish(s, done)
           IN  /\ ~f.failed
               /\ Glued(Assembled(f.frames)) = Glued(Z \o ShownItems(Ending(s)))
               /\ f.frames[Len(f.frames) - 1].kind = StopReason(s, EffectiveReason(s))
<1> DEFINE reason == EffectiveReason(s)
           b == EnsureStarted(s)
           c == CloseOpen(b)
           d == [c EXCEPT !.reason = reason]
           t == [c EXCEPT !.reason = reason, !.deferring = FALSE]
           r == Replayed(t)
           u == CloseOpen(r)
           g == Frame("message_delta", StopReason(s, reason), 0, <<>>)
           h == Frame("message_stop", "none", 0, <<>>)
           v == Push(u, g)
           w == Push(v, h)
<1>0. reason \in {"stop", "length", "tool_calls", "content_filter"}
  BY DEF EffectiveReason, Finishes, Converters
<1>1. Finish(s, done) = w
  BY DEF Finish, Finishes
<1>2. Kept(s, b) /\ View(b, Z)
  BY StartShows
<1> HIDE DEF b
<1>3. Kept(b, c) /\ View(c, Z) /\ c.open = "none"
  <2>1. b \in Converters
    BY <1>2 DEF Kept
  <2> QED BY <1>2, <2>1, CloseShows
<1>4. Kept(s, c) /\ c \in Converters
  BY <1>2, <1>3 DEF Kept
<1> HIDE DEF c, reason
<1>5. /\ t \in Converters /\ ~t.deferring /\ t.open = "none" /\ t.replay = c.replay
      /\ t.signature = c.signature /\ t.frames = c.frames /\ t.reason = reason
      /\ t.omit = s.omit /\ t.tools = s.tools /\ t.deferred = s.deferred /\ t.refused = s.refused
      /\ t.failed = s.failed
  <2>1. reason \in {"", "stop", "length", "tool_calls", "content_filter", "other"}
    BY <1>0
  <2> QED BY <1>3, <1>4, <2>1 DEF Converters, Kept
<1>6. ShownItems(t) = ShownItems(Ending(s))
  <2> DEFINE e == Ending(s)
  <2>1. e.omit = s.omit /\ e.tools = s.tools /\ e.deferred = s.deferred /\ e.refused = s.refused
        /\ e.reason = reason
    BY DEF Ending, reason, Converters
  <2> HIDE DEF e, t
  <2>2. \A item : ShownItem(t, item) = ShownItem(e, item)
    BY <1>5, <2>1 DEF ShownItem, CompleteTools, IsRefusal
  <2>3. t.deferred = e.deferred
    BY <1>5, <2>1
  <2>4. ShownItems(t) = ShownItems(e)
    BY <2>2, <2>3 DEF ShownItems
  <2> QED BY <2>4 DEF e
<1> HIDE DEF t
<1>7. Joins(t, Glued(Z))
  <2>1. View(t, Z)
    BY <1>3, <1>4, <1>5 DEF View
  <2> QED BY <2>1 DEF Joins
<1>8. Kept(t, r) /\ Joins(r, Glued(Z \o ShownItems(t)))
  <2>1. Apart(t.deferred) /\ t.open # "thinking"
    BY <1>5
  <2> QED BY <1>5, <1>7, <2>1, ReplayedJoins
<1> HIDE DEF r
<1>9. Kept(r, u) /\ u.open = "none" /\ Joins(u, Glued(Z \o ShownItems(t)))
  <2>1. r \in Converters
    BY <1>8 DEF Kept
  <2> QED BY <1>8, <2>1, CloseJoins
<1> HIDE DEF u
<1>10. u \in Converters /\ ~u.failed /\ Glued(Assembled(u.frames)) = Glued(Z \o ShownItems(t))
  BY <1>5, <1>8, <1>9 DEF Kept, Joins, View
<1>11. /\ g \in Emitted /\ g.type = "message_delta" /\ g.kind = StopReason(s, reason)
       /\ h \in Emitted /\ h.type = "message_stop"
  <2>1. <<>> \in Seq(Nat) /\ "none" \in Signs
    <3>1. "none" \in Signs
      BY DEF Signs
    <3>2. <<>> \in Seq(Nat)
      OBVIOUS
    <3> QED BY <3>1, <3>2
  <2>2. StopReason(s, reason) \in {"end_turn", "max_tokens", "tool_use", "refusal"}
    BY <1>0 DEF StopReason, IsRefusal
  <2> QED BY <2>1, <2>2 DEF Frame, Emitted
<1> HIDE DEF g, h
<1>12. /\ v \in Converters /\ v.frames = Append(u.frames, g) /\ v.failed = u.failed
       /\ Assembled(v.frames) = AssembleStep(Assembled(u.frames), g)
  BY <1>10, <1>11, FramePushed DEF Kept
<1> HIDE DEF v
<1>13. /\ w \in Converters /\ w.frames = Append(v.frames, h) /\ w.failed = v.failed
       /\ Assembled(w.frames) = AssembleStep(Assembled(v.frames), h)
  BY <1>11, <1>12, FramePushed DEF Kept
<1>14. Assembled(w.frames) = Assembled(u.frames)
  <2> HIDE DEF w
  <2>1. \A x : AssembleStep(x, g) = x
    BY <1>11 DEF AssembleStep
  <2>2. \A x : AssembleStep(x, h) = x
    BY <1>11 DEF AssembleStep
  <2> QED BY <1>12, <1>13, <2>1, <2>2
<1>15. w.frames[Len(w.frames) - 1] = g
  <2>1. u.frames \in Seq(Emitted)
    BY <1>10 DEF Converters
  <2>2. w.frames = Append(Append(u.frames, g), h)
    BY <1>12, <1>13
  <2> HIDE DEF w
  <2> QED BY <1>11, <2>1, <2>2, LastButOne
<1> HIDE DEF w
<1> QED BY <1>1, <1>6, <1>10, <1>11, <1>12, <1>13, <1>14, <1>15 DEF reason

-----------------------------------------------------------------------------
(* What the converter does with an event, and what the aggregate does.      *)

\* The fields that neither text nor reasoning changes.
Stays(s, t) ==
    /\ t \in Converters
    /\ t.omit = s.omit /\ t.tools = s.tools /\ t.deferring = s.deferring
    /\ t.reason = s.reason /\ t.refused = s.refused /\ t.semantic = s.semantic
    /\ t.failed = s.failed

\* The message is started, or has been.
LEMMA StartKeeps ==
    ASSUME NEW s \in Converters
    PROVE  LET t == EnsureStarted(s)
           IN  Kept(s, t) /\ Block(s, t) /\ \A X : View(s, X) => View(t, X)
<1> DEFINE u == [s EXCEPT !.started = TRUE]
           f == Frame("message_start", "none", 0, <<>>)
           t == EnsureStarted(s)
<1>1. Kept(s, t) /\ Block(s, t)
  <2>1. CASE s.started
    BY <2>1 DEF EnsureStarted, Kept, Block
  <2>2. CASE ~s.started
    <3>1. f \in Emitted
      <4>1. <<>> \in Seq(Nat)
        OBVIOUS
      <4> QED BY <4>1 DEF Frame, Emitted, Signs
    <3>2. Kept(s, u) /\ Block(s, u)
      BY DEF Converters, Kept, Block
    <3>3. t = Push(u, f)
      BY <2>2 DEF EnsureStarted
    <3> HIDE DEF t, u, f
    <3>4. Kept(u, t) /\ Block(u, t)
      BY <3>1, <3>2, <3>3, FramePushed DEF Kept
    <3> QED BY <3>2, <3>4 DEF Kept, Block
  <2> QED BY <2>1, <2>2
<1>2. ASSUME NEW X, View(s, X) PROVE View(t, X)
  BY <1>2, StartShows
<1> QED BY <1>1, <1>2

\* Closing a block changes the fields of that block.
LEMMA CloseKeeps ==
    ASSUME NEW s \in Converters
    PROVE  Kept(s, CloseOpen(s))
<1> DEFINE t == CloseOpen(s)
           f == SignatureOf(s)
           v == Push(s, f)
           w == IF s.open # "thinking" THEN s ELSE [v EXCEPT !.signature = "none", !.replay = <<>>]
           u == [w EXCEPT !.open = "none"]
           stop == Frame("stop", s.open, s.at, <<>>)
<1>0. <<>> \in Seq(Nat) /\ Kept(s, s)
  <2>1. <<>> \in Seq(Nat)
    OBVIOUS
  <2> QED BY <2>1 DEF Kept
<1>1. f \in Emitted
  <2>1. s.signature \in Signs
    BY ConverterType DEF Signs, Signatures
  <2> QED BY <1>0, <2>1, ConverterType DEF SignatureOf, Frame, Emitted, Signs
<1> HIDE DEF f
<1>2. Kept(s, v)
  BY <1>1, FramePushed
<1>3. v \in Converters
  BY <1>2 DEF Kept
<1> HIDE DEF v
<1>4. Kept(v, [v EXCEPT !.signature = "none", !.replay = <<>>])
  <2>1. "none" \in Signatures
    BY DEF Signatures
  <2> QED BY <1>0, <1>3, <2>1 DEF Converters, Kept
<1>5. Kept(s, w)
  BY <1>0, <1>2, <1>4 DEF Kept
<1>6. w \in Converters
  BY <1>5 DEF Kept
<1>7. t = IF s.open = "none" THEN s ELSE Push(u, stop)
  <2>1. CASE s.open # "thinking"
    BY <2>1 DEF CloseOpen
  <2>2. CASE s.open = "thinking"
    BY <2>2 DEF CloseOpen, v, f
  <2> QED BY <2>1, <2>2
<1> HIDE DEF w
<1>8. Kept(w, u)
  BY <1>6 DEF Converters, Kept
<1>9. u \in Converters
  BY <1>8 DEF Kept
<1>10. CASE s.open # "none"
  <2>1. stop \in Emitted
    BY <1>0, <1>10, ConverterType DEF Frame, Emitted, Signs, Kinds
  <2> HIDE DEF u, stop, t
  <2>2. Kept(u, t)
    BY <1>7, <1>9, <1>10, <2>1, FramePushed
  <2>3. Kept(s, t)
    BY <1>5, <1>8, <2>2 DEF Kept
  <2> QED BY <2>3 DEF t
<1>11. CASE s.open = "none"
  BY <1>0, <1>7, <1>11
<1> QED BY <1>10, <1>11

\* An item is deferred as a block of the aggregate grows.
LEMMA DeferGrows ==
    ASSUME NEW s \in Converters, NEW kind \in {"text", "thinking"}, NEW n \in Nat
    PROVE  LET t == Defer(s, kind, <<n>>)
           IN  /\ Stays(s, t) /\ Block(s, t) /\ t.frames = s.frames
               /\ t.deferred = Grown(s.deferred, kind, n)
<1> DEFINE items == s.deferred
           N == Len(items)
           last == items[N]
           t == Defer(s, kind, <<n>>)
           new == Placed(kind, <<n>>, "none", 0)
<1>1. items \in Seq(Placements)
  BY DEF Converters
<1>2. kind \in Kinds
  BY DEF Kinds
<1>3. Grown(items, kind, n) \in Seq(Placements)
  BY <1>1, <1>2, GrownType
<1>4. t = [s EXCEPT !.deferred = Grown(items, kind, n)]
  <2>1. CASE N > 0 /\ last.kind = kind
    <3>1. items # <<>> /\ last \in Placements
      BY <1>1, <2>1
    <3>2. last.pieces \in Seq(Nat)
      BY <3>1 DEF Placements
    <3>3. last.pieces \o <<n>> = Append(last.pieces, n)
      BY <3>2, Appended
    <3>4. t = [s EXCEPT !.deferred[N].pieces = last.pieces \o <<n>>]
      BY <2>1 DEF Defer
    <3>5. t = [s EXCEPT !.deferred = [items EXCEPT ![N] = [last EXCEPT !.pieces = last.pieces \o <<n>>]]]
      BY <3>4
    <3> QED BY <2>1, <3>1, <3>3, <3>5 DEF Grown, Longer
  <2>2. CASE ~(N > 0 /\ last.kind = kind)
    <3>1. ~(items # <<>> /\ last.kind = kind)
      BY <1>1, <2>2
    <3>2. t = [s EXCEPT !.deferred = Append(items, new)]
      BY <2>2 DEF Defer, Placed
    <3> HIDE DEF t, new
    <3> QED BY <3>1, <3>2 DEF Grown, new
  <2> QED BY <2>1, <2>2
<1> HIDE DEF t
<1> DEFINE G == Grown(items, kind, n)
<1> HIDE DEF G
<1>5. G \in Seq(Placements) /\ t = [s EXCEPT !.deferred = G]
  BY <1>3, <1>4 DEF G
<1>6. Stays(s, t) /\ Block(s, t) /\ t.frames = s.frames /\ t.deferred = G
  BY <1>5 DEF Converters, Stays, Block
<1> QED BY <1>6 DEF t, G

\* A block of the kind is open.
LEMMA EnsuredKeeps ==
    ASSUME NEW s \in Converters, NEW kind \in {"text", "thinking"}
    PROVE  Kept(s, EnsureBlock(s, kind))
<1> DEFINE c == CloseOpen(s)
           d == StartBlock(c, kind)
           b == [d EXCEPT !.open = kind]
<1>1. CASE s.open = kind
  BY <1>1 DEF EnsureBlock, Kept
<1>2. CASE s.open # kind
  <2>1. Kept(s, c)
    BY CloseKeeps
  <2>2. c \in Converters
    BY <2>1 DEF Kept
  <2> HIDE DEF c
  <2>3. Kept(c, d)
    BY <2>2, BlockStarted DEF Kinds
  <2>4. d \in Converters
    BY <2>3 DEF Kept
  <2> HIDE DEF d
  <2>5. Kept(d, b)
    BY <2>4 DEF Converters, Kept
  <2>6. EnsureBlock(s, kind) = b
    BY <1>2 DEF EnsureBlock, c, d
  <2> HIDE DEF b
  <2>7. Kept(s, b)
    BY <2>1, <2>3, <2>5 DEF Kept
  <2> QED BY <2>6, <2>7
<1> QED BY <1>1, <1>2

\* Whatever is open, text, reasoning and signatures change nothing else.
LEMMA EmitKeeps ==
    ASSUME NEW s \in Converters, NEW n \in Nat
    PROVE  Stays(s, EmitText(s, <<n>>)) /\ Stays(s, EmitThinking(s, <<n>>))
<1> DEFINE p == <<n>>
           c == CloseOpen(s)
           t == EmitText(s, p)
           u == EmitThinking(s, p)
<1>0. p \in Seq(Nat) /\ p # <<>>
  OBVIOUS
<1>1. CASE s.deferring
  <2>1. Kept(s, c)
    BY CloseKeeps
  <2>2. c \in Converters
    BY <2>1 DEF Kept
  <2>3. t = Defer(c, "text", p) /\ u = Defer(c, "thinking", p)
    BY <1>1 DEF EmitText, EmitThinking
  <2> HIDE DEF t, u, c
  <2>4. Stays(c, t) /\ Stays(c, u)
    BY <2>2, <2>3, DeferGrows
  <2>5. Stays(s, t) /\ Stays(s, u)
    BY <2>1, <2>4 DEF Kept, Stays
  <2> QED BY <2>5 DEF t, u
<1>2. CASE ~s.deferring
  <2> HIDE DEF p
  <2> DEFINE b == EnsureBlock(s, "text")
             f == Frame("delta", "text", b.at, p)
             d == EnsureBlock(s, "thinking")
             e == [d EXCEPT !.replay = d.replay \o p]
             g == Frame("delta", "thinking", e.at, p)
  <2>1. t = Push(b, f)
    BY <1>2 DEF EmitText
  <2>2. u = IF s.omit THEN e ELSE Push(e, g)
    BY <1>0, <1>2 DEF EmitThinking
  <2>3. Kept(s, b) /\ Kept(s, d)
    BY EnsuredKeeps
  <2>4. b \in Converters /\ d \in Converters
    BY <2>3 DEF Kept
  <2> HIDE DEF b, d
  <2>5. Kept(d, e)
    <3>1. d.replay \in Seq(Nat)
      BY <2>4, ConverterType
    <3>2. d.replay \o p \in Seq(Nat)
      BY <1>0, <3>1
    <3> DEFINE r == d.replay \o p
    <3> HIDE DEF r
    <3>3. Kept(d, [d EXCEPT !.replay = r])
      BY <2>4, <3>2 DEF Converters, Kept, r
    <3> QED BY <3>3 DEF r
  <2>6. e \in Converters
    BY <2>5 DEF Kept
  <2> HIDE DEF e
  <2>7. f \in Emitted /\ g \in Emitted
    <3>1. b.at \in Nat /\ e.at \in Nat
      BY <2>4, <2>6, ConverterType
    <3> QED BY <1>0, <3>1 DEF Frame, Emitted, Kinds
  <2> HIDE DEF f, g, t, u
  <2>8. Kept(b, t) /\ Kept(e, Push(e, g))
    BY <2>1, <2>4, <2>6, <2>7, FramePushed
  <2>9. Kept(s, t)
    BY <2>3, <2>8 DEF Kept
  <2>10. Kept(s, u)
    <3>1. CASE s.omit
      BY <2>2, <2>3, <2>5, <3>1 DEF Kept
    <3>2. CASE ~s.omit
      BY <2>2, <2>3, <2>5, <2>8, <3>2 DEF Kept
    <3> QED BY <3>1, <3>2
  <2> QED BY <2>9, <2>10 DEF Kept, Stays, t, u, p
<1> QED BY <1>1, <1>2

\* Blocks or items to which one has been added or the last of which has changed.
Continued(d, e, kind) ==
    /\ e \in Seq(Placements) /\ e # <<>> /\ e[Len(e)].kind = kind
    /\ \/ Len(e) = Len(d)
       \/ Len(e) = Len(d) + 1 /\ ~(d # <<>> /\ d[Len(d)].kind = kind)
    /\ \A n \in 1..Len(d) : e[n].kind = d[n].kind /\ e[n].index = d[n].index
    /\ \A n \in 1..Len(e) : n <= Len(d) \/ n = Len(e)

\* Blocks grow at their end.
LEMMA GrownContinues ==
    ASSUME NEW d \in Seq(Placements), NEW kind \in Kinds, NEW n \in Nat
    PROVE  Continued(d, Grown(d, kind, n), kind)
<1> DEFINE N == Len(d)
           last == d[N]
           b == Longer(last, n)
           e == Grown(d, kind, n)
           new == Placed(kind, <<n>>, "none", 0)
<1>1. e \in Seq(Placements) /\ e # <<>> /\ N \in Nat
  <2>1. e \in Seq(Placements) /\ e # <<>>
    BY GrownType
  <2>2. N \in Nat
    OBVIOUS
  <2> QED BY <2>1, <2>2
<1>2. CASE d # <<>> /\ last.kind = kind
  <2>1. e = [d EXCEPT ![N] = b]
    BY <1>2 DEF Grown
  <2>2. last \in Placements /\ N \in 1..N
    BY <1>2
  <2>3. b.kind = last.kind /\ b.index = last.index
    BY <2>2 DEF Longer, Placements
  <2> HIDE DEF b
  <2>4. Len(e) = N /\ e[N] = b /\ \A k \in 1..N : k # N => e[k] = d[k]
    BY <2>1, <2>2
  <2> HIDE DEF e
  <2>5. \A k \in 1..N : e[k].kind = d[k].kind /\ e[k].index = d[k].index
    BY <2>3, <2>4
  <2>6. e[Len(e)].kind = kind
    BY <1>2, <2>3, <2>4
  <2>7. \A k \in 1..Len(e) : k <= N \/ k = Len(e)
    BY <1>1, <2>4
  <2>8. Continued(d, e, kind)
    BY <1>1, <2>4, <2>5, <2>6, <2>7 DEF Continued
  <2> QED BY <2>8 DEF e
<1>3. CASE ~(d # <<>> /\ last.kind = kind)
  <2>1. e = Append(d, new)
    BY <1>3 DEF Grown
  <2>2. new \in Placements /\ new.kind = kind
    <3>1. 0 \in Indices
      BY ConverterAssumption
    <3>2. "none" \in Signatures
      BY DEF Signatures
    <3>3. <<n>> \in Seq(Nat)
      OBVIOUS
    <3> QED BY <3>1, <3>2, <3>3 DEF Placed, Placements
  <2> HIDE DEF e, new
  <2>3. Len(e) = N + 1 /\ e[N + 1] = new /\ \A k \in 1..N : e[k] = d[k]
    BY <2>1, <2>2, Appended
  <2>4. \A k \in 1..Len(e) : k <= N \/ k = Len(e)
    BY <1>1, <2>3
  <2>5. Continued(d, e, kind)
    BY <1>1, <1>3, <2>2, <2>3, <2>4 DEF Continued
  <2> QED BY <2>5 DEF e
<1> QED BY <1>2, <1>3

\* The items name the call.
Names(items, i) == \E n \in 1..Len(items) : items[n].kind = "tool" /\ items[n].index = i

NoToolIn(items) == \A n \in 1..Len(items) : items[n].kind # "tool"

\* What growing at the end keeps.
LEMMA ContinuedKeeps ==
    ASSUME NEW d \in Seq(Placements), NEW kind \in {"text", "thinking"}, NEW e, Continued(d, e, kind)
    PROVE  /\ e \in Seq(Placements)
           /\ Apart(d) => Apart(e)
           /\ \A i : Names(d, i) <=> Names(e, i)
           /\ NoToolIn(d) => NoToolIn(e)
           /\ d # <<>> /\ d[1].kind = "tool" => e # <<>> /\ e[1].kind = "tool"
<1> DEFINE N == Len(d)
           K == Len(e)
<1>1. /\ e \in Seq(Placements) /\ e # <<>> /\ e[K].kind = kind /\ N \in Nat /\ K \in Nat
      /\ K = N \/ (K = N + 1 /\ ~(d # <<>> /\ d[N].kind = kind))
      /\ \A n \in 1..N : e[n].kind = d[n].kind /\ e[n].index = d[n].index
      /\ \A n \in 1..K : n <= N \/ n = K
  <2>1. N \in Nat
    OBVIOUS
  <2>2. e \in Seq(Placements)
    BY DEF Continued
  <2>3. K \in Nat
    BY <2>2
  <2> QED BY <2>1, <2>2, <2>3 DEF Continued
<1>2. d # <<>> <=> N # 0
  OBVIOUS
<1> HIDE DEF N, K
<1>3. ASSUME Apart(d) PROVE Apart(e)
  <2> SUFFICES ASSUME NEW n \in 1..K, n < K, e[n].kind = "thinking", e[n + 1].kind = "thinking"
               PROVE  FALSE
    BY DEF Apart, K
  <2>1. n \in 1..N
    BY <1>1
  <2>2. d[n].kind = "thinking"
    BY <1>1, <2>1
  <2>3. CASE n < N
    <3>1. n + 1 \in 1..N
      BY <1>1, <2>1, <2>3
    <3>2. d[n + 1].kind = "thinking"
      BY <1>1, <3>1
    <3> QED BY <1>3, <2>1, <2>2, <2>3, <3>2 DEF Apart, N
  <2>4. CASE n = N
    <3>1. K = N + 1 /\ n + 1 = K
      BY <1>1, <2>4
    <3>2. kind = "thinking"
      BY <1>1, <3>1
    <3>3. d # <<>> /\ d[N].kind = kind
      BY <1>1, <1>2, <2>1, <2>2, <2>4, <3>2
    <3>4. N # N + 1
      BY <1>1
    <3> QED BY <1>1, <3>1, <3>3, <3>4
  <2> QED BY <1>1, <2>1, <2>3, <2>4
<1>4. ASSUME NEW i PROVE Names(d, i) <=> Names(e, i)
  <2>1. ASSUME NEW n \in 1..N, d[n].kind = "tool", d[n].index = i PROVE Names(e, i)
    <3>1. n \in 1..K /\ e[n].kind = "tool" /\ e[n].index = i
      BY <1>1, <2>1
    <3> QED BY <3>1 DEF Names, K
  <2>2. ASSUME NEW n \in 1..K, e[n].kind = "tool", e[n].index = i PROVE Names(d, i)
    <3>1. n \in 1..N
      BY <1>1, <2>2
    <3>2. d[n].kind = "tool" /\ d[n].index = i
      BY <1>1, <2>2, <3>1
    <3> QED BY <3>1, <3>2 DEF Names, N
  <2> QED BY <2>1, <2>2 DEF Names, N, K
<1>5. ASSUME NoToolIn(d) PROVE NoToolIn(e)
  <2> SUFFICES ASSUME NEW n \in 1..K, e[n].kind = "tool" PROVE FALSE
    BY DEF NoToolIn, K
  <2>1. n \in 1..N
    BY <1>1
  <2> QED BY <1>1, <1>5, <2>1 DEF NoToolIn, N
<1>6. ASSUME d # <<>>, d[1].kind = "tool" PROVE e # <<>> /\ e[1].kind = "tool"
  <2>1. 1 \in 1..N
    BY <1>1, <1>2, <1>6
  <2> QED BY <1>1, <1>6, <2>1
<1> QED BY <1>1, <1>3, <1>4, <1>5, <1>6

\* What comes behind other blocks grows as it does alone.
LEMMA GrownBehind ==
    ASSUME NEW P \in Seq(Placements), NEW d \in Seq(Placements), d # <<>>, NEW b \in Placements
    PROVE  /\ P \o d # <<>> /\ (P \o d)[Len(P \o d)] = d[Len(d)]
           /\ P \o Append(d, b) = Append(P \o d, b)
           /\ P \o Replaced(d, b) = Replaced(P \o d, b)
<1> DEFINE L == Len(P)
           N == Len(d)
           Q == P \o d
<1>1. L \in Nat /\ N \in Nat /\ N # 0 /\ N \in 1..N
  OBVIOUS
<1>2. Q \in Seq(Placements) /\ Len(Q) = L + N
      /\ \A n \in 1..(L + N) : Q[n] = IF n <= L THEN P[n] ELSE d[n - L]
  BY Concatenated
<1> HIDE DEF L, N, Q
<1>3. L + N \in 1..(L + N) /\ ~(L + N <= L) /\ (L + N) - L = N
  BY <1>1
<1>4. Q # <<>> /\ Q[Len(Q)] = d[N]
  <2>1. Q[L + N] = d[N]
    BY <1>2, <1>3
  <2>2. Q # <<>>
    <3>1. Len(<<>>) = 0
      OBVIOUS
    <3> QED BY <1>1, <1>2, <3>1
  <2> QED BY <1>2, <2>1, <2>2
<1>5. P \o Append(d, b) = Append(Q, b)
  <2> DEFINE e == Append(d, b)
             x == P \o e
             y == Append(Q, b)
  <2>1. e \in Seq(Placements) /\ Len(e) = N + 1 /\ e[N + 1] = b /\ \A n \in 1..N : e[n] = d[n]
    BY Appended DEF N
  <2> HIDE DEF e
  <2>2. x \in Seq(Placements) /\ Len(x) = L + (N + 1)
        /\ \A n \in 1..(L + (N + 1)) : x[n] = IF n <= L THEN P[n] ELSE e[n - L]
    <3>1. x \in Seq(Placements) /\ Len(x) = L + Len(e)
          /\ \A n \in 1..(L + Len(e)) : x[n] = IF n <= L THEN P[n] ELSE e[n - L]
      BY <2>1, Concatenated DEF L
    <3> HIDE DEF x
    <3> QED BY <2>1, <3>1
  <2>3. y \in Seq(Placements) /\ Len(y) = (L + N) + 1 /\ y[(L + N) + 1] = b
        /\ \A n \in 1..(L + N) : y[n] = Q[n]
    BY <1>2, Appended
  <2> HIDE DEF x, y
  <2>4. ASSUME NEW n \in 1..Len(x) PROVE x[n] = y[n]
    <3>1. CASE n <= L
      <4>1. n \in 1..(L + (N + 1)) /\ n \in 1..(L + N)
        BY <1>1, <2>2, <3>1
      <4> QED BY <1>2, <2>2, <2>3, <3>1, <4>1
    <3>2. CASE ~(n <= L) /\ n <= L + N
      <4>1. n \in 1..(L + (N + 1)) /\ n \in 1..(L + N) /\ n - L \in 1..N
        BY <1>1, <2>2, <3>2
      <4> QED BY <1>2, <2>1, <2>2, <2>3, <3>2, <4>1
    <3>3. CASE n = (L + N) + 1
      <4>1. n \in 1..(L + (N + 1)) /\ n - L = N + 1 /\ ~(n <= L)
        BY <1>1, <2>2, <3>3
      <4> QED BY <2>1, <2>2, <2>3, <3>3, <4>1
    <3> QED BY <1>1, <2>2, <3>1, <3>2, <3>3
  <2>5. Len(x) = Len(y)
    BY <1>1, <2>2, <2>3
  <2>6. x = y
    BY <2>2, <2>3, <2>4, <2>5, SameSeq
  <2> QED BY <2>6 DEF x, y, e
<1>6. P \o Replaced(d, b) = Replaced(Q, b)
  <2> DEFINE e == Replaced(d, b)
             x == P \o e
             y == Replaced(Q, b)
  <2>1. LastIs(Placements, d, b, e) /\ LastIs(Placements, Q, b, y)
    BY <1>2, <1>4, Replacing
  <2>2. /\ e \in Seq(Placements) /\ Len(e) = N /\ e[N] = b /\ \A n \in 1..N : n # N => e[n] = d[n]
        /\ y \in Seq(Placements) /\ Len(y) = L + N /\ y[L + N] = b
        /\ \A n \in 1..(L + N) : n # L + N => y[n] = Q[n]
    <3> HIDE DEF e, y
    <3> QED BY <1>2, <2>1 DEF LastIs, N
  <2> HIDE DEF e, y
  <2>3. x \in Seq(Placements) /\ Len(x) = L + N
        /\ \A n \in 1..(L + N) : x[n] = IF n <= L THEN P[n] ELSE e[n - L]
    BY <2>2, Concatenated DEF L
  <2> HIDE DEF x
  <2>4. ASSUME NEW n \in 1..Len(x) PROVE x[n] = y[n]
    <3>0. n \in 1..(L + N)
      BY <2>3
    <3>1. CASE n <= L
      <4>1. n # L + N
        BY <1>1, <3>0, <3>1
      <4> QED BY <1>2, <2>2, <2>3, <3>0, <3>1, <4>1
    <3>2. CASE ~(n <= L) /\ n # L + N
      <4>1. n - L \in 1..N /\ n - L # N
        BY <1>1, <3>0, <3>2
      <4> QED BY <1>2, <2>2, <2>3, <3>0, <3>2, <4>1
    <3>3. CASE n = L + N
      BY <1>3, <2>2, <2>3, <3>0, <3>3
    <3> QED BY <3>1, <3>2, <3>3
  <2>5. x = y
    BY <2>2, <2>3, <2>4, SameSeq
  <2> QED BY <2>5 DEF x, y, e
<1> QED BY <1>4, <1>5, <1>6 DEF Q, N

\* What a client shows of blocks without calls.
ShownOf(omit, P) == Mapped(NewAggregate, omit, P)

\* One more, and another in place of the last.
LEMMA ShownOfType ==
    ASSUME NEW omit, NEW P \in Seq(Placements), NEW b \in Placements
    PROVE  /\ ShownOf(omit, P) \in Seq(ShownBlocks) /\ Len(ShownOf(omit, P)) = Len(P)
           /\ Converted(NewAggregate, omit, b) \in ShownBlocks
           /\ P # <<>> => /\ ShownOf(omit, P) # <<>>
                          /\ ShownOf(omit, P)[Len(ShownOf(omit, P))]
                                 = Converted(NewAggregate, omit, P[Len(P)])
           /\ ShownOf(omit, Append(P, b))
                  = Append(ShownOf(omit, P), Converted(NewAggregate, omit, b))
           /\ P # <<>> => ShownOf(omit, Replaced(P, b))
                              = Replaced(ShownOf(omit, P), Converted(NewAggregate, omit, b))
<1> DEFINE a == NewAggregate
           X == ShownOf(omit, P)
           x == Converted(a, omit, b)
           N == Len(P)
<1>1. a \in Aggregates
  BY NewAggregateType
<1>2. /\ \A c \in Placements : Converted(a, omit, c) \in ShownBlocks
      /\ \A bs \in Seq(Placements) : Mapped(a, omit, bs) \in Seq(ShownBlocks)
                                     /\ Len(Mapped(a, omit, bs)) = Len(bs)
  <2> HIDE DEF a
  <2> QED BY <1>1, MappedIs
<1>3. X \in Seq(ShownBlocks) /\ Len(X) = N /\ x \in ShownBlocks /\ N \in Nat
  BY <1>2 DEF ShownOf
<1>4. \A n \in 1..N : X[n] = Converted(a, omit, P[n])
  BY DEF ShownOf, Mapped
<1> HIDE DEF a, X, x
<1>5. ASSUME P # <<>> PROVE N \in 1..N /\ X # <<>> /\ X[Len(X)] = Converted(a, omit, P[N])
  <2>1. N \in 1..N /\ N # 0
    BY <1>5
  <2>2. Len(<<>>) = 0
    OBVIOUS
  <2> QED BY <1>3, <1>4, <2>1, <2>2
<1>6. ShownOf(omit, Append(P, b)) = Append(X, x)
  <2> DEFINE Q == Append(P, b)
             y == ShownOf(omit, Q)
             z == Append(X, x)
  <2>1. Q \in Seq(Placements) /\ Len(Q) = N + 1 /\ Q[N + 1] = b /\ \A n \in 1..N : Q[n] = P[n]
    BY Appended
  <2> HIDE DEF Q
  <2>2. y \in Seq(ShownBlocks) /\ Len(y) = N + 1 /\ \A n \in 1..(N + 1) : y[n] = Converted(a, omit, Q[n])
    BY <1>2, <2>1 DEF ShownOf, Mapped, a
  <2>3. z \in Seq(ShownBlocks) /\ Len(z) = N + 1 /\ z[N + 1] = x /\ \A n \in 1..N : z[n] = X[n]
    BY <1>3, Appended
  <2> HIDE DEF y, z, N
  <2>4. ASSUME NEW n \in 1..Len(y) PROVE y[n] = z[n]
    <3>1. CASE n \in 1..N
      <4>1. n \in 1..(N + 1)
        BY <1>3, <3>1
      <4> QED BY <1>4, <2>1, <2>2, <2>3, <3>1, <4>1
    <3>2. CASE n = N + 1
      BY <2>1, <2>2, <2>3, <3>2 DEF x
    <3> QED BY <1>3, <2>2, <3>1, <3>2
  <2>5. y = z
    BY <2>2, <2>3, <2>4, SameSeq
  <2> QED BY <2>5 DEF y, z, Q
<1>7. ASSUME P # <<>> PROVE ShownOf(omit, Replaced(P, b)) = Replaced(X, x)
  <2> DEFINE Q == Replaced(P, b)
             y == ShownOf(omit, Q)
             z == Replaced(X, x)
  <2>1. LastIs(Placements, P, b, Q)
    BY <1>7, Replacing
  <2>2. LastIs(ShownBlocks, X, x, z)
    BY <1>3, <1>5, <1>7, Replacing
  <2> HIDE DEF Q, z
  <2>3. Q \in Seq(Placements) /\ Len(Q) = N /\ Q[N] = b /\ \A n \in 1..N : n # N => Q[n] = P[n]
    BY <2>1 DEF LastIs
  <2>4. z \in Seq(ShownBlocks) /\ Len(z) = N /\ z[N] = x /\ \A n \in 1..N : n # N => z[n] = X[n]
    BY <1>3, <2>2 DEF LastIs
  <2>5. y \in Seq(ShownBlocks) /\ Len(y) = N /\ \A n \in 1..N : y[n] = Converted(a, omit, Q[n])
    BY <1>2, <2>3 DEF ShownOf, Mapped, a
  <2> HIDE DEF y, N
  <2>6. ASSUME NEW n \in 1..Len(y) PROVE y[n] = z[n]
    <3>1. CASE n # N
      BY <1>4, <2>3, <2>4, <2>5, <3>1
    <3>2. CASE n = N
      BY <2>3, <2>4, <2>5, <3>2 DEF x
    <3> QED BY <3>1, <3>2
  <2>7. y = z
    BY <2>4, <2>5, <2>6, SameSeq
  <2> QED BY <2>7 DEF y, z, Q
<1> QED BY <1>3, <1>5, <1>6, <1>7 DEF X, x, a

Ends(bs, kind) == bs # <<>> /\ bs[Len(bs)].kind = kind

\* The open block is the last of those that have been sent.
Opened(s, P) ==
    /\ s.open = "none" <=> P = <<>>
    /\ s.open # "none" => Ends(P, s.open)
    /\ s.open = "thinking" => /\ s.replay = P[Len(P)].pieces
                              /\ s.signature = P[Len(P)].signature

\* Of the blocks of the aggregate the client shows P; the others, from the
\* first call on, are deferred.
Divided(s, bs, P) ==
    /\ P \in Seq(Placements) /\ bs = P \o s.deferred /\ NoToolIn(P)
    /\ View(s, ShownOf(s.omit, P))
    /\ IF s.deferring THEN s.deferred # <<>> /\ s.deferred[1].kind = "tool"
       ELSE s.deferred = <<>> /\ Opened(s, P)

Tracks(s, bs) == Apart(s.deferred) /\ \E P : Divided(s, bs, P)

SameCalls(s, t) == \A i : Names(s.deferred, i) <=> Names(t.deferred, i)

\* Behind the first call, blocks and items grow alike.
LEMMA DeferTracks ==
    ASSUME NEW s \in Converters, NEW bs, Tracks(s, bs), s.deferring,
           NEW kind \in {"text", "thinking"}, NEW n \in Nat
    PROVE  LET t == Defer(CloseOpen(s), kind, <<n>>)
           IN  Stays(s, t) /\ Tracks(t, Grown(bs, kind, n)) /\ SameCalls(s, t)
<1> DEFINE c == CloseOpen(s)
           t == Defer(c, kind, <<n>>)
           d == s.deferred
           e == Grown(d, kind, n)
<1>1. PICK P : Divided(s, bs, P)
  BY DEF Tracks
<1> DEFINE X == ShownOf(s.omit, P)
<1>2. /\ P \in Seq(Placements) /\ bs = P \o d /\ NoToolIn(P) /\ View(s, X)
      /\ d # <<>> /\ d[1].kind = "tool" /\ d \in Seq(Placements) /\ kind \in Kinds
  BY <1>1 DEF Divided, Converters, Kinds
<1>3. Kept(s, c) /\ View(c, X) /\ c.open = "none"
  BY <1>2, CloseShows
<1>4. c \in Converters /\ c.deferred = d
  BY <1>3 DEF Kept
<1> HIDE DEF c
<1>5. Stays(c, t) /\ Block(c, t) /\ t.frames = c.frames /\ t.deferred = e
  BY <1>4, DeferGrows
<1> HIDE DEF t
<1>6. Continued(d, e, kind)
  BY <1>2, GrownContinues
<1>7. /\ e \in Seq(Placements) /\ Apart(e) /\ (\A i : Names(d, i) <=> Names(e, i))
      /\ e # <<>> /\ e[1].kind = "tool"
  <2>1. Apart(d)
    BY DEF Tracks
  <2> HIDE DEF e
  <2> QED BY <1>2, <1>6, <2>1, ContinuedKeeps
<1>8. Grown(bs, kind, n) = P \o e
  <2> DEFINE last == d[Len(d)]
             new == Placed(kind, <<n>>, "none", 0)
             b == Longer(last, n)
  <2>1. last \in Placements
    BY <1>2
  <2>2. new \in Placements
    <3>1. 0 \in Indices
      BY ConverterAssumption
    <3>2. "none" \in Signatures
      BY DEF Signatures
    <3>3. <<n>> \in Seq(Nat)
      OBVIOUS
    <3> QED BY <1>2, <3>1, <3>2, <3>3, PlacedType
  <2>3. b \in Placements
    <3>1. last.pieces \in Seq(Nat)
      BY <2>1 DEF Placements
    <3>2. Append(last.pieces, n) \in Seq(Nat)
      BY <3>1
    <3> QED BY <2>1, <3>2 DEF Placements, Longer
  <2>4. e = IF last.kind = kind THEN Replaced(d, b) ELSE Append(d, new)
    BY <1>2 DEF Grown, Replaced
  <2>5. bs # <<>> /\ bs[Len(bs)] = last
    BY <1>2, <2>2, GrownBehind
  <2>6. Grown(bs, kind, n) = IF last.kind = kind THEN Replaced(bs, b) ELSE Append(bs, new)
    BY <2>5 DEF Grown, Replaced
  <2> HIDE DEF e, b, new, last
  <2>7. P \o Append(d, new) = Append(bs, new) /\ P \o Replaced(d, b) = Replaced(bs, b)
    BY <1>2, <2>2, <2>3, GrownBehind
  <2> QED BY <2>4, <2>6, <2>7
<1> HIDE DEF e
<1>9. Stays(s, t)
  BY <1>3, <1>5 DEF Kept, Stays
<1>10. View(t, X)
  BY <1>3, <1>5, <1>9 DEF View, Block, Stays, Kept
<1>11. Divided(t, P \o e, P)
  BY <1>2, <1>5, <1>7, <1>9, <1>10 DEF Divided, Stays
<1>12. Tracks(t, Grown(bs, kind, n)) /\ SameCalls(s, t)
  BY <1>5, <1>7, <1>8, <1>11 DEF Tracks, SameCalls
<1> QED BY <1>9, <1>12 DEF t, c

\* Blocks without deferred ones.
LEMMA AllShown ==
    ASSUME NEW s \in Converters, NEW P \in Seq(Placements), s.deferred = <<>>, ~s.deferring,
           NoToolIn(P), View(s, ShownOf(s.omit, P)), Opened(s, P)
    PROVE  Tracks(s, P)
<1>1. P \o s.deferred = P
  OBVIOUS
<1>2. Divided(s, P, P)
  BY <1>1 DEF Divided
<1>3. Apart(<<>>)
  BY DEF Apart
<1> QED BY <1>2, <1>3 DEF Tracks

\* Types of a piece, in a new block and in the last.
LEMMA PieceType ==
    ASSUME NEW kind \in {"text", "thinking"}, NEW n \in Nat
    PROVE  /\ <<n>> \in Seq(Nat) /\ kind \in Kinds
           /\ Placed(kind, <<n>>, "none", 0) \in Placements
           /\ Placed(kind, <<n>>, "none", 0).kind = kind
           /\ Placed(kind, <<n>>, "none", 0).pieces = <<n>>
           /\ Placed(kind, <<n>>, "none", 0).signature = "none"
           /\ \A b \in Placements : /\ Longer(b, n) \in Placements /\ b.pieces \in Seq(Nat)
                                    /\ Longer(b, n).kind = b.kind
                                    /\ Longer(b, n).signature = b.signature
                                    /\ Longer(b, n).pieces = b.pieces \o <<n>>
<1>1. <<n>> \in Seq(Nat)
  OBVIOUS
<1>2. kind \in Kinds
  BY DEF Kinds
<1>3. Placed(kind, <<n>>, "none", 0) \in Placements
  <2>1. 0 \in Indices
    BY ConverterAssumption
  <2>2. "none" \in Signatures
    BY DEF Signatures
  <2> QED BY <1>1, <1>2, <2>1, <2>2, PlacedType
<1>4. ASSUME NEW b \in Placements
      PROVE  /\ Longer(b, n) \in Placements /\ b.pieces \in Seq(Nat)
             /\ Longer(b, n).kind = b.kind
             /\ Longer(b, n).signature = b.signature
             /\ Longer(b, n).pieces = b.pieces \o <<n>>
  <2> DEFINE p == Append(b.pieces, n)
  <2>1. b.pieces \in Seq(Nat)
    BY DEF Placements
  <2>2. p \in Seq(Nat) /\ p = b.pieces \o <<n>>
    BY <2>1, Appended
  <2> HIDE DEF p
  <2>3. Longer(b, n) = [b EXCEPT !.pieces = p]
    BY DEF Longer, p
  <2> QED BY <2>1, <2>2, <2>3 DEF Placements
<1> QED BY <1>1, <1>2, <1>3, <1>4 DEF Placed

\* Text, and the text of a refusal and of an attachment.
LEMMA TextTracks ==
    ASSUME NEW s \in Converters, NEW bs, Tracks(s, bs), NEW n \in Nat
    PROVE  LET t == EmitText(s, <<n>>)
           IN  Stays(s, t) /\ Tracks(t, Grown(bs, "text", n)) /\ SameCalls(s, t)
<1> DEFINE t == EmitText(s, <<n>>)
<1>1. CASE s.deferring
  <2>1. t = Defer(CloseOpen(s), "text", <<n>>)
    BY <1>1 DEF EmitText
  <2> HIDE DEF t
  <2> QED BY <1>1, <2>1, DeferTracks DEF t
<1>2. CASE ~s.deferring
  <2>1. PICK P : Divided(s, bs, P)
    BY DEF Tracks
  <2> DEFINE X == ShownOf(s.omit, P)
             N == Len(P)
             last == P[N]
             p == <<n>>
             new == Placed("text", p, "none", 0)
             longer == Longer(last, n)
             Q == Grown(P, "text", n)
  <2>2. /\ P \in Seq(Placements) /\ NoToolIn(P) /\ View(s, X) /\ s.deferred = <<>> /\ Opened(s, P)
    BY <1>2, <2>1 DEF Divided
  <2>3. bs = P
    <3>1. P \o <<>> = P
      BY <2>2
    <3> QED BY <2>1, <2>2, <3>1 DEF Divided
  <2>4. /\ Kept(s, t) /\ t.open = "text"
        /\ s.open # "text" => View(t, Append(X, TextOf(p)))
        /\ \A q \in Seq(Nat) : s.open = "text" /\ X[Len(X)] = TextOf(q)
                                => View(t, Replaced(X, TextOf(q \o p)))
    <3>1. p \in Seq(Nat)
      OBVIOUS
    <3> QED BY <1>2, <2>2, <3>1, TextShows
  <2> HIDE DEF t, p
  <2>5. p \in Seq(Nat) /\ new \in Placements /\ new.kind = "text" /\ new.pieces = p
    BY PieceType DEF p
  <2>6. Continued(P, Q, "text")
    <3>1. "text" \in Kinds
      BY DEF Kinds
    <3> QED BY <2>2, <3>1, GrownContinues
  <2>7. View(t, ShownOf(s.omit, Q))
    <3>1. CASE Ends(P, "text")
      <4>1. last \in Placements /\ last.kind = "text" /\ P # <<>>
        BY <2>2, <3>1 DEF Ends
      <4>2. s.open = "text"
        BY <2>2, <3>1, ConverterType DEF Opened, Ends
      <4>3. longer \in Placements /\ longer.kind = "text" /\ longer.pieces = last.pieces \o p
            /\ last.pieces \in Seq(Nat)
        BY <4>1, PieceType DEF p
      <4>4. Q = Replaced(P, longer)
        BY <3>1 DEF Grown, Replaced, Ends
      <4> HIDE DEF longer, last, Q
      <4>5. Converted(NewAggregate, s.omit, longer) = TextOf(last.pieces \o p)
        BY <4>3 DEF Converted
      <4>6. X[Len(X)] = TextOf(last.pieces)
        <5>1. X[Len(X)] = Converted(NewAggregate, s.omit, last)
          BY <2>2, <4>1, ShownOfType DEF last
        <5> QED BY <4>1, <5>1 DEF Converted
      <4>7. ShownOf(s.omit, Q) = Replaced(X, TextOf(last.pieces \o p))
        BY <2>2, <4>1, <4>3, <4>4, <4>5, ShownOfType
      <4> QED BY <2>4, <4>2, <4>3, <4>6, <4>7
    <3>2. CASE ~Ends(P, "text")
      <4>1. s.open # "text"
        BY <2>2, <3>2 DEF Opened
      <4>2. Q = Append(P, new)
        BY <3>2 DEF Grown, Ends, p
      <4> HIDE DEF new, Q
      <4>3. Converted(NewAggregate, s.omit, new) = TextOf(p)
        BY <2>5 DEF Converted
      <4>4. ShownOf(s.omit, Q) = Append(X, TextOf(p))
        BY <2>2, <2>5, <4>2, <4>3, ShownOfType
      <4> QED BY <2>4, <4>1, <4>4
    <3> QED BY <3>1, <3>2
  <2>8. Q \in Seq(Placements) /\ NoToolIn(Q)
    BY <2>2, <2>6, ContinuedKeeps
  <2>9. Ends(Q, "text") /\ Q # <<>>
    BY <2>6 DEF Continued, Ends
  <2> HIDE DEF Q
  <2>10. t \in Converters /\ t.deferred = <<>> /\ ~t.deferring /\ t.omit = s.omit
    BY <1>2, <2>2, <2>4 DEF Kept
  <2>11. Opened(t, Q)
    BY <2>4, <2>9 DEF Opened
  <2>12. Tracks(t, Q)
    BY <2>7, <2>8, <2>10, <2>11, AllShown
  <2>13. Stays(s, t) /\ SameCalls(s, t)
    BY <2>2, <2>4, <2>10 DEF Kept, Stays, SameCalls
  <2> QED BY <2>3, <2>12, <2>13 DEF t, p, Q
<1> QED BY <1>1, <1>2

\* Reasoning.
LEMMA ThoughtTracks ==
    ASSUME NEW s \in Converters, NEW bs, Tracks(s, bs), NEW n \in Nat
    PROVE  LET t == EmitThinking(s, <<n>>)
           IN  Stays(s, t) /\ Tracks(t, Grown(bs, "thinking", n)) /\ SameCalls(s, t)
<1> DEFINE t == EmitThinking(s, <<n>>)
<1>1. CASE s.deferring
  <2>1. t = Defer(CloseOpen(s), "thinking", <<n>>)
    BY <1>1 DEF EmitThinking
  <2> HIDE DEF t
  <2> QED BY <1>1, <2>1, DeferTracks DEF t
<1>2. CASE ~s.deferring
  <2>1. PICK P : Divided(s, bs, P)
    BY DEF Tracks
  <2> DEFINE X == ShownOf(s.omit, P)
             N == Len(P)
             last == P[N]
             p == <<n>>
             new == Placed("thinking", p, "none", 0)
             longer == Longer(last, n)
             Q == Grown(P, "thinking", n)
  <2>2. /\ P \in Seq(Placements) /\ NoToolIn(P) /\ View(s, X) /\ s.deferred = <<>> /\ Opened(s, P)
    BY <1>2, <2>1 DEF Divided
  <2>3. bs = P
    <3>1. P \o <<>> = P
      BY <2>2
    <3> QED BY <2>1, <2>2, <3>1 DEF Divided
  <2>4. /\ s.open # "thinking" =>
               /\ Kept(s, t) /\ t.open = "thinking" /\ t.replay = p /\ t.signature = "none"
               /\ View(t, Append(X, ThinkingOf(p, "none", s.omit)))
        /\ s.open = "thinking" =>
               /\ Kept(s, t) /\ t.open = "thinking" /\ t.replay = s.replay \o p
               /\ t.signature = s.signature
               /\ View(t, Replaced(X, ThinkingOf(s.replay \o p, s.signature, s.omit)))
    <3>1. p \in Seq(Nat)
      OBVIOUS
    <3> HIDE DEF p
    <3>2. CASE s.open # "thinking"
      BY <1>2, <2>2, <3>1, <3>2, ThoughtShows DEF p
    <3>3. CASE s.open = "thinking"
      BY <1>2, <2>2, <3>1, <3>3, ThoughtContinues DEF p
    <3> QED BY <3>2, <3>3
  <2> HIDE DEF t, p
  <2>5. p \in Seq(Nat) /\ new \in Placements /\ new.kind = "thinking" /\ new.pieces = p
        /\ new.signature = "none"
    BY PieceType DEF p
  <2>6. Continued(P, Q, "thinking")
    <3>1. "thinking" \in Kinds
      BY DEF Kinds
    <3> QED BY <2>2, <3>1, GrownContinues
  <2>7. /\ View(t, ShownOf(s.omit, Q)) /\ Kept(s, t) /\ t.open = "thinking"
        /\ t.replay = Q[Len(Q)].pieces /\ t.signature = Q[Len(Q)].signature
    <3>1. CASE Ends(P, "thinking")
      <4>1. last \in Placements /\ last.kind = "thinking" /\ P # <<>>
        BY <2>2, <3>1 DEF Ends
      <4>2. s.open = "thinking" /\ s.replay = last.pieces /\ s.signature = last.signature
        BY <2>2, <3>1, ConverterType DEF Opened, Ends
      <4>3. longer \in Placements /\ longer.kind = "thinking" /\ longer.pieces = last.pieces \o p
            /\ longer.signature = last.signature
        BY <4>1, PieceType DEF p
      <4>4. Q = Replaced(P, longer)
        BY <3>1 DEF Grown, Replaced, Ends
      <4> HIDE DEF longer, last, Q
      <4>5. Converted(NewAggregate, s.omit, longer)
                = ThinkingOf(s.replay \o p, s.signature, s.omit)
        BY <4>2, <4>3 DEF Converted
      <4>6. ShownOf(s.omit, Q) = Replaced(X, ThinkingOf(s.replay \o p, s.signature, s.omit))
        BY <2>2, <4>1, <4>3, <4>4, <4>5, ShownOfType
      <4>7. Q[Len(Q)] = longer
        <5>1. LastIs(Placements, P, longer, Q)
          BY <2>2, <4>1, <4>3, <4>4, Replacing
        <5> QED BY <5>1 DEF LastIs
      <4> QED BY <2>4, <4>2, <4>3, <4>6, <4>7
    <3>2. CASE ~Ends(P, "thinking")
      <4>1. s.open # "thinking"
        BY <2>2, <3>2 DEF Opened
      <4>2. Q = Append(P, new)
        BY <3>2 DEF Grown, Ends, p
      <4> HIDE DEF new, Q
      <4>3. Converted(NewAggregate, s.omit, new) = ThinkingOf(p, "none", s.omit)
        BY <2>5 DEF Converted
      <4>4. ShownOf(s.omit, Q) = Append(X, ThinkingOf(p, "none", s.omit))
        BY <2>2, <2>5, <4>2, <4>3, ShownOfType
      <4>5. Q[Len(Q)] = new
        BY <2>2, <2>5, <4>2, Appended
      <4> QED BY <2>4, <2>5, <4>1, <4>4, <4>5
    <3> QED BY <3>1, <3>2
  <2>8. Q \in Seq(Placements) /\ NoToolIn(Q)
    BY <2>2, <2>6, ContinuedKeeps
  <2>9. Ends(Q, "thinking") /\ Q # <<>>
    BY <2>6 DEF Continued, Ends
  <2> HIDE DEF Q
  <2>10. t \in Converters /\ t.deferred = <<>> /\ ~t.deferring /\ t.omit = s.omit
    BY <1>2, <2>2, <2>7 DEF Kept
  <2>11. Opened(t, Q)
    BY <2>7, <2>9 DEF Opened
  <2>12. Tracks(t, Q)
    BY <2>7, <2>8, <2>10, <2>11, AllShown
  <2>13. Stays(s, t) /\ SameCalls(s, t)
    BY <2>2, <2>7, <2>10 DEF Kept, Stays, SameCalls
  <2> QED BY <2>3, <2>12, <2>13 DEF t, p, Q
<1> QED BY <1>1, <1>2

\* OnSignature of a converter that knows of output.
Signing(t, sg) ==
    LET d == IF t.deferred # <<>> /\ Last(t.deferred).kind = "thinking"
             THEN t ELSE [t EXCEPT !.deferred = Append(t.deferred, Placed("thinking", <<>>, "none", 0))]
    IN  IF t.deferring
        THEN [d EXCEPT !.deferred[Len(d.deferred)].signature = sg]
        ELSE [(IF t.open = "none" THEN EmitThinking(t, <<>>) ELSE t) EXCEPT !.signature = sg]

Signed(b, sg) == [b EXCEPT !.signature = sg]

\* A signature goes to the reasoning it follows, or to a new block, in both.
LEMMA SignTracks ==
    ASSUME NEW s \in Converters, NEW bs, Tracks(s, bs), NEW sg \in Signatures,
           bs = <<>> \/ Ends(bs, "thinking")
    PROVE  LET t == Signing(s, sg)
           IN  /\ Stays(s, t) /\ SameCalls(s, t)
               /\ Tracks(t, IF bs = <<>> THEN <<Placed("thinking", <<>>, sg, 0)>>
                            ELSE Replaced(bs, Signed(bs[Len(bs)], sg)))
<1> DEFINE t == Signing(s, sg)
           d == s.deferred
<1>1. PICK P : Divided(s, bs, P)
  BY DEF Tracks
<1> DEFINE X == ShownOf(s.omit, P)
<1>2. P \in Seq(Placements) /\ NoToolIn(P) /\ View(s, X) /\ bs = P \o d /\ d \in Seq(Placements)
  BY <1>1 DEF Divided, Converters
<1>3. CASE s.deferring
  <2> DEFINE N == Len(d)
             last == d[N]
             b == Signed(last, sg)
             e == Replaced(d, b)
  <2>1. d # <<>> /\ d[1].kind = "tool"
    BY <1>1, <1>3 DEF Divided
  <2>2. last \in Placements
    BY <1>2, <2>1
  <2>3. b \in Placements /\ b.kind = last.kind /\ b.index = last.index
    BY <2>2 DEF Placements, Signed
  <2> HIDE DEF b
  <2>4. bs # <<>> /\ bs[Len(bs)] = last /\ P \o e = Replaced(bs, b)
    BY <1>2, <2>1, <2>3, GrownBehind
  <2>5. last.kind = "thinking"
    BY <2>4 DEF Ends
  <2>6. t = [s EXCEPT !.deferred = e]
    <3>1. Last(d).kind = "thinking"
      BY <2>5 DEF Last
    <3>2. t = [s EXCEPT !.deferred[N].signature = sg]
      BY <1>3, <2>1, <3>1 DEF Signing
    <3>3. [s EXCEPT !.deferred[N].signature = sg] = [s EXCEPT !.deferred = [d EXCEPT ![N] = Signed(last, sg)]]
      BY DEF Signed
    <3> QED BY <3>2, <3>3 DEF b, Replaced
  <2>7. LastIs(Placements, d, b, e)
    BY <1>2, <2>1, <2>3, Replacing
  <2> HIDE DEF e, t
  <2>8. Continued(d, e, "thinking")
    <3>1. N \in Nat
      BY <1>2
    <3>2. /\ e \in Seq(Placements) /\ e # <<>> /\ Len(e) = N /\ e[N] = b
          /\ \A n \in 1..N : n # N => e[n] = d[n]
      BY <2>7 DEF LastIs
    <3>3. \A n \in 1..N : e[n].kind = d[n].kind /\ e[n].index = d[n].index
      BY <2>3, <3>2
    <3>4. e[Len(e)].kind = "thinking"
      BY <2>3, <2>5, <3>2
    <3>5. \A n \in 1..Len(e) : n <= N \/ n = Len(e)
      BY <3>1, <3>2
    <3> QED BY <3>2, <3>3, <3>4, <3>5 DEF Continued
  <2>9. /\ e \in Seq(Placements) /\ Apart(e) /\ (\A i : Names(d, i) <=> Names(e, i))
        /\ e # <<>> /\ e[1].kind = "tool"
    <3>1. Apart(d)
      BY DEF Tracks
    <3> QED BY <1>2, <2>1, <2>8, <3>1, ContinuedKeeps
  <2>10. /\ Stays(s, t) /\ Block(s, t) /\ t.frames = s.frames /\ t.deferred = e
    BY <2>6, <2>9 DEF Converters, Stays, Block
  <2>11. View(t, X)
    BY <1>2, <2>10 DEF View, Block, Stays
  <2>12. Divided(t, P \o e, P)
    BY <1>2, <1>3, <2>9, <2>10, <2>11 DEF Divided, Stays
  <2>13. Tracks(t, Replaced(bs, b)) /\ SameCalls(s, t)
    BY <2>4, <2>9, <2>10, <2>12 DEF Tracks, SameCalls
  <2> QED BY <2>4, <2>10, <2>13 DEF t, b
<1>4. CASE ~s.deferring
  <2>1. d = <<>> /\ Opened(s, P)
    BY <1>1, <1>4 DEF Divided
  <2>2. bs = P
    <3>1. P \o <<>> = P
      BY <1>2
    <3> QED BY <1>2, <2>1, <3>1
  <2>3. CASE P = <<>>
    <3> DEFINE c == EmitThinking(s, <<>>)
               b == Placed("thinking", <<>>, sg, 0)
               Q == <<b>>
    <3>1. s.open = "none"
      BY <2>1, <2>3 DEF Opened
    <3>2. t = [c EXCEPT !.signature = sg]
      BY <1>4, <3>1 DEF Signing
    <3>3. <<>> \in Seq(Nat) /\ 0 \in Indices /\ "thinking" \in Kinds
      <4>1. <<>> \in Seq(Nat)
        OBVIOUS
      <4> QED BY <4>1, ConverterAssumption DEF Kinds
    <3>4. /\ Kept(s, c) /\ c.open = "thinking" /\ c.replay = <<>>
          /\ View(c, Append(X, ThinkingOf(<<>>, "none", s.omit)))
      BY <1>2, <1>4, <3>1, <3>3, ThoughtShows
    <3>5. b \in Placements /\ b.kind = "thinking" /\ b.pieces = <<>> /\ b.signature = sg
      BY <3>3, PlacedType DEF Placed
    <3> HIDE DEF c, t, b
    <3>6. c \in Converters /\ c.omit = s.omit
      BY <3>4 DEF Kept
    <3>7. /\ Kept(c, t) /\ t.open = "thinking" /\ t.replay = <<>> /\ t.signature = sg
          /\ View(t, Replaced(Append(X, ThinkingOf(<<>>, "none", s.omit)), ThinkingOf(<<>>, sg, s.omit)))
      BY <3>2, <3>4, <3>6, SignatureShows
    <3>8. Replaced(Append(X, ThinkingOf(<<>>, "none", s.omit)), ThinkingOf(<<>>, sg, s.omit))
              = Append(X, ThinkingOf(<<>>, sg, s.omit))
      <4> DEFINE x == ThinkingOf(<<>>, "none", s.omit)
                 y == ThinkingOf(<<>>, sg, s.omit)
      <4>1. X \in Seq(ShownBlocks)
        BY <1>2 DEF View
      <4>2. "none" \in Signatures
        BY DEF Signatures
      <4>3. x \in ShownBlocks /\ y \in ShownBlocks
        BY <3>3, <4>2, ThinkingOfType
      <4> HIDE DEF x, y
      <4> QED BY <4>1, <4>3, ReplacedBehind DEF x, y
    <3>9. ShownOf(s.omit, Q) = Append(X, ThinkingOf(<<>>, sg, s.omit))
      <4>1. Append(P, b) = Q
        BY <2>3
      <4>2. Converted(NewAggregate, s.omit, b) = ThinkingOf(<<>>, sg, s.omit)
        BY <3>5 DEF Converted
      <4>3. ShownOf(s.omit, Append(P, b)) = Append(X, Converted(NewAggregate, s.omit, b))
        BY <1>2, <3>5, ShownOfType
      <4> HIDE DEF Q, X
      <4> QED BY <4>1, <4>2, <4>3
    <3>10. Q \in Seq(Placements) /\ NoToolIn(Q) /\ Q # <<>> /\ Len(Q) = 1 /\ Q[1] = b
      BY <3>5 DEF NoToolIn
    <3> HIDE DEF Q
    <3>11. /\ t \in Converters /\ t.deferred = <<>> /\ ~t.deferring /\ t.omit = s.omit
           /\ Stays(s, t)
      BY <1>4, <2>1, <3>4, <3>7 DEF Kept, Stays
    <3>12. Opened(t, Q)
      BY <3>5, <3>7, <3>10 DEF Opened, Ends
    <3>13. View(t, ShownOf(t.omit, Q))
      BY <3>7, <3>8, <3>9, <3>11
    <3>14. Tracks(t, Q)
      BY <3>10, <3>11, <3>12, <3>13, AllShown
    <3>15. SameCalls(s, t)
      BY <2>1, <3>11 DEF SameCalls
    <3> QED BY <2>2, <2>3, <3>11, <3>14, <3>15 DEF t, Q, b
  <2>4. CASE P # <<>>
    <3> DEFINE last == P[Len(P)]
               b == Signed(last, sg)
               Q == Replaced(P, b)
    <3>1. last \in Placements /\ last.kind = "thinking"
      BY <1>2, <2>2, <2>4 DEF Ends
    <3>2. s.open = "thinking" /\ s.replay = last.pieces
      BY <2>1, <2>4, <3>1, ConverterType DEF Opened, Ends
    <3>3. t = [s EXCEPT !.signature = sg]
      BY <1>4, <3>2 DEF Signing
    <3> HIDE DEF t
    <3>4. /\ Kept(s, t) /\ t.open = "thinking" /\ t.replay = s.replay /\ t.signature = sg
          /\ View(t, Replaced(X, ThinkingOf(s.replay, sg, s.omit)))
      BY <1>2, <3>2, <3>3, SignatureShows
    <3>5. b \in Placements /\ b.kind = "thinking" /\ b.pieces = last.pieces /\ b.signature = sg
          /\ b.index = last.index
      BY <3>1 DEF Signed, Placements
    <3>6. LastIs(Placements, P, b, Q)
      BY <1>2, <2>4, <3>5, Replacing
    <3>7. ShownOf(s.omit, Q) = Replaced(X, ThinkingOf(s.replay, sg, s.omit))
      <4> HIDE DEF b, last
      <4>1. Converted(NewAggregate, s.omit, b) = ThinkingOf(s.replay, sg, s.omit)
        BY <3>2, <3>5 DEF Converted
      <4> QED BY <1>2, <2>4, <3>5, <4>1, ShownOfType
    <3> HIDE DEF Q, b
    <3>8. Q \in Seq(Placements) /\ Q # <<>> /\ Len(Q) = Len(P) /\ Q[Len(Q)] = b
          /\ \A n \in 1..Len(P) : n # Len(P) => Q[n] = P[n]
      BY <3>6 DEF LastIs
    <3>9. NoToolIn(Q)
      <4>1. \A n \in 1..Len(Q) : Q[n].kind # "tool"
        BY <1>2, <3>5, <3>8 DEF NoToolIn
      <4> QED BY <4>1 DEF NoToolIn
    <3>10. /\ t \in Converters /\ t.deferred = <<>> /\ ~t.deferring /\ t.omit = s.omit
           /\ Stays(s, t)
      BY <1>4, <2>1, <3>4 DEF Kept, Stays
    <3>11. Opened(t, Q)
      BY <3>2, <3>4, <3>5, <3>8 DEF Opened, Ends
    <3>12. View(t, ShownOf(t.omit, Q))
      BY <3>4, <3>7, <3>10
    <3>13. Tracks(t, Q)
      BY <3>8, <3>9, <3>10, <3>11, <3>12, AllShown
    <3>14. SameCalls(s, t)
      BY <2>1, <3>10 DEF SameCalls
    <3> QED BY <2>2, <2>4, <3>10, <3>13, <3>14 DEF t, Q, b
  <2> QED BY <2>3, <2>4
<1> QED BY <1>3, <1>4

\* All that a call leaves.
CallKeeps(s, t) ==
    /\ t \in Converters
    /\ t.omit = s.omit /\ t.reason = s.reason /\ t.refused = s.refused
    /\ Block(s, t) /\ t.frames = s.frames

CallsBehind(items, tool, i) ==
    IF tool.piece = 0 THEN Append(items, CallBlock(i)) ELSE items

\* The place of a call among the blocks and the items.
LEMMA CallBlockType ==
    ASSUME NEW i \in Indices
    PROVE  /\ CallBlock(i) \in Placements /\ CallBlock(i).kind = "tool" /\ CallBlock(i).index = i
           /\ CallBlock(i) = [kind |-> "tool", pieces |-> <<>>, signature |-> "none", index |-> i]
<1>1. "tool" \in Kinds /\ "none" \in Signatures
  BY DEF Kinds, Signatures
<1>2. <<>> \in Seq(Nat)
  OBVIOUS
<1>3. CallBlock(i) \in Placements
  BY <1>1, <1>2, PlacedType DEF CallBlock
<1> QED BY <1>3 DEF CallBlock, Placed

\* A call is seen.
LEMMA CallSeen ==
    ASSUME NEW s \in Converters, NEW i \in Indices, NEW n \in Nat
    PROVE  LET t == Called(s, i, n)
           IN  /\ CallKeeps(s, t) /\ t.failed = s.failed
               /\ t.deferring = TRUE /\ t.semantic = TRUE
               /\ t.tools = Put(s.tools, i, Counted(s.tools[i], n))
               /\ t.tools[i] = Counted(s.tools[i], n)
               /\ t.deferred = CallsBehind(s.deferred, s.tools[i], i)
<1> DEFINE x == s.tools[i]
           c == Counted(x, n)
           ts == [s.tools EXCEPT ![i] = c]
           u == [s EXCEPT !.semantic = TRUE]
           v == [u EXCEPT !.deferring = TRUE]
           b == CallBlock(i)
           e == Append(s.deferred, b)
           t == Called(s, i, n)
<1>1. s.tools \in [Indices -> ToolStates] /\ s.deferred \in Seq(Placements) /\ x \in ToolStates
  BY DEF Converters
<1>2. c \in ToolStates
  BY <1>1 DEF Counted, ToolStates
<1>3. ts \in [Indices -> ToolStates] /\ ts[i] = c
  <2> HIDE DEF c
  <2> QED BY <1>1, <1>2
<1>4. b \in Placements
  BY CallBlockType
<1>5. e \in Seq(Placements)
  <2> HIDE DEF b
  <2> QED BY <1>1, <1>4
<1>6. /\ v \in Converters /\ v.omit = s.omit /\ v.reason = s.reason /\ v.refused = s.refused
      /\ Block(s, v) /\ v.frames = s.frames /\ v.failed = s.failed /\ v.deferring = TRUE
      /\ v.semantic = TRUE /\ v.tools = s.tools /\ v.deferred = s.deferred
  BY DEF Converters, Block
<1>7. Called(s, i, n) = IF x.piece # 0 THEN v
                        ELSE [v EXCEPT !.tools[i].piece = n,
                                       !.deferred = Append(v.deferred,
                                           [kind |-> "tool", pieces |-> <<>>,
                                            signature |-> "none", index |-> i])]
  BY DEF Called, Semantic
<1> HIDE DEF v, t
<1>8. CASE x.piece # 0
  <2>1. t = v
    BY <1>7, <1>8 DEF t
  <2>2. c = x
    BY <1>1, <1>8 DEF Counted, ToolStates
  <2>3. ts = s.tools
    <3> HIDE DEF c, x
    <3>1. ts = [s.tools EXCEPT ![i] = x]
      BY <2>2
    <3> QED BY <1>1, <3>1 DEF x
  <2> QED BY <1>3, <1>6, <1>8, <2>1, <2>3 DEF CallKeeps, CallsBehind, Put, t
<1>9. CASE x.piece = 0
  <2>1. c = [x EXCEPT !.piece = n]
    BY <1>9 DEF Counted
  <2>2. [v EXCEPT !.tools[i].piece = n,
                  !.deferred = Append(v.deferred, [kind |-> "tool", pieces |-> <<>>,
                                                   signature |-> "none", index |-> i])]
            = [v EXCEPT !.tools = ts, !.deferred = e]
    <3> DEFINE y == [kind |-> "tool", pieces |-> <<>>, signature |-> "none", index |-> i]
               f == Append(v.deferred, y)
               z == [x EXCEPT !.piece = n]
    <3>1. f = e
      BY <1>6, CallBlockType
    <3> HIDE DEF f, e, y
    <3>2. [v EXCEPT !.tools[i].piece = n, !.deferred = f]
              = [v EXCEPT !.tools = [s.tools EXCEPT ![i] = z], !.deferred = f]
      BY <1>6
    <3> HIDE DEF z, c
    <3>3. [s.tools EXCEPT ![i] = z] = ts
      BY <2>1 DEF z
    <3> QED BY <3>1, <3>2, <3>3 DEF f, y
  <2>3. t = [v EXCEPT !.tools = ts, !.deferred = e]
    BY <1>7, <1>9, <2>2 DEF t
  <2> HIDE DEF ts, e, c
  <2>4. /\ t \in Converters /\ t.omit = v.omit /\ t.reason = v.reason /\ t.refused = v.refused
        /\ Block(v, t) /\ t.frames = v.frames /\ t.failed = v.failed /\ t.deferring = v.deferring
        /\ t.semantic = v.semantic /\ t.tools = ts /\ t.deferred = e
    BY <1>3, <1>5, <1>6, <2>3 DEF Converters, Block
  <2>5. CallKeeps(s, t)
    BY <1>6, <2>4 DEF CallKeeps, Block
  <2> QED BY <1>3, <1>6, <1>9, <2>4, <2>5 DEF CallsBehind, Put, t, ts, e, c
<1> QED BY <1>8, <1>9

\* A fragment of a call.
LEMMA FragmentMerged ==
    ASSUME NEW s \in Converters, NEW i \in Indices, NEW fragment \in Fragments
    PROVE  LET t == Merged(s, i, fragment)
           IN  /\ CallKeeps(s, t) /\ t.failed = s.failed
               /\ t.deferring = s.deferring /\ t.semantic = s.semantic
               /\ t.tools = Put(s.tools, i, MergedTool(s.tools[i], fragment))
               /\ t.deferred = s.deferred
<1> DEFINE x == s.tools[i]
           m == MergedTool(x, fragment)
           f == x.named \/ fragment.named
           g == ArgumentsWith(x.args, fragment.args)
           ts == [s.tools EXCEPT ![i] = m]
           t == Merged(s, i, fragment)
<1>1. s.tools \in [Indices -> ToolStates] /\ x \in ToolStates
  BY DEF Converters
<1>2. m \in ToolStates
  BY <1>1, MergedToolType
<1>3. ts \in [Indices -> ToolStates]
  <2> HIDE DEF m
  <2> QED BY <1>1, <1>2
<1>4. t = [s EXCEPT !.tools[i].named = f, !.tools[i].args = g]
  BY <1>1 DEF Merged, Converters, ToolStates
<1>5. m = [[x EXCEPT !.named = f] EXCEPT !.args = g]
  BY DEF MergedTool
<1> HIDE DEF m, f, g, t
<1>6. t = [s EXCEPT !.tools = ts]
  <2> DEFINE v1 == [s.tools EXCEPT ![i] = [x EXCEPT !.named = f]]
             v2 == [v1 EXCEPT ![i] = [v1[i] EXCEPT !.args = g]]
  <2>1. v2 = ts
    BY <1>1, <1>5
  <2>2. [s EXCEPT !.tools[i].named = f, !.tools[i].args = g] = [s EXCEPT !.tools = v2]
    BY <1>1 DEF Converters
  <2> QED BY <1>4, <2>1, <2>2
<1> HIDE DEF ts
<1>7. /\ CallKeeps(s, t) /\ t.failed = s.failed
      /\ t.deferring = s.deferring /\ t.semantic = s.semantic
      /\ t.tools = ts /\ t.deferred = s.deferred
  BY <1>3, <1>6 DEF Converters, CallKeeps, Block
<1> QED BY <1>7 DEF t, ts, m, Put

Identified(s, i, id) == [s EXCEPT !.tools[i].id = id]

WithId(tool, id) == [tool EXCEPT !.id = id]

\* A call has an id.
LEMMA CallNamed ==
    ASSUME NEW s \in Converters, NEW i \in Indices, NEW id \in Ids \cup {"", Generated}
    PROVE  LET t == Identified(s, i, id)
           IN  /\ CallKeeps(s, t) /\ t.failed = s.failed
               /\ t.deferring = s.deferring /\ t.semantic = s.semantic
               /\ t.tools = Put(s.tools, i, WithId(s.tools[i], id))
               /\ t.deferred = s.deferred
<1> DEFINE x == s.tools[i]
           y == [x EXCEPT !.id = id]
           ts == [s.tools EXCEPT ![i] = y]
           t == Identified(s, i, id)
<1>1. s.tools \in [Indices -> ToolStates] /\ x \in ToolStates
  BY DEF Converters
<1>2. y \in ToolStates
  BY <1>1 DEF ToolStates
<1>3. ts \in [Indices -> ToolStates]
  <2> HIDE DEF y
  <2> QED BY <1>1, <1>2
<1>4. t = [s EXCEPT !.tools = ts]
  BY DEF Identified
<1> HIDE DEF t, ts
<1>5. /\ CallKeeps(s, t) /\ t.failed = s.failed
      /\ t.deferring = s.deferring /\ t.semantic = s.semantic
      /\ t.tools = ts /\ t.deferred = s.deferred
  BY <1>3, <1>4 DEF Converters, CallKeeps, Block
<1> QED BY <1>5 DEF t, ts, Put, WithId

\* A call written twice has the last value.
LEMMA WrittenTwice ==
    ASSUME NEW f \in [Indices -> ToolStates], NEW i \in Indices,
           NEW x \in ToolStates, NEW y \in ToolStates
    PROVE  /\ Put(f, i, x) \in [Indices -> ToolStates] /\ Put(f, i, x)[i] = x
           /\ Put(Put(f, i, x), i, y) = Put(f, i, y)
           /\ \A j \in Indices \ {i} : Put(f, i, x)[j] = f[j]
BY DEF Put

\* A fragment of a call changes the call as it does in the aggregate; the first
\* adds an item behind the others.
LEMMA CallTaken ==
    ASSUME NEW s \in Converters, NEW i \in Indices, NEW fragment \in Fragments, NEW n \in Nat
    PROVE  LET t == OnToolCall(s, i, fragment, n)
           IN  /\ CallKeeps(s, t)
               /\ t.failed = IF Clashes(s.tools[i], fragment) THEN TRUE ELSE s.failed
               /\ t.deferring = TRUE /\ t.semantic = TRUE
               /\ t.tools = Put(s.tools, i, Taken(s.tools[i], fragment, n))
               /\ t.deferred = CallsBehind(s.deferred, s.tools[i], i)
<1> DEFINE x == s.tools[i]
           c == Counted(x, n)
           d == Named(c, fragment)
           m == MergedTool(d, fragment)
           e == CallsBehind(s.deferred, x, i)
           u == Called(s, i, n)
           w == Identified(u, i, fragment.id)
           t == OnToolCall(s, i, fragment, n)
<1>1. s.tools \in [Indices -> ToolStates] /\ x \in ToolStates /\ s.failed \in BOOLEAN
  BY DEF Converters
<1>2. c \in ToolStates /\ d \in ToolStates /\ c.id = x.id
  BY <1>1, TakenType
<1>3. m \in ToolStates
  <2> HIDE DEF d
  <2> QED BY <1>2, MergedToolType
<1>4. /\ CallKeeps(s, u) /\ u.failed = s.failed /\ u.deferring = TRUE /\ u.semantic = TRUE
      /\ u.tools = Put(s.tools, i, c) /\ u.tools[i] = c /\ u.deferred = e
  <2> HIDE DEF u
  <2> QED BY CallSeen DEF u
<1>5. u \in Converters
  BY <1>4 DEF CallKeeps
<1>6. fragment.id \in Ids \cup {"", Generated}
  BY ConverterAssumption
<1>7. t = IF fragment.id = "" THEN Merged(u, i, fragment)
          ELSE IF u.tools[i].id \notin {"", fragment.id} THEN Fail(u)
          ELSE Merged(w, i, fragment)
  BY DEF OnToolCall, Identified
<1> HIDE DEF t, u, m, c, x, e
<1>8. CASE fragment.id = ""
  <2> DEFINE v == Merged(u, i, fragment)
  <2>1. t = v /\ ~Clashes(x, fragment)
    BY <1>7, <1>8 DEF Clashes
  <2>2. d = c
    BY <1>2, <1>8 DEF Named, ToolStates
  <2>3. m = MergedTool(c, fragment)
    <3> HIDE DEF d
    <3> QED BY <2>2 DEF m
  <2>4. /\ CallKeeps(u, v) /\ v.failed = u.failed
        /\ v.deferring = u.deferring /\ v.semantic = u.semantic
        /\ v.tools = Put(u.tools, i, m)
        /\ v.deferred = u.deferred
    <3> HIDE DEF v
    <3> QED BY <1>4, <1>5, <2>3, FragmentMerged DEF v
  <2> HIDE DEF v
  <2>5. v.tools = Put(s.tools, i, m)
    BY <1>1, <1>2, <1>3, <1>4, <2>4, WrittenTwice
  <2>6. m = Taken(x, fragment, n)
    BY <2>1 DEF Taken, m, c
  <2>7. CallKeeps(s, t)
    BY <1>4, <2>1, <2>4 DEF CallKeeps, Block
  <2> QED BY <1>1, <1>4, <2>1, <2>4, <2>5, <2>6, <2>7 DEF t, x, e
<1>9. CASE fragment.id # "" /\ Clashes(x, fragment)
  <2>1. t = Fail(u)
    BY <1>2, <1>4, <1>7, <1>9 DEF Clashes
  <2>2. /\ t \in Converters /\ t.omit = u.omit /\ t.reason = u.reason /\ t.refused = u.refused
        /\ Block(u, t) /\ t.frames = u.frames /\ t.failed = TRUE /\ t.deferring = u.deferring
        /\ t.semantic = u.semantic /\ t.tools = u.tools /\ t.deferred = u.deferred
    BY <1>5, <2>1 DEF Fail, Converters, Block
  <2>3. CallKeeps(s, t)
    BY <1>4, <2>2 DEF CallKeeps, Block
  <2>4. c = Taken(x, fragment, n)
    BY <1>9 DEF Taken, c
  <2> QED BY <1>4, <1>9, <2>2, <2>3, <2>4 DEF t, x, e
<1>10. CASE fragment.id # "" /\ ~Clashes(x, fragment)
  <2> DEFINE v == Merged(w, i, fragment)
  <2>1. t = v
    BY <1>2, <1>4, <1>7, <1>10 DEF Clashes
  <2>2. d = WithId(c, fragment.id)
    BY <1>10 DEF Named, WithId
  <2> HIDE DEF d
  <2>3. /\ CallKeeps(u, w) /\ w.failed = u.failed
        /\ w.deferring = u.deferring /\ w.semantic = u.semantic
        /\ w.tools = Put(u.tools, i, d)
        /\ w.deferred = u.deferred
    <3> HIDE DEF w
    <3> QED BY <1>4, <1>5, <1>6, <2>2, CallNamed DEF w
  <2> HIDE DEF w
  <2>4. w \in Converters
    BY <2>3 DEF CallKeeps
  <2>5. w.tools = Put(s.tools, i, d) /\ w.tools[i] = d
    BY <1>1, <1>2, <1>4, <2>3, WrittenTwice
  <2>6. /\ CallKeeps(w, v) /\ v.failed = w.failed
        /\ v.deferring = w.deferring /\ v.semantic = w.semantic
        /\ v.tools = Put(w.tools, i, m)
        /\ v.deferred = w.deferred
    <3> HIDE DEF v
    <3> QED BY <2>4, <2>5, FragmentMerged DEF v, m
  <2> HIDE DEF v
  <2>7. v.tools = Put(s.tools, i, m)
    BY <1>1, <1>2, <1>3, <2>5, <2>6, WrittenTwice
  <2>8. m = Taken(x, fragment, n)
    BY <1>10 DEF Taken, m, c, d
  <2>9. CallKeeps(s, t)
    BY <1>4, <2>1, <2>3, <2>6 DEF CallKeeps, Block
  <2> QED BY <1>1, <1>4, <1>10, <2>1, <2>3, <2>6, <2>7, <2>8, <2>9 DEF t, x, e
<1> QED BY <1>8, <1>9, <1>10

\* What a function_call makes of call 0.
Superseded(tool, fragment, n) ==
    LET c == Counted(tool, n)
    IN  MergedTool(WithId(c, IF c.id = "" THEN Generated ELSE c.id), fragment)

\* A function_call is call 0, with an id that is made up.
LEMMA FunctionCallTaken ==
    ASSUME NEW s \in Converters, NEW fragment \in Fragments, NEW n \in Nat
    PROVE  LET t == OnFunctionCall(s, fragment, n)
           IN  /\ CallKeeps(s, t) /\ t.failed = s.failed
               /\ t.deferring = TRUE /\ t.semantic = TRUE
               /\ t.tools = Put(s.tools, 0, Superseded(s.tools[0], fragment, n))
               /\ t.deferred = CallsBehind(s.deferred, s.tools[0], 0)
<1> DEFINE x == s.tools[0]
           c == Counted(x, n)
           g == IF c.id = "" THEN Generated ELSE c.id
           d == WithId(c, g)
           m == MergedTool(d, fragment)
           e == CallsBehind(s.deferred, x, 0)
           u == Called(s, 0, n)
           w == Identified(u, 0, g)
           v == Merged(w, 0, fragment)
           t == OnFunctionCall(s, fragment, n)
<1>1. 0 \in Indices
  BY ConverterAssumption
<1>2. s.tools \in [Indices -> ToolStates] /\ x \in ToolStates
  BY <1>1 DEF Converters
<1>3. c \in ToolStates
  BY <1>2 DEF Counted, ToolStates
<1> HIDE DEF c
<1>4. g \in Ids \cup {"", Generated}
  BY <1>3 DEF ToolStates
<1>5. d \in ToolStates
  BY <1>3, <1>4 DEF ToolStates, WithId
<1>6. m \in ToolStates
  <2> HIDE DEF d
  <2> QED BY <1>5, MergedToolType
<1>7. /\ CallKeeps(s, u) /\ u.failed = s.failed /\ u.deferring = TRUE /\ u.semantic = TRUE
      /\ u.tools = Put(s.tools, 0, c) /\ u.tools[0] = c /\ u.deferred = e
  <2> HIDE DEF u
  <2> QED BY <1>1, CallSeen DEF u, c
<1>8. u \in Converters
  BY <1>7 DEF CallKeeps
<1>9. t = v
  <2>1. t = Merged(Identified(u, 0, IF u.tools[0].id = "" THEN Generated
                                    ELSE u.tools[0].id), 0, fragment)
    <3> HIDE DEF u
    <3> QED BY <1>1, <1>2, <1>7, <1>8 DEF OnFunctionCall, u, Converters, Identified
  <2> HIDE DEF u
  <2> QED BY <1>7, <2>1
<1> HIDE DEF t, u, g, d, m, e, x
<1>10. /\ CallKeeps(u, w) /\ w.failed = u.failed
       /\ w.deferring = u.deferring /\ w.semantic = u.semantic
       /\ w.tools = Put(u.tools, 0, d)
       /\ w.deferred = u.deferred
  <2> HIDE DEF w
  <2> QED BY <1>1, <1>4, <1>7, <1>8, CallNamed DEF w, d
<1> HIDE DEF w
<1>11. w \in Converters
  BY <1>10 DEF CallKeeps
<1>12. w.tools = Put(s.tools, 0, d) /\ w.tools[0] = d
  BY <1>1, <1>2, <1>3, <1>5, <1>7, <1>10, WrittenTwice
<1>13. /\ CallKeeps(w, v) /\ v.failed = w.failed
       /\ v.deferring = w.deferring /\ v.semantic = w.semantic
       /\ v.tools = Put(w.tools, 0, m)
       /\ v.deferred = w.deferred
  <2> HIDE DEF v
  <2> QED BY <1>1, <1>11, <1>12, FragmentMerged DEF v, m
<1> HIDE DEF v
<1>14. v.tools = Put(s.tools, 0, m)
  BY <1>1, <1>2, <1>5, <1>6, <1>12, <1>13, WrittenTwice
<1>15. CallKeeps(s, v)
  BY <1>7, <1>10, <1>13 DEF CallKeeps, Block
<1>16. m = Superseded(x, fragment, n)
  BY DEF Superseded, m, d, g, c
<1> QED BY <1>7, <1>9, <1>10, <1>13, <1>14, <1>15, <1>16 DEF t, x, e

\* A call shows nothing before the end.
LEMMA CallHides ==
    ASSUME NEW s \in Converters, NEW t, CallKeeps(s, t), NEW X, View(s, X)
    PROVE  View(t, X)
BY DEF CallKeeps, Block, View

\* An item behind others.
LEMMA ItemBehind ==
    ASSUME NEW P \in Seq(Placements), NEW d \in Seq(Placements), NEW b \in Placements
    PROVE  /\ P \o Append(d, b) = Append(P \o d, b)
           /\ Append(d, b) \in Seq(Placements) /\ Append(d, b) # <<>>
           /\ Len(Append(d, b)) = Len(d) + 1 /\ Len(d) \in Nat
           /\ Append(d, b)[Len(d) + 1] = b
           /\ \A n \in 1..Len(d) : Append(d, b)[n] = d[n]
OBVIOUS

\* What is seen of the calls once one more is.
LEMMA NamedBehind ==
    ASSUME NEW d \in Seq(Placements), NEW b \in Placements, b.kind = "tool"
    PROVE  \A i : Names(Append(d, b), i) <=> (Names(d, i) \/ b.index = i)
<1> DEFINE e == Append(d, b)
           N == Len(d)
<1>1. /\ Len(e) = N + 1 /\ N \in Nat /\ e[N + 1] = b
      /\ \A n \in 1..N : e[n] = d[n]
  BY ItemBehind
<1> HIDE DEF e, N
<1>2. \A n : n \in 1..(N + 1) <=> (n \in 1..N \/ n = N + 1)
  BY <1>1
<1> QED BY <1>1, <1>2 DEF Names, e, N

\* A fragment of call i has its place, or is given one.
CallPlaced(s, t, tool, i) ==
    /\ tool.piece # 0 => Names(s.deferred, i)
    /\ CallKeeps(s, t) /\ t.deferring = TRUE /\ t.deferred = CallsBehind(s.deferred, tool, i)

\* Call i is named as well.
NamesToo(d, e, i) == \A j : Names(e, j) <=> (Names(d, j) \/ j = i)

\* A call keeps the division: the first ends what is shown.
LEMMA CallTracks ==
    ASSUME NEW s \in Converters, NEW bs, Tracks(s, bs), NEW i \in Indices,
           NEW tool \in ToolStates, NEW t, CallPlaced(s, t, tool, i)
    PROVE  /\ Tracks(t, CallsBehind(bs, tool, i))
           /\ NamesToo(s.deferred, t.deferred, i)
<1> DEFINE d == s.deferred
           b == CallBlock(i)
<1>0. /\ tool.piece # 0 => Names(s.deferred, i)
      /\ CallKeeps(s, t) /\ t.deferring = TRUE /\ t.deferred = CallsBehind(s.deferred, tool, i)
  BY DEF CallPlaced
<1>1. PICK P : Divided(s, bs, P)
  BY DEF Tracks
<1>2. /\ P \in Seq(Placements) /\ bs = P \o d /\ NoToolIn(P) /\ View(s, ShownOf(s.omit, P))
      /\ IF s.deferring THEN d # <<>> /\ d[1].kind = "tool" ELSE d = <<>>
      /\ Apart(d)
  BY <1>1 DEF Divided, Tracks
<1>3. d \in Seq(Placements)
  BY DEF Converters
<1>4. View(t, ShownOf(t.omit, P))
  <2>1. t.omit = s.omit
    BY <1>0 DEF CallKeeps
  <2> QED BY <1>0, <1>2, <2>1, CallHides
<1>5. b \in Placements /\ b.kind = "tool" /\ b.index = i
  BY CallBlockType
<1>6. CASE tool.piece = 0
  <2> DEFINE e == Append(d, b)
             N == Len(d)
  <2>1. t.deferred = e /\ CallsBehind(bs, tool, i) = Append(bs, b)
    BY <1>0, <1>6 DEF CallsBehind
  <2> HIDE DEF b, d
  <2>2. /\ P \o e = Append(P \o d, b) /\ e \in Seq(Placements) /\ e # <<>>
        /\ Len(e) = N + 1 /\ N \in Nat /\ e[N + 1] = b
        /\ \A n \in 1..N : e[n] = d[n]
    <3>1. P \in Seq(Placements) /\ d \in Seq(Placements) /\ b \in Placements
      BY <1>2, <1>3, <1>5 DEF d
    <3> QED BY ONLY <3>1, ItemBehind
  <2> HIDE DEF e
  <2>3. e[1].kind = "tool"
    <3>1. CASE d = <<>>
      <4>1. N = 0
        BY <3>1
      <4> QED BY <1>5, <2>2, <4>1
    <3>2. CASE d # <<>>
      <4>1. 1 \in 1..N
        BY <1>3, <3>2
      <4> QED BY <1>2, <2>2, <3>2, <4>1
    <3> QED BY <3>1, <3>2
  <2>4. Apart(e)
    <3> HIDE DEF N
    <3> SUFFICES ASSUME NEW n \in 1..Len(e), n < Len(e)
                 PROVE  ~(e[n].kind = "thinking" /\ e[n + 1].kind = "thinking")
      BY DEF Apart
    <3>1. n \in 1..N
      BY <2>2
    <3>2. CASE n = N
      <4>1. e[n + 1].kind = "tool"
        BY <1>5, <2>2, <3>2
      <4> QED BY <4>1
    <3>3. CASE n # N
      <4>1. n + 1 \in 1..N /\ n < N
        BY <2>2, <3>1, <3>3
      <4>2. ~(d[n].kind = "thinking" /\ d[n + 1].kind = "thinking")
        BY <1>2, <3>1, <4>1 DEF Apart, N
      <4> QED BY <2>2, <3>1, <4>1, <4>2
    <3> QED BY <3>2, <3>3
  <2>5. Divided(t, Append(bs, b), P)
    BY <1>0, <1>2, <1>4, <2>1, <2>2, <2>3 DEF Divided
  <2>6. Tracks(t, CallsBehind(bs, tool, i))
    BY <2>1, <2>4, <2>5 DEF Tracks
  <2>7. \A j : Names(e, j) <=> (Names(d, j) \/ b.index = j)
    BY <1>3, <1>5, NamedBehind DEF e
  <2> QED BY <1>5, <1>6, <2>1, <2>6, <2>7 DEF d, NamesToo
<1>7. CASE tool.piece # 0
  <2>1. t.deferred = d /\ CallsBehind(bs, tool, i) = bs
    BY <1>0, <1>7 DEF CallsBehind
  <2>2. d # <<>>
    <3>1. Names(d, i)
      BY <1>0, <1>7
    <3>2. PICK n \in 1..Len(d) : TRUE
      BY <3>1 DEF Names
    <3> QED BY <3>2
  <2> HIDE DEF d
  <2>3. Divided(t, bs, P)
    BY <1>0, <1>2, <1>4, <2>1, <2>2 DEF Divided
  <2>4. Names(d, i)
    BY <1>0, <1>7 DEF d
  <2>5. \A j : Names(d, j) <=> (Names(d, j) \/ j = i)
    BY <2>4
  <2> QED BY <1>2, <1>7, <2>1, <2>3, <2>5 DEF Tracks, NamesToo, d
<1> QED BY <1>6, <1>7

\* A signature changes nothing else, wherever it goes.
LEMMA SigningKeeps ==
    ASSUME NEW s \in Converters, NEW sg \in Signatures
    PROVE  Stays(s, Signing(s, sg))
<1> DEFINE t == Signing(s, sg)
           p == Placed("thinking", <<>>, "none", 0)
           ends == s.deferred # <<>> /\ Last(s.deferred).kind = "thinking"
           e == IF ends THEN s.deferred ELSE Append(s.deferred, p)
           b == Signed(e[Len(e)], sg)
           v == IF s.open = "none" THEN EmitThinking(s, <<>>) ELSE s
<1>1. s.deferred \in Seq(Placements)
  BY DEF Converters
<1>2. CASE s.deferring
  <2> DEFINE d == [s EXCEPT !.deferred = e]
  <2>1. p \in Placements
    <3>1. <<>> \in Seq(Nat)
      OBVIOUS
    <3>2. "thinking" \in Kinds /\ "none" \in Signatures /\ 0 \in Indices
      BY ConverterAssumption DEF Kinds, Signatures
    <3> QED BY <3>1, <3>2, PlacedType
  <2>2. (IF ends THEN s ELSE [s EXCEPT !.deferred = Append(s.deferred, p)]) = d
    BY DEF Converters
  <2> HIDE DEF p
  <2>3. e \in Seq(Placements) /\ e # <<>>
    BY <1>1, <2>1
  <2>4. t = [d EXCEPT !.deferred[Len(d.deferred)].signature = sg]
    <3> DEFINE dd == IF ends THEN s ELSE [s EXCEPT !.deferred = Append(s.deferred, p)]
    <3>1. t = [dd EXCEPT !.deferred[Len(dd.deferred)].signature = sg]
      BY <1>2 DEF Signing, p
    <3> HIDE DEF dd, d, t
    <3>2. dd = d
      BY <2>2 DEF dd
    <3> QED BY <3>1, <3>2
  <2> HIDE DEF e
  <2>5. d.deferred = e /\ Stays(s, d)
    BY <2>3 DEF Converters, Stays
  <2> DEFINE N == Len(e)
  <2>6. t = [d EXCEPT !.deferred = Replaced(e, b)]
    <3>1. [d EXCEPT !.deferred[N].signature = sg]
              = [d EXCEPT !.deferred = [e EXCEPT ![N] = [e[N] EXCEPT !.signature = sg]]]
      BY <2>5
    <3> HIDE DEF d, t
    <3> QED BY <2>4, <2>5, <3>1 DEF Replaced, Signed
  <2>7. e[N] \in Placements
    BY <2>3
  <2>8. b \in Placements
    BY <2>7 DEF Signed, Placements
  <2> HIDE DEF b, N
  <2>9. Replaced(e, b) \in Seq(Placements)
    BY <2>3, <2>8, Replacing DEF LastIs
  <2> DEFINE f == Replaced(e, b)
  <2> HIDE DEF f, d, t
  <2>10. Stays(d, [d EXCEPT !.deferred = f])
    BY <2>5, <2>9 DEF Stays, Converters, f
  <2> QED BY <2>5, <2>6, <2>10 DEF Stays, f, t
<1>3. CASE ~s.deferring
  <2>1. t = [v EXCEPT !.signature = sg]
    BY <1>3 DEF Signing
  <2>2. Stays(s, v)
    <3>1. CASE s.open # "none"
      BY <3>1 DEF Stays
    <3>2. CASE s.open = "none"
      <4> DEFINE d == EnsureBlock(s, "thinking")
                 r == d.replay \o <<>>
      <4>1. v = [d EXCEPT !.replay = r]
        BY <1>3, <3>2 DEF EmitThinking
      <4>2. Kept(s, d)
        BY EnsuredKeeps
      <4>3. d \in Converters
        BY <4>2 DEF Kept
      <4> HIDE DEF d
      <4>4. d.replay \in Seq(Nat)
        BY <4>3, ConverterType
      <4>5. r \in Seq(Nat)
        BY <4>4
      <4> HIDE DEF r, v
      <4>6. Kept(d, v)
        BY <4>1, <4>3, <4>5 DEF Kept, Converters
      <4> QED BY <4>2, <4>6 DEF Kept, Stays
    <3> QED BY <3>1, <3>2
  <2> HIDE DEF v
  <2>3. Stays(v, [v EXCEPT !.signature = sg])
    BY <2>2 DEF Stays, Converters
  <2> QED BY <2>1, <2>2, <2>3 DEF Stays
<1> QED BY <1>2, <1>3

\* A converter that knows of output and has started the message.
Ready(s) == Semantic(EnsureStarted(s))

\* Both leave what a client shows.
LEMMA Begun ==
    ASSUME NEW s \in Converters
    PROVE  LET t == Ready(s)
           IN  /\ t \in Converters /\ t.semantic = TRUE
               /\ t.omit = s.omit /\ t.tools = s.tools /\ t.deferred = s.deferred
               /\ t.deferring = s.deferring /\ t.reason = s.reason /\ t.refused = s.refused
               /\ t.failed = s.failed /\ Block(s, t)
               /\ \A X : View(s, X) => View(t, X)
               /\ \A bs : Tracks(s, bs) => Tracks(t, bs)
<1> DEFINE u == EnsureStarted(s)
           t == Ready(s)
<1>1. Kept(s, u) /\ Block(s, u) /\ \A X : View(s, X) => View(u, X)
  <2> HIDE DEF u
  <2> QED BY StartKeeps DEF u
<1>2. u \in Converters
  BY <1>1 DEF Kept
<1>3. t = [u EXCEPT !.semantic = TRUE]
  BY DEF Ready, Semantic
<1> HIDE DEF u, t
<1>4. /\ t \in Converters /\ t.semantic = TRUE
      /\ t.omit = u.omit /\ t.tools = u.tools /\ t.deferred = u.deferred
      /\ t.deferring = u.deferring /\ t.reason = u.reason /\ t.refused = u.refused
      /\ t.failed = u.failed /\ Block(u, t) /\ t.frames = u.frames
  BY <1>2, <1>3 DEF Converters, Block
<1>5. ASSUME NEW X, View(s, X) PROVE View(t, X)
  <2>1. View(u, X)
    BY <1>1, <1>5
  <2> QED BY <1>4, <2>1 DEF View, Block
<1>6. /\ t.omit = s.omit /\ t.tools = s.tools /\ t.deferred = s.deferred
      /\ t.deferring = s.deferring /\ t.reason = s.reason /\ t.refused = s.refused
      /\ t.failed = s.failed /\ Block(s, t)
  BY <1>1, <1>4 DEF Kept, Block
<1>7. ASSUME NEW bs, Tracks(s, bs) PROVE Tracks(t, bs)
  <2>1. PICK P : Divided(s, bs, P)
    BY <1>7 DEF Tracks
  <2>2. View(t, ShownOf(t.omit, P))
    BY <1>5, <1>6, <2>1 DEF Divided
  <2>3. Divided(t, bs, P)
    BY <1>6, <2>1, <2>2 DEF Divided, Opened, Block
  <2> QED BY <1>6, <1>7, <2>3 DEF Tracks
<1> QED BY <1>4, <1>5, <1>6, <1>7 DEF t

-----------------------------------------------------------------------------
(* The converter and the aggregate know the same of an answer.              *)

\* Nothing but calls.
Bare(a) == a.thinking = <<>> /\ a.text = <<>> /\ a.attached = <<>> /\ a.refusal = <<>>

\* The same calls and refusal, and the same blocks: sent or deferred.
InStep(c, a) ==
    /\ c.tools = a.tools /\ Tracks(c, a.blocks)
    /\ c.refused <=> (a.refusal # <<>>)
    /\ c.semantic <=> (a.blocks # <<>>)
    /\ \A i \in Indices : (a.tools[i].piece # 0) <=> Names(c.deferred, i)
    /\ \A i \in Indices : a.tools[i].piece = 0 => a.tools[i] = NoTool
    /\ a.blocks = <<>> => Bare(a)

\* A function_call and nothing else: the converter has it as call 0.
Alone(c, a) ==
    /\ Bare(a) /\ CallsOf(a) = {}
    /\ c.open = "none" /\ View(c, <<>>) /\ c.deferring = TRUE
    /\ c.deferred = <<CallBlock(0)>>
    /\ c.tools[0] = WithId(a.legacy, Generated)
    /\ \A i \in Indices \ {0} : c.tools[i].piece = 0
    /\ ~c.refused /\ c.semantic = TRUE

\* What may be signed is the last block.
Knows(bs, log) == bs # <<>> /\ (log # <<>> => Last(log) = "thinking") => Ends(bs, "thinking")

Agree(c, a, log) ==
    /\ c \in Converters /\ a \in Aggregates /\ log \in Seq(Members)
    /\ c.failed = a.failed /\ c.reason = a.reason /\ a.signature = "none"
    /\ a.legacy.piece = 0 => a.legacy = NoTool
    /\ ~HasLegacy(a) => InStep(c, a) /\ Knows(a.blocks, log)
    /\ HasLegacy(a) /\ a.blocks = <<>> => Alone(c, a)

\* Output other than a call, in both.
Adds(c, a, d, b, log) ==
    /\ d \in Converters /\ d.tools = c.tools /\ d.reason = c.reason /\ d.failed = c.failed
    /\ d.semantic = TRUE
    /\ b \in Aggregates /\ Keeps(b, a) /\ b.blocks # <<>> /\ log \in Seq(Members)
    /\ ~HasLegacy(a) => /\ Tracks(d, b.blocks) /\ SameCalls(c, d) /\ Knows(b.blocks, log)
                        /\ d.refused <=> (b.refusal # <<>>)

\* ... keeps them in step.
LEMMA AddedAgrees ==
    ASSUME NEW c, NEW a, NEW log, Agree(c, a, log), NEW d, NEW b, NEW more,
           Adds(c, a, d, b, more)
    PROVE  Agree(d, b, more)
<1>1. /\ d \in Converters /\ d.tools = c.tools /\ d.reason = c.reason /\ d.failed = c.failed
      /\ d.semantic = TRUE
      /\ b \in Aggregates /\ b.blocks # <<>> /\ more \in Seq(Members)
      /\ b.signature = a.signature /\ b.tools = a.tools /\ b.legacy = a.legacy
      /\ b.reason = a.reason /\ b.failed = a.failed
  BY DEF Adds, Keeps
<1>2. HasLegacy(b) <=> HasLegacy(a)
  BY <1>1 DEF HasLegacy
<1>3. ASSUME ~HasLegacy(a) PROVE InStep(d, b) /\ Knows(b.blocks, more)
  <2>1. /\ Tracks(d, b.blocks) /\ SameCalls(c, d) /\ Knows(b.blocks, more)
        /\ d.refused <=> (b.refusal # <<>>)
    BY <1>3 DEF Adds
  <2>2. InStep(c, a)
    BY <1>3 DEF Agree
  <2>3. \A i \in Indices : (b.tools[i].piece # 0) <=> Names(d.deferred, i)
    BY <1>1, <2>1, <2>2 DEF InStep, SameCalls
  <2>4. \A i \in Indices : b.tools[i].piece = 0 => b.tools[i] = NoTool
    BY <1>1, <2>2 DEF InStep
  <2>5. d.tools = b.tools
    BY <1>1, <2>2 DEF InStep
  <2> QED BY <1>1, <2>1, <2>3, <2>4, <2>5 DEF InStep
<1>4. /\ d.failed = b.failed /\ d.reason = b.reason /\ b.signature = "none"
      /\ b.legacy.piece = 0 => b.legacy = NoTool
  BY <1>1 DEF Agree
<1> QED BY <1>1, <1>2, <1>3, <1>4 DEF Agree

\* One more member in the log.
LEMMA LogLonger ==
    ASSUME NEW log \in Seq(Members), NEW member \in Members
    PROVE  /\ Append(log, member) \in Seq(Members) /\ Append(log, member) # <<>>
           /\ Last(Append(log, member)) = member
<1>1. /\ Append(log, member) \in Seq(Members) /\ Append(log, member) # <<>>
      /\ Append(log, member)[Len(Append(log, member))] = member
  OBVIOUS
<1> QED BY <1>1 DEF Last

\* Reasoning.
LEMMA ThoughtAgrees ==
    ASSUME NEW c, NEW a, NEW log, Agree(c, a, log), NEW n \in Nat
    PROVE  Agree(OnThinking(EnsureStarted(c), n), AddThinking(a, n), Append(log, "thinking"))
<1> DEFINE s == Ready(c)
           d == EmitThinking(s, <<n>>)
           b == AddThinking(a, n)
           more == Append(log, "thinking")
<1>1. c \in Converters /\ a \in Aggregates /\ log \in Seq(Members)
  BY DEF Agree
<1>2. OnThinking(EnsureStarted(c), n) = d
  BY DEF OnThinking, Ready
<1>3. /\ s \in Converters /\ s.semantic = TRUE
      /\ s.tools = c.tools /\ s.deferred = c.deferred
      /\ s.reason = c.reason /\ s.refused = c.refused /\ s.failed = c.failed
      /\ \A bs : Tracks(c, bs) => Tracks(s, bs)
  <2> HIDE DEF s
  <2> QED BY <1>1, Begun DEF s
<1> HIDE DEF s
<1>4. Stays(s, d)
  BY <1>3, EmitKeeps
<1>5. /\ b \in Aggregates /\ Keeps(b, a) /\ b.blocks = Grown(a.blocks, "thinking", n)
      /\ b.refusal = a.refusal
  <2> HIDE DEF b
  <2> QED BY <1>1, PiecesAdded DEF b
<1>6. a.blocks \in Seq(Placements) /\ "thinking" \in Kinds
  BY <1>1 DEF Aggregates, Kinds
<1>7. b.blocks # <<>>
  BY <1>5, <1>6, GrownType
<1>8. more \in Seq(Members)
  <2>1. "thinking" \in Members
    BY DEF Members
  <2> QED BY <1>1, <2>1, LogLonger
<1> HIDE DEF d, b, more
<1>9. ASSUME ~HasLegacy(a)
      PROVE  /\ Tracks(d, b.blocks) /\ SameCalls(c, d) /\ Knows(b.blocks, more)
             /\ d.refused <=> (b.refusal # <<>>)
  <2>1. InStep(c, a)
    BY <1>9 DEF Agree
  <2>2. Tracks(s, a.blocks)
    BY <1>3, <2>1 DEF InStep
  <2>3. Tracks(d, Grown(a.blocks, "thinking", n)) /\ SameCalls(s, d)
    BY <1>3, <2>2, ThoughtTracks DEF d
  <2>4. Continued(a.blocks, Grown(a.blocks, "thinking", n), "thinking")
    BY <1>6, GrownContinues
  <2>5. Ends(b.blocks, "thinking")
    BY <1>5, <2>4 DEF Continued, Ends
  <2>6. d.refused <=> (b.refusal # <<>>)
    BY <1>3, <1>4, <1>5, <2>1 DEF Stays, InStep
  <2> QED BY <1>3, <1>5, <2>3, <2>5, <2>6 DEF Knows, SameCalls
<1>10. /\ d \in Converters /\ d.tools = c.tools /\ d.reason = c.reason /\ d.failed = c.failed
       /\ d.semantic = TRUE
  BY <1>3, <1>4 DEF Stays
<1>11. Adds(c, a, d, b, more)
  BY <1>5, <1>7, <1>8, <1>9, <1>10 DEF Adds
<1>12. Agree(d, b, more)
  BY <1>11, AddedAgrees
<1> QED BY <1>2, <1>12 DEF d, b, more

\* Ready for output, whatever has been refused.
Readied(c, s) ==
    /\ s \in Converters /\ s.semantic = TRUE
    /\ s.tools = c.tools /\ s.deferred = c.deferred
    /\ s.reason = c.reason /\ s.failed = c.failed
    /\ \A bs : Tracks(c, bs) => Tracks(s, bs)

\* Text, whichever member it comes in.
LEMMA SaidAgrees ==
    ASSUME NEW c, NEW a, NEW log, Agree(c, a, log), NEW n \in Nat, NEW s, Readied(c, s),
           NEW b \in Aggregates, Keeps(b, a), b.blocks = Grown(a.blocks, "text", n),
           ~HasLegacy(a) => (s.refused <=> (b.refusal # <<>>)),
           NEW member \in Members, member # "thinking"
    PROVE  Agree(EmitText(s, <<n>>), b, Append(log, member))
<1> DEFINE d == EmitText(s, <<n>>)
           more == Append(log, member)
<1>1. c \in Converters /\ a \in Aggregates /\ log \in Seq(Members)
  BY DEF Agree
<1>2. s \in Converters
  BY DEF Readied
<1>3. Stays(s, d)
  BY <1>2, EmitKeeps
<1>4. a.blocks \in Seq(Placements) /\ "text" \in Kinds
  BY <1>1 DEF Aggregates, Kinds
<1>5. b.blocks # <<>>
  BY <1>4, GrownType
<1>6. more \in Seq(Members) /\ more # <<>> /\ Last(more) # "thinking"
  BY <1>1, LogLonger
<1> HIDE DEF d, more
<1>7. ASSUME ~HasLegacy(a)
      PROVE  /\ Tracks(d, b.blocks) /\ SameCalls(c, d) /\ Knows(b.blocks, more)
             /\ d.refused <=> (b.refusal # <<>>)
  <2>1. Tracks(s, a.blocks)
    BY <1>7 DEF Agree, InStep, Readied
  <2>2. Tracks(d, Grown(a.blocks, "text", n)) /\ SameCalls(s, d)
    BY <1>2, <2>1, TextTracks DEF d
  <2>3. SameCalls(c, d)
    BY <2>2 DEF SameCalls, Readied
  <2>4. d.refused <=> (b.refusal # <<>>)
    BY <1>3, <1>7 DEF Stays
  <2> QED BY <1>6, <2>2, <2>3, <2>4 DEF Knows
<1>8. /\ d \in Converters /\ d.tools = c.tools /\ d.reason = c.reason /\ d.failed = c.failed
      /\ d.semantic = TRUE
  BY <1>3 DEF Stays, Readied
<1>9. Adds(c, a, d, b, more)
  BY <1>5, <1>6, <1>7, <1>8 DEF Adds
<1>10. Agree(d, b, more)
  BY <1>9, AddedAgrees
<1> QED BY <1>10 DEF d, more

\* A converter that has seen a refusal.
LEMMA Refusing ==
    ASSUME NEW c \in Converters
    PROVE  LET s == Ready(c)
               t == [s EXCEPT !.refused = TRUE]
           IN  /\ Readied(c, s) /\ s.refused = c.refused
               /\ Readied(c, t) /\ t.refused = TRUE
<1> DEFINE s == Ready(c)
           t == [s EXCEPT !.refused = TRUE]
<1>1. Readied(c, s) /\ s.refused = c.refused
  <2> HIDE DEF s
  <2> QED BY Begun DEF Readied, s
<1> HIDE DEF s
<1>2. s \in Converters
  BY <1>1 DEF Readied
<1>3. /\ t \in Converters /\ t.refused = TRUE /\ t.semantic = s.semantic /\ t.omit = s.omit
      /\ t.tools = s.tools /\ t.deferred = s.deferred /\ t.deferring = s.deferring
      /\ t.reason = s.reason /\ t.failed = s.failed /\ Block(s, t) /\ t.frames = s.frames
  BY <1>2 DEF Converters, Block
<1> HIDE DEF t
<1>4. ASSUME NEW bs, Tracks(c, bs) PROVE Tracks(t, bs)
  <2>1. Tracks(s, bs)
    BY <1>1, <1>4 DEF Readied
  <2>2. PICK P : Divided(s, bs, P)
    BY <2>1 DEF Tracks
  <2>3. View(s, ShownOf(s.omit, P))
    BY <2>2 DEF Divided
  <2>4. View(t, ShownOf(t.omit, P))
    BY <1>3, <2>3 DEF View, Block
  <2>5. Divided(t, bs, P)
    BY <1>3, <2>2, <2>4 DEF Divided, Opened, Block
  <2> QED BY <1>3, <2>1, <2>5 DEF Tracks
<1> QED BY <1>1, <1>3, <1>4 DEF Readied, s, t

\* Text, an attachment and a refusal.
LEMMA TextAgrees ==
    ASSUME NEW c, NEW a, NEW log, Agree(c, a, log), NEW n \in Nat
    PROVE  /\ Agree(OnText(EnsureStarted(c), n), AddText(a, n), Append(log, "text"))
           /\ Agree(OnText(EnsureStarted(c), n), AddAttachment(a, n), Append(log, "attachment"))
           /\ Agree(OnRefusal(EnsureStarted(c), n), AddRefusal(a, n), Append(log, "refusal"))
<1> DEFINE s == Ready(c)
           t == [s EXCEPT !.refused = TRUE]
<1>1. c \in Converters /\ a \in Aggregates
  BY DEF Agree
<1>2. /\ Readied(c, s) /\ s.refused = c.refused
      /\ Readied(c, t) /\ t.refused = TRUE
  <2> HIDE DEF s, t
  <2> QED BY <1>1, Refusing DEF s, t
<1>3. /\ OnText(EnsureStarted(c), n) = EmitText(s, <<n>>)
      /\ OnRefusal(EnsureStarted(c), n) = EmitText(t, <<n>>)
  BY DEF OnText, OnRefusal, Ready
<1> HIDE DEF s, t
<1>4. ~HasLegacy(a) => (c.refused <=> (a.refusal # <<>>))
  BY DEF Agree, InStep
<1>5. "text" \in Members /\ "attachment" \in Members /\ "refusal" \in Members
  BY DEF Members
<1>6. Agree(EmitText(s, <<n>>), AddText(a, n), Append(log, "text"))
  <2> DEFINE b == AddText(a, n)
  <2>1. /\ b \in Aggregates /\ Keeps(b, a) /\ b.blocks = Grown(a.blocks, "text", n)
        /\ b.refusal = a.refusal
    BY <1>1, PiecesAdded
  <2> HIDE DEF b
  <2>2. ~HasLegacy(a) => (s.refused <=> (b.refusal # <<>>))
    BY <1>2, <1>4, <2>1
  <2>3. Agree(EmitText(s, <<n>>), b, Append(log, "text"))
    BY <1>2, <1>5, <2>1, <2>2, SaidAgrees
  <2> QED BY <2>3 DEF b
<1>7. Agree(EmitText(s, <<n>>), AddAttachment(a, n), Append(log, "attachment"))
  <2> DEFINE b == AddAttachment(a, n)
  <2>1. /\ b \in Aggregates /\ Keeps(b, a) /\ b.blocks = Grown(a.blocks, "text", n)
        /\ b.refusal = a.refusal
    BY <1>1, PiecesAdded
  <2> HIDE DEF b
  <2>2. ~HasLegacy(a) => (s.refused <=> (b.refusal # <<>>))
    BY <1>2, <1>4, <2>1
  <2>3. Agree(EmitText(s, <<n>>), b, Append(log, "attachment"))
    BY <1>2, <1>5, <2>1, <2>2, SaidAgrees
  <2> QED BY <2>3 DEF b
<1>8. Agree(EmitText(t, <<n>>), AddRefusal(a, n), Append(log, "refusal"))
  <2> DEFINE b == AddRefusal(a, n)
  <2>1. /\ b \in Aggregates /\ Keeps(b, a) /\ b.blocks = Grown(a.blocks, "text", n)
        /\ b.refusal = Append(a.refusal, n)
    BY <1>1, PiecesAdded
  <2> HIDE DEF b
  <2>2. b.refusal # <<>>
    <3>1. a.refusal \in Seq(Nat)
      BY <1>1 DEF Aggregates
    <3>2. Append(a.refusal, n) # <<>>
      BY <3>1
    <3> QED BY <2>1, <3>2
  <2>3. ~HasLegacy(a) => (t.refused <=> (b.refusal # <<>>))
    BY <1>2, <2>2
  <2>4. Agree(EmitText(t, <<n>>), b, Append(log, "refusal"))
    BY <1>2, <1>5, <2>1, <2>3, SaidAgrees
  <2> QED BY <2>4 DEF b
<1> QED BY <1>3, <1>6, <1>7, <1>8

\* A signature of what has just been sent, or of reasoning that is hidden.
LEMMA SignAgrees ==
    ASSUME NEW c, NEW a, NEW log, Agree(c, a, log), NEW sg \in Signatures,
           log # <<>> => Last(log) = "thinking"
    PROVE  Agree(OnSignature(EnsureStarted(c), sg), AddSignature(a, sg), log)
<1> DEFINE s == Ready(c)
           d == Signing(s, sg)
           b == AddSignature(a, sg)
<1>1. c \in Converters /\ a \in Aggregates /\ log \in Seq(Members)
  BY DEF Agree
<1>2. OnSignature(EnsureStarted(c), sg) = d
  BY DEF OnSignature, Signing, Ready, Placed
<1>3. Readied(c, s) /\ s.refused = c.refused
  <2> HIDE DEF s
  <2> QED BY <1>1, Refusing DEF s
<1> HIDE DEF s
<1>4. s \in Converters
  BY <1>3 DEF Readied
<1>5. Stays(s, d)
  BY <1>4, SigningKeeps
<1>6. /\ b \in Aggregates /\ Keeps(b, a) /\ b.blocks # <<>> /\ b.refusal = a.refusal
      /\ a.blocks = <<>> => b.blocks = <<Placed("thinking", <<>>, sg, 0)>>
      /\ Ends(a.blocks, "thinking") =>
             b.blocks = Replaced(a.blocks, Signed(a.blocks[Len(a.blocks)], sg))
  <2> HIDE DEF b
  <2> QED BY <1>1, SignatureAdded DEF b, Ends, Replaced, Signed
<1> HIDE DEF d, b
<1>7. ASSUME ~HasLegacy(a)
      PROVE  /\ Tracks(d, b.blocks) /\ SameCalls(c, d) /\ Knows(b.blocks, log)
             /\ d.refused <=> (b.refusal # <<>>)
  <2>1. InStep(c, a) /\ (a.blocks = <<>> \/ Ends(a.blocks, "thinking"))
    BY <1>7 DEF Agree, Knows
  <2>2. Tracks(s, a.blocks)
    BY <1>3, <2>1 DEF InStep, Readied
  <2>3. Tracks(d, b.blocks) /\ SameCalls(s, d)
    BY <1>4, <1>6, <2>1, <2>2, SignTracks DEF d, Ends
  <2>4. Ends(b.blocks, "thinking")
    <3>1. CASE a.blocks = <<>>
      <4> DEFINE x == Placed("thinking", <<>>, sg, 0)
      <4>1. x.kind = "thinking"
        BY DEF Placed
      <4> HIDE DEF x
      <4>2. b.blocks = <<x>>
        BY <1>6, <3>1 DEF x
      <4>3. <<x>> # <<>> /\ <<x>>[Len(<<x>>)] = x
        OBVIOUS
      <4> QED BY <4>1, <4>2, <4>3 DEF Ends
    <3>2. CASE Ends(a.blocks, "thinking")
      <4> DEFINE x == a.blocks[Len(a.blocks)]
                 y == Signed(x, sg)
      <4>1. a.blocks \in Seq(Placements) /\ a.blocks # <<>> /\ x.kind = "thinking"
        BY <1>1, <3>2 DEF Ends, Aggregates
      <4>2. x \in Placements
        BY <4>1
      <4>3. y \in Placements /\ y.kind = "thinking"
        <5> HIDE DEF x
        <5> QED BY <4>1, <4>2 DEF Signed, Placements
      <4> HIDE DEF y
      <4>4. LastIs(Placements, a.blocks, y, Replaced(a.blocks, y))
        BY <4>1, <4>3, Replacing
      <4>5. b.blocks = Replaced(a.blocks, y)
        BY <1>6, <3>2 DEF y
      <4> QED BY <4>3, <4>4, <4>5 DEF LastIs, Ends
    <3> QED BY <2>1, <3>1, <3>2
  <2>5. SameCalls(c, d)
    BY <1>3, <2>3 DEF SameCalls, Readied
  <2>6. d.refused <=> (b.refusal # <<>>)
    BY <1>3, <1>5, <1>6, <2>1 DEF Stays, InStep
  <2> QED BY <2>3, <2>4, <2>5, <2>6 DEF Knows
<1>8. /\ d \in Converters /\ d.tools = c.tools /\ d.reason = c.reason /\ d.failed = c.failed
      /\ d.semantic = TRUE
  BY <1>3, <1>5 DEF Stays, Readied
<1>9. Adds(c, a, d, b, log)
  BY <1>1, <1>6, <1>7, <1>8 DEF Adds
<1>10. Agree(d, b, log)
  BY <1>9, AddedAgrees
<1> QED BY <1>2, <1>10 DEF d, b

\* The start of the message leaves what is shown and what is deferred.
LEMMA StartTracks ==
    ASSUME NEW s \in Converters
    PROVE  LET t == EnsureStarted(s)
           IN  Kept(s, t) /\ Block(s, t) /\ \A bs : Tracks(s, bs) => Tracks(t, bs)
<1> DEFINE t == EnsureStarted(s)
<1>1. Kept(s, t) /\ Block(s, t) /\ \A X : View(s, X) => View(t, X)
  BY StartKeeps
<1> HIDE DEF t
<1>2. ASSUME NEW bs, Tracks(s, bs) PROVE Tracks(t, bs)
  <2>1. PICK P : Divided(s, bs, P)
    BY <1>2 DEF Tracks
  <2>2. View(t, ShownOf(t.omit, P))
    BY <1>1, <2>1 DEF Divided, Kept
  <2>3. Divided(t, bs, P)
    BY <1>1, <2>1, <2>2 DEF Divided, Opened, Block, Kept
  <2> QED BY <1>1, <1>2, <2>3 DEF Tracks, Kept
<1> QED BY <1>1, <1>2 DEF t

\* Where something is deferred there are blocks.
LEMMA DeferredBlocks ==
    ASSUME NEW s \in Converters, s.deferring = TRUE, NEW bs, Tracks(s, bs)
    PROVE  bs # <<>>
<1>1. PICK P : Divided(s, bs, P)
  BY DEF Tracks
<1>2. P \in Seq(Placements) /\ bs = P \o s.deferred /\ s.deferred # <<>>
  BY <1>1 DEF Divided
<1>3. s.deferred \in Seq(Placements)
  BY DEF Converters
<1> QED BY <1>2, <1>3

\* A fragment of a call.
LEMMA CallAgrees ==
    ASSUME NEW c, NEW a, NEW log, Agree(c, a, log), ~HasLegacy(a),
           NEW i \in Indices, NEW fragment \in Fragments, NEW n \in Nat \ {0}
    PROVE  Agree(OnToolCall(EnsureStarted(c), i, fragment, n), AddToolCall(a, i, fragment, n),
                 IF i \in CallsOf(a) THEN log ELSE Append(log, "call"))
<1> DEFINE s == EnsureStarted(c)
           x == a.tools[i]
           y == Taken(x, fragment, n)
           d == OnToolCall(s, i, fragment, n)
           b == AddToolCall(a, i, fragment, n)
           more == IF i \in CallsOf(a) THEN log ELSE Append(log, "call")
<1>1. /\ c \in Converters /\ a \in Aggregates /\ log \in Seq(Members) /\ InStep(c, a)
      /\ Knows(a.blocks, log) /\ n \in Nat
      /\ c.failed = a.failed /\ c.reason = a.reason /\ a.signature = "none"
      /\ a.legacy.piece = 0 => a.legacy = NoTool
  BY DEF Agree
<1>2. Kept(c, s) /\ Block(c, s) /\ \A bs : Tracks(c, bs) => Tracks(s, bs)
  <2> HIDE DEF s
  <2> QED BY <1>1, StartTracks DEF s
<1>3. s \in Converters /\ s.tools = a.tools /\ s.deferred = c.deferred
  BY <1>1, <1>2 DEF Kept, InStep
<1>4. a.tools \in [Indices -> ToolStates] /\ x \in ToolStates
  BY <1>1 DEF Aggregates
<1> HIDE DEF s
<1>5. /\ CallKeeps(s, d)
      /\ d.failed = IF Clashes(x, fragment) THEN TRUE ELSE s.failed
      /\ d.deferring = TRUE /\ d.semantic = TRUE
      /\ d.tools = Put(a.tools, i, y)
      /\ d.deferred = CallsBehind(s.deferred, x, i)
  <2> DEFINE u == OnToolCall(s, i, fragment, n)
  <2>1. /\ CallKeeps(s, u)
        /\ u.failed = IF Clashes(s.tools[i], fragment) THEN TRUE ELSE s.failed
        /\ u.deferring = TRUE /\ u.semantic = TRUE
        /\ u.tools = Put(s.tools, i, Taken(s.tools[i], fragment, n))
        /\ u.deferred = CallsBehind(s.deferred, s.tools[i], i)
    BY <1>1, <1>3, CallTaken
  <2> HIDE DEF u
  <2> QED BY <1>3, <2>1 DEF u
<1>6. /\ b \in Aggregates
      /\ b.signature = a.signature /\ b.legacy = a.legacy /\ b.reason = a.reason
      /\ b.thinking = a.thinking /\ b.text = a.text
      /\ b.attached = a.attached /\ b.refusal = a.refusal
      /\ b.failed = IF Clashes(x, fragment) THEN TRUE ELSE a.failed
      /\ b.tools = Put(a.tools, i, y)
      /\ b.blocks = CallsBehind(a.blocks, x, i)
  <2>1. a.failed \in BOOLEAN
    BY <1>1 DEF Aggregates
  <2>2. (a.failed \/ Clashes(x, fragment)) = IF Clashes(x, fragment) THEN TRUE ELSE a.failed
    BY <2>1
  <2>3. /\ b \in Aggregates
        /\ b.signature = a.signature /\ b.legacy = a.legacy /\ b.reason = a.reason
        /\ b.thinking = a.thinking /\ b.text = a.text
        /\ b.attached = a.attached /\ b.refusal = a.refusal
        /\ b.tools = Put(a.tools, i, y)
        /\ b.blocks = IF a.tools[i].piece = 0 THEN Append(a.blocks, CallBlock(i)) ELSE a.blocks
    BY <1>1, ToolCallAdded
  <2>4. b.failed <=> (a.failed \/ Clashes(a.tools[i], fragment))
    BY <1>1, ToolCallAdded
  <2>5. b.failed \in BOOLEAN
    BY <2>3 DEF Aggregates
  <2> HIDE DEF b, y
  <2> QED BY <2>1, <2>2, <2>3, <2>4, <2>5 DEF CallsBehind
<1>7. y \in ToolStates /\ y.piece # 0
  <2>1. y \in ToolStates /\ y.piece = IF x.piece = 0 THEN n ELSE x.piece
    BY <1>1, <1>4, TakenType
  <2> HIDE DEF y
  <2> QED BY <2>1
<1> HIDE DEF d, b, x, y
<1>8. x.piece # 0 => Names(s.deferred, i)
  BY <1>1, <1>3 DEF InStep, x
<1>9. Tracks(d, b.blocks) /\ NamesToo(s.deferred, d.deferred, i)
  <2>1. Tracks(s, a.blocks)
    BY <1>1, <1>2 DEF InStep
  <2>2. CallPlaced(s, d, x, i)
    BY <1>5, <1>8 DEF CallPlaced
  <2>3. Tracks(d, CallsBehind(a.blocks, x, i)) /\ NamesToo(s.deferred, d.deferred, i)
    BY <1>3, <1>4, <2>1, <2>2, CallTracks
  <2> QED BY <1>6, <2>3
<1>10. d \in Converters
  BY <1>5 DEF CallKeeps
<1>11. b.blocks # <<>>
  BY <1>5, <1>9, <1>10, DeferredBlocks
<1>12. /\ b.tools[i] = y
       /\ \A j \in Indices \ {i} : b.tools[j] = a.tools[j]
  BY <1>4, <1>6, <1>7, WrittenTwice
<1>13. ASSUME NEW j \in Indices
       PROVE  /\ (b.tools[j].piece # 0) <=> Names(d.deferred, j)
              /\ b.tools[j].piece = 0 => b.tools[j] = NoTool
  <2>1. CASE j = i
    <3>1. b.tools[j].piece # 0
      BY <1>7, <1>12, <2>1
    <3>2. Names(d.deferred, j)
      BY <1>9, <2>1 DEF NamesToo
    <3> QED BY <3>1, <3>2
  <2>2. CASE j # i
    <3>1. b.tools[j] = a.tools[j]
      BY <1>12, <2>2
    <3>2. Names(d.deferred, j) <=> Names(c.deferred, j)
      BY <1>3, <1>9, <2>2 DEF NamesToo
    <3>3. /\ (a.tools[j].piece # 0) <=> Names(c.deferred, j)
          /\ a.tools[j].piece = 0 => a.tools[j] = NoTool
      BY <1>1 DEF InStep
    <3> QED BY <3>1, <3>2, <3>3
  <2> QED BY <2>1, <2>2
<1>14. d.refused <=> (b.refusal # <<>>)
  BY <1>1, <1>2, <1>5, <1>6 DEF InStep, CallKeeps, Kept
<1>15. InStep(d, b)
  BY <1>5, <1>6, <1>9, <1>11, <1>13, <1>14 DEF InStep
<1>16. more \in Seq(Members) /\ Knows(b.blocks, more)
  <2>1. CASE i \in CallsOf(a)
    <3>1. b.blocks = a.blocks
      BY <1>6, <2>1 DEF CallsOf, CallsBehind, x
    <3> QED BY <1>1, <2>1, <3>1
  <2>2. CASE i \notin CallsOf(a)
    <3>1. "call" \in Members /\ "call" # "thinking"
      BY DEF Members
    <3>2. more \in Seq(Members) /\ more # <<>> /\ Last(more) = "call"
      BY <1>1, <2>2, <3>1, LogLonger
    <3> QED BY <3>1, <3>2 DEF Knows
  <2> QED BY <2>1, <2>2
<1>17. /\ d.failed = b.failed /\ d.reason = b.reason /\ b.signature = "none"
       /\ b.legacy.piece = 0 => b.legacy = NoTool
       /\ ~HasLegacy(b)
  BY <1>1, <1>2, <1>5, <1>6 DEF CallKeeps, Kept, HasLegacy
<1> QED BY <1>6, <1>10, <1>15, <1>16, <1>17 DEF Agree, d, b, s

\* A call is its fields.
LEMMA SameTool ==
    ASSUME NEW x \in ToolStates, NEW y \in ToolStates, x.id = y.id, x.named = y.named,
           x.args = y.args, x.piece = y.piece
    PROVE  x = y
<1>1. /\ x = [id |-> x.id, named |-> x.named, args |-> x.args, piece |-> x.piece]
      /\ y = [id |-> y.id, named |-> y.named, args |-> y.args, piece |-> y.piece]
  BY DEF ToolStates
<1> QED BY <1>1

\* What a fragment leaves of a call.
LEMMA MergedFields ==
    ASSUME NEW tool \in ToolStates, NEW fragment \in Fragments, NEW n \in Nat,
           NEW id \in Ids \cup {"", Generated}
    PROVE  /\ MergedTool(tool, fragment).id = tool.id
           /\ MergedTool(tool, fragment).piece = tool.piece
           /\ MergedTool(tool, fragment).named = (tool.named \/ fragment.named)
           /\ MergedTool(tool, fragment).args = ArgumentsWith(tool.args, fragment.args)
           /\ Counted(tool, n) \in ToolStates
           /\ Counted(tool, n).id = tool.id /\ Counted(tool, n).named = tool.named
           /\ Counted(tool, n).args = tool.args
           /\ Counted(tool, n).piece = IF tool.piece = 0 THEN n ELSE tool.piece
           /\ WithId(tool, id) \in ToolStates
           /\ WithId(tool, id).id = id /\ WithId(tool, id).named = tool.named
           /\ WithId(tool, id).args = tool.args /\ WithId(tool, id).piece = tool.piece
<1>1. /\ MergedTool(tool, fragment).id = tool.id
      /\ MergedTool(tool, fragment).piece = tool.piece
      /\ MergedTool(tool, fragment).named = (tool.named \/ fragment.named)
      /\ MergedTool(tool, fragment).args = ArgumentsWith(tool.args, fragment.args)
  BY DEF MergedTool, ToolStates
<1>2. /\ Counted(tool, n) \in ToolStates
      /\ Counted(tool, n).id = tool.id /\ Counted(tool, n).named = tool.named
      /\ Counted(tool, n).args = tool.args
      /\ Counted(tool, n).piece = IF tool.piece = 0 THEN n ELSE tool.piece
  BY DEF Counted, ToolStates
<1>3. /\ WithId(tool, id) \in ToolStates
      /\ WithId(tool, id).id = id /\ WithId(tool, id).named = tool.named
      /\ WithId(tool, id).args = tool.args /\ WithId(tool, id).piece = tool.piece
  BY DEF WithId, ToolStates
<1> QED BY <1>1, <1>2, <1>3

\* The converter has the legacy call of the aggregate with an id.
LEMMA SupersededOf ==
    ASSUME NEW l \in ToolStates, NEW tool \in ToolStates, NEW fragment \in Fragments, NEW n \in Nat,
           \/ tool = l /\ l.id = ""
           \/ tool = WithId(l, Generated)
    PROVE  Superseded(tool, fragment, n) = WithId(MergedTool(Counted(l, n), fragment), Generated)
<1> DEFINE c == Counted(tool, n)
           g == IF c.id = "" THEN Generated ELSE c.id
           w == WithId(c, g)
           x == MergedTool(w, fragment)
           k == Counted(l, n)
           m == MergedTool(k, fragment)
           y == WithId(m, Generated)
<1>1. Generated \in Ids \cup {"", Generated} /\ Generated # ""
  BY DEF Generated
<1>2. tool.id \in {"", Generated} /\ tool.named = l.named /\ tool.args = l.args /\ tool.piece = l.piece
  <2>1. /\ WithId(l, Generated).id = Generated /\ WithId(l, Generated).named = l.named
        /\ WithId(l, Generated).args = l.args /\ WithId(l, Generated).piece = l.piece
    BY DEF WithId, ToolStates
  <2> QED BY <2>1
<1>3. /\ c \in ToolStates /\ c.id = tool.id /\ c.named = tool.named /\ c.args = tool.args
      /\ c.piece = IF tool.piece = 0 THEN n ELSE tool.piece
  BY DEF Counted, ToolStates
<1>4. /\ k \in ToolStates /\ k.named = l.named /\ k.args = l.args
      /\ k.piece = IF l.piece = 0 THEN n ELSE l.piece
  BY DEF Counted, ToolStates
<1> HIDE DEF c, k
<1>5. g = Generated
  BY <1>1, <1>2, <1>3
<1>6. /\ w \in ToolStates /\ w.id = Generated /\ w.named = c.named /\ w.args = c.args
      /\ w.piece = c.piece
  <2> HIDE DEF g
  <2> QED BY <1>1, <1>3, <1>5, MergedFields
<1> HIDE DEF w
<1>7. x \in ToolStates /\ m \in ToolStates
  BY <1>4, <1>6, MergedToolType
<1>8. /\ x.id = w.id /\ x.piece = w.piece /\ x.args = ArgumentsWith(w.args, fragment.args)
      /\ m.piece = k.piece /\ m.args = ArgumentsWith(k.args, fragment.args)
  BY <1>4, <1>6 DEF MergedTool, ToolStates
<1>9. x.named = m.named
  <2>1. x.named = (w.named \/ fragment.named) /\ m.named = (k.named \/ fragment.named)
    BY <1>4, <1>6 DEF MergedTool, ToolStates
  <2>2. w.named = k.named
    BY <1>2, <1>3, <1>4, <1>6
  <2> QED BY <2>1, <2>2
<1> HIDE DEF x, m
<1>10. /\ y \in ToolStates /\ y.id = Generated /\ y.named = m.named /\ y.args = m.args
       /\ y.piece = m.piece
  BY <1>7 DEF WithId, ToolStates
<1> HIDE DEF y
<1>11. x = y
  <2>1. x.args = y.args /\ x.piece = y.piece /\ x.id = y.id /\ x.named = y.named
    BY <1>2, <1>3, <1>4, <1>6, <1>8, <1>9, <1>10
  <2> QED BY <1>7, <1>10, <2>1, SameTool
<1> QED BY <1>11 DEF Superseded, x, y, w, m, k, c, g

\* Nothing is shown of an answer without blocks, and nothing is deferred.
LEMMA NothingTracked ==
    ASSUME NEW s \in Converters, Tracks(s, <<>>)
    PROVE  s.open = "none" /\ View(s, <<>>) /\ s.deferred = <<>> /\ ~s.deferring
<1>1. PICK P : Divided(s, <<>>, P)
  BY DEF Tracks
<1>2. P \in Seq(Placements) /\ <<>> = P \o s.deferred /\ s.deferred \in Seq(Placements)
  BY <1>1 DEF Divided, Converters
<1>3. P = <<>> /\ s.deferred = <<>>
  <2> DEFINE d == s.deferred
  <2> HIDE DEF d
  <2>1. Len(P \o d) = Len(P) + Len(d) /\ Len(P) \in Nat /\ Len(d) \in Nat
    BY <1>2 DEF d
  <2>2. P \o d = <<>>
    BY <1>2 DEF d
  <2>3. Len(P \o d) = 0
    BY <2>2
  <2>4. Len(P) = 0 /\ Len(d) = 0
    BY <2>1, <2>3
  <2>5. P = <<>> /\ d = <<>>
    BY <1>2, <2>4 DEF d
  <2> QED BY <2>5 DEF d
<1>4. ~s.deferring /\ Opened(s, P) /\ View(s, ShownOf(s.omit, P))
  BY <1>1, <1>3 DEF Divided
<1>5. ShownOf(s.omit, P) = <<>>
  <2>1. P # <<>> \/ Len(P) = 0
    BY <1>3
  <2>2. ShownOf(s.omit, P) = [n \in 1..Len(P) |-> Converted(NewAggregate, s.omit, P[n])]
    BY DEF ShownOf, Mapped
  <2>3. 1..Len(P) = {}
    BY <1>3, <2>1
  <2> QED BY <2>2, <2>3
<1> QED BY <1>3, <1>4, <1>5 DEF Opened

\* A fragment of a function_call.
LEMMA LegacyAgrees ==
    ASSUME NEW c, NEW a, NEW log, Agree(c, a, log), CallsOf(a) = {},
           NEW fragment \in Fragments, NEW n \in Nat \ {0}
    PROVE  Agree(OnFunctionCall(EnsureStarted(c), fragment, n), AddFunctionCall(a, fragment, n),
                 IF HasLegacy(a) THEN log ELSE Append(log, "function_call"))
<1> DEFINE s == EnsureStarted(c)
           x == s.tools[0]
           l == MergedTool(Counted(a.legacy, n), fragment)
           d == OnFunctionCall(s, fragment, n)
           b == AddFunctionCall(a, fragment, n)
           more == IF HasLegacy(a) THEN log ELSE Append(log, "function_call")
<1>1. /\ c \in Converters /\ a \in Aggregates /\ log \in Seq(Members) /\ n \in Nat
      /\ c.failed = a.failed /\ c.reason = a.reason /\ a.signature = "none"
      /\ a.legacy.piece = 0 => a.legacy = NoTool
  BY DEF Agree
<1>2. Kept(c, s) /\ Block(c, s) /\ \A X : View(c, X) => View(s, X)
  <2> HIDE DEF s
  <2> QED BY <1>1, StartKeeps DEF s
<1>3. /\ s \in Converters /\ s.tools = c.tools /\ s.deferred = c.deferred
      /\ s.open = c.open /\ s.refused = c.refused /\ s.failed = c.failed
      /\ s.reason = c.reason
  BY <1>2 DEF Kept, Block
<1> HIDE DEF s
<1>4. 0 \in Indices /\ x \in ToolStates /\ s.tools \in [Indices -> ToolStates]
  BY <1>3, ConverterAssumption DEF Converters
<1>5. /\ CallKeeps(s, d) /\ d.failed = s.failed /\ d.deferring = TRUE /\ d.semantic = TRUE
      /\ d.tools = Put(s.tools, 0, Superseded(x, fragment, n))
      /\ d.deferred = CallsBehind(s.deferred, x, 0)
  <2> HIDE DEF d
  <2> QED BY <1>1, <1>3, FunctionCallTaken DEF d
<1>6. /\ b \in Aggregates
      /\ b.signature = a.signature /\ b.tools = a.tools /\ b.reason = a.reason
      /\ b.thinking = a.thinking /\ b.text = a.text
      /\ b.attached = a.attached /\ b.refusal = a.refusal
      /\ b.failed = a.failed /\ b.blocks = a.blocks /\ b.legacy = l
  <2> HIDE DEF b
  <2> QED BY <1>1, FunctionCallAdded DEF b
<1>7. a.legacy \in ToolStates
  BY <1>1 DEF Aggregates
<1>8. l \in ToolStates /\ l.piece # 0
  <2> DEFINE k == Counted(a.legacy, n)
  <2>1. Generated \in Ids \cup {"", Generated}
    OBVIOUS
  <2>2. k \in ToolStates /\ k.piece = IF a.legacy.piece = 0 THEN n ELSE a.legacy.piece
    BY <1>1, <1>7 DEF Counted, ToolStates
  <2> HIDE DEF k
  <2>3. MergedTool(k, fragment) \in ToolStates
    BY <2>2, MergedToolType
  <2>4. MergedTool(k, fragment).piece = k.piece
    BY <2>2 DEF MergedTool, ToolStates
  <2> QED BY <2>2, <2>3, <2>4 DEF k
<1> HIDE DEF d, b, l, x
<1>9. d \in Converters
  BY <1>5 DEF CallKeeps
<1>10. HasLegacy(b)
  BY <1>6, <1>8 DEF HasLegacy
<1>11. more \in Seq(Members)
  <2>1. "function_call" \in Members
    BY DEF Members
  <2> QED BY <1>1, <2>1, LogLonger
<1>12. ASSUME b.blocks = <<>> PROVE Alone(d, b)
  <2>1. a.blocks = <<>>
    BY <1>6, <1>12
  <2>2. /\ Bare(a) /\ s.open = "none" /\ View(s, <<>>) /\ ~s.refused
        /\ \/ x = a.legacy /\ a.legacy.id = ""
           \/ x = WithId(a.legacy, Generated)
        /\ CallsBehind(s.deferred, x, 0) = <<CallBlock(0)>>
        /\ \A i \in Indices \ {0} : s.tools[i].piece = 0
    <3>1. CASE ~HasLegacy(a)
      <4>1. InStep(c, a) /\ a.legacy = NoTool
        BY <1>1, <3>1 DEF Agree, HasLegacy
      <4>2. /\ Bare(a) /\ c.tools = a.tools /\ Tracks(c, <<>>) /\ ~c.refused
            /\ \A i \in Indices : a.tools[i].piece = 0 => a.tools[i] = NoTool
        BY <2>1, <4>1 DEF InStep, Bare
      <4>3. \A i \in Indices : a.tools[i].piece = 0 /\ a.tools[i] = NoTool
        BY <4>2 DEF CallsOf
      <4>4. c.open = "none" /\ View(c, <<>>) /\ c.deferred = <<>>
        BY <1>1, <4>2, NothingTracked
      <4>5. x = a.legacy
        BY <1>3, <1>4, <4>1, <4>2, <4>3 DEF x
      <4>6. a.legacy.id = "" /\ a.legacy.piece = 0
        <5>1. NoTool.id = "" /\ NoTool.piece = 0
          BY DEF NoTool
        <5> QED BY <4>1, <5>1
      <4>7. CallsBehind(<<>>, x, 0) = <<CallBlock(0)>>
        <5> DEFINE y == CallBlock(0)
        <5> HIDE DEF y
        <5>1. Append(<<>>, y) = <<y>>
          OBVIOUS
        <5> QED BY <4>5, <4>6, <5>1 DEF CallsBehind, y
      <4>8. View(s, <<>>)
        BY <1>2, <4>4
      <4>9. \A i \in Indices \ {0} : s.tools[i].piece = 0
        BY <1>3, <4>2, <4>3
      <4> QED BY <1>3, <4>2, <4>4, <4>5, <4>6, <4>7, <4>8, <4>9
    <3>2. CASE HasLegacy(a)
      <4>1. Alone(c, a)
        BY <2>1, <3>2 DEF Agree
      <4>2. /\ Bare(a) /\ c.open = "none" /\ View(c, <<>>) /\ c.deferred = <<CallBlock(0)>>
            /\ c.tools[0] = WithId(a.legacy, Generated)
            /\ \A i \in Indices \ {0} : c.tools[i].piece = 0
            /\ ~c.refused
        BY <4>1 DEF Alone
      <4>3. x = WithId(a.legacy, Generated)
        BY <1>3, <4>2 DEF x
      <4>4. x.piece # 0
        <5>1. x.piece = a.legacy.piece
          BY <1>7, <4>3 DEF WithId, ToolStates
        <5> QED BY <3>2, <5>1 DEF HasLegacy
      <4>5. CallsBehind(s.deferred, x, 0) = <<CallBlock(0)>>
        BY <1>3, <4>2, <4>4 DEF CallsBehind
      <4>6. View(s, <<>>)
        BY <1>2, <4>2
      <4>7. \A i \in Indices \ {0} : s.tools[i].piece = 0
        BY <1>3, <4>2
      <4> QED BY <1>3, <4>2, <4>3, <4>5, <4>6, <4>7
    <3> QED BY <3>1, <3>2
  <2>3. Superseded(x, fragment, n) = WithId(l, Generated)
    BY <1>1, <1>4, <1>7, <2>2, SupersededOf DEF l
  <2>4. WithId(l, Generated) \in ToolStates
    BY <1>8 DEF WithId, ToolStates
  <2>5. /\ d.tools[0] = WithId(l, Generated)
        /\ \A j \in Indices \ {0} : d.tools[j] = s.tools[j]
    BY <1>4, <1>5, <2>3, <2>4, WrittenTwice
  <2>6. d.open = "none" /\ ~d.refused
    BY <1>5, <2>2 DEF CallKeeps, Block
  <2>7. View(d, <<>>)
    BY <1>3, <1>5, <2>2, CallHides
  <2>8. Bare(b) /\ CallsOf(b) = {}
    BY <1>6, <2>2 DEF Bare, CallsOf
  <2>9. \A j \in Indices \ {0} : d.tools[j].piece = 0
    BY <2>2, <2>5
  <2> QED BY <1>5, <1>6, <2>2, <2>5, <2>6, <2>7, <2>8, <2>9 DEF Alone
<1>13. /\ d.failed = b.failed /\ d.reason = b.reason /\ b.signature = "none"
  BY <1>1, <1>3, <1>5, <1>6 DEF CallKeeps
<1>14. b.legacy.piece # 0
  BY <1>6, <1>8
<1> QED BY <1>6, <1>9, <1>10, <1>11, <1>12, <1>13, <1>14 DEF Agree, d, b, s

\* What neither the blocks nor the calls depend on.
LEMMA FinishAgrees ==
    ASSUME NEW c, NEW a, NEW log, Agree(c, a, log),
           NEW reason \in {"", "stop", "length", "tool_calls", "content_filter", "other"}
    PROVE  /\ Agree([EnsureStarted(c) EXCEPT !.reason = reason], [a EXCEPT !.reason = reason], log)
           /\ Agree(Fail(c), [a EXCEPT !.failed = TRUE], log)
<1> DEFINE s == EnsureStarted(c)
           Same(d, b) ==
               /\ d \in Converters /\ d.open = c.open /\ d.tools = c.tools
               /\ d.deferred = c.deferred /\ d.deferring = c.deferring
               /\ d.refused = c.refused /\ d.semantic = c.semantic
               /\ (\A bs : Tracks(c, bs) => Tracks(d, bs))
               /\ (\A X : View(c, X) => View(d, X))
               /\ b \in Aggregates /\ b.blocks = a.blocks /\ b.thinking = a.thinking
               /\ b.signature = a.signature /\ b.text = a.text /\ b.attached = a.attached
               /\ b.refusal = a.refusal /\ b.tools = a.tools /\ b.legacy = a.legacy
               /\ d.failed = b.failed /\ d.reason = b.reason
<1>1. /\ c \in Converters /\ a \in Aggregates /\ log \in Seq(Members)
      /\ c.failed = a.failed /\ c.reason = a.reason /\ a.signature = "none"
      /\ a.legacy.piece = 0 => a.legacy = NoTool
  BY DEF Agree
<1>2. ASSUME NEW d, NEW b, Same(d, b) PROVE Agree(d, b, log)
  <2>1. HasLegacy(b) <=> HasLegacy(a)
    BY <1>2 DEF HasLegacy
  <2>2. ASSUME ~HasLegacy(a) PROVE InStep(d, b) /\ Knows(b.blocks, log)
    <3>1. InStep(c, a) /\ Knows(a.blocks, log)
      BY <2>2 DEF Agree
    <3>2. Tracks(d, b.blocks)
      BY <1>2, <3>1 DEF InStep
    <3>3. b.blocks = <<>> => Bare(b)
      BY <1>2, <3>1 DEF InStep, Bare
    <3>4. /\ \A i \in Indices : (b.tools[i].piece # 0) <=> Names(d.deferred, i)
          /\ \A i \in Indices : b.tools[i].piece = 0 => b.tools[i] = NoTool
          /\ d.tools = b.tools
          /\ d.refused <=> (b.refusal # <<>>)
          /\ d.semantic <=> (b.blocks # <<>>)
      BY <1>2, <3>1 DEF InStep
    <3> QED BY <1>2, <3>1, <3>2, <3>3, <3>4 DEF InStep
  <2>3. ASSUME HasLegacy(a), a.blocks = <<>> PROVE Alone(d, b)
    <3>1. Alone(c, a)
      BY <2>3 DEF Agree
    <3>2. Bare(b) /\ CallsOf(b) = {} /\ View(d, <<>>)
      BY <1>2, <3>1 DEF Alone, Bare, CallsOf
    <3> QED BY <1>2, <3>1, <3>2 DEF Alone
  <2> QED BY <1>1, <1>2, <2>1, <2>2, <2>3 DEF Agree
<1>3. ASSUME NEW u \in Converters, NEW d \in Converters,
             d.omit = u.omit, d.tools = u.tools, d.deferred = u.deferred,
             d.deferring = u.deferring, d.refused = u.refused, d.semantic = u.semantic,
             Block(u, d), d.frames = u.frames
      PROVE  /\ \A bs : Tracks(u, bs) => Tracks(d, bs)
             /\ \A X : View(u, X) => View(d, X)
  <2>1. \A X : View(u, X) => View(d, X)
    BY <1>3 DEF View, Block
  <2>2. ASSUME NEW bs, Tracks(u, bs) PROVE Tracks(d, bs)
    <3>1. PICK P : Divided(u, bs, P)
      BY <2>2 DEF Tracks
    <3>2. View(d, ShownOf(d.omit, P))
      BY <1>3, <2>1, <3>1 DEF Divided
    <3>3. Divided(d, bs, P)
      BY <1>3, <3>1, <3>2 DEF Divided, Opened, Block
    <3> QED BY <1>3, <2>2, <3>3 DEF Tracks
  <2> QED BY <2>1, <2>2
<1>4. Agree([s EXCEPT !.reason = reason], [a EXCEPT !.reason = reason], log)
  <2> DEFINE d == [s EXCEPT !.reason = reason]
             b == [a EXCEPT !.reason = reason]
  <2>1. /\ Kept(c, s) /\ Block(c, s) /\ \A bs : Tracks(c, bs) => Tracks(s, bs)
        /\ \A X : View(c, X) => View(s, X)
    <3> HIDE DEF s
    <3> QED BY <1>1, StartTracks, StartKeeps DEF s
  <2>2. s \in Converters
    BY <2>1 DEF Kept
  <2> HIDE DEF s
  <2>3. /\ d \in Converters /\ d.omit = s.omit /\ d.tools = s.tools /\ d.deferred = s.deferred
        /\ d.deferring = s.deferring /\ d.refused = s.refused /\ d.semantic = s.semantic
        /\ Block(s, d) /\ d.frames = s.frames /\ d.failed = s.failed /\ d.reason = reason
    BY <2>2 DEF Converters, Block
  <2>4. /\ b \in Aggregates /\ b.blocks = a.blocks /\ b.thinking = a.thinking
        /\ b.signature = a.signature /\ b.text = a.text /\ b.attached = a.attached
        /\ b.refusal = a.refusal /\ b.tools = a.tools /\ b.legacy = a.legacy
        /\ b.failed = a.failed /\ b.reason = reason
    BY <1>1 DEF Aggregates
  <2> HIDE DEF d, b
  <2>5. /\ \A bs : Tracks(s, bs) => Tracks(d, bs)
        /\ \A X : View(s, X) => View(d, X)
    BY <1>3, <2>2, <2>3
  <2>6. Same(d, b)
    BY <1>1, <2>1, <2>3, <2>4, <2>5 DEF Kept, Block
  <2> HIDE DEF Same
  <2>7. Agree(d, b, log)
    BY <1>2, <2>6
  <2> QED BY <2>7 DEF d, b
<1>5. Agree(Fail(c), [a EXCEPT !.failed = TRUE], log)
  <2> DEFINE d == Fail(c)
             b == [a EXCEPT !.failed = TRUE]
  <2>3. /\ d \in Converters /\ d.omit = c.omit /\ d.tools = c.tools /\ d.deferred = c.deferred
        /\ d.deferring = c.deferring /\ d.refused = c.refused /\ d.semantic = c.semantic
        /\ Block(c, d) /\ d.frames = c.frames /\ d.failed = TRUE /\ d.reason = c.reason
    BY <1>1 DEF Converters, Block, Fail
  <2>4. /\ b \in Aggregates /\ b.blocks = a.blocks /\ b.thinking = a.thinking
        /\ b.signature = a.signature /\ b.text = a.text /\ b.attached = a.attached
        /\ b.refusal = a.refusal /\ b.tools = a.tools /\ b.legacy = a.legacy
        /\ b.failed = TRUE /\ b.reason = a.reason
    BY <1>1 DEF Aggregates
  <2> HIDE DEF d, b
  <2>5. /\ \A bs : Tracks(c, bs) => Tracks(d, bs)
        /\ \A X : View(c, X) => View(d, X)
    BY <1>1, <1>3, <2>3
  <2>6. Same(d, b)
    BY <1>1, <2>3, <2>4, <2>5 DEF Block
  <2> HIDE DEF Same
  <2>7. Agree(d, b, log)
    BY <1>2, <2>6
  <2> QED BY <2>7 DEF d, b
<1> QED BY <1>4, <1>5

\* In step, and an answer that has ended did not fail.
AggInvariant == Agree(conv, agg, sent) /\ (conv.failed => ended = "no")

\* A converter without any event.
LEMMA FreshType ==
    ASSUME NEW omit \in BOOLEAN
    PROVE  LET c == Fresh(omit)
           IN  /\ c \in Converters /\ c.open = "none" /\ c.replay = <<>> /\ c.signature = "none"
               /\ c.frames = <<>> /\ c.deferred = <<>> /\ c.deferring = FALSE
               /\ c.tools = NewAggregate.tools /\ c.refused = FALSE /\ c.semantic = FALSE
               /\ c.failed = FALSE /\ c.reason = ""
<1> DEFINE ts == [i \in Indices |-> NoTool]
           c == Fresh(omit)
<1>1. ts \in [Indices -> ToolStates] /\ ts = NewAggregate.tools
  <2>1. NoTool \in ToolStates
    BY NewAggregateType DEF NoTool, ToolStates
  <2> QED BY <2>1 DEF NewAggregate
<1>2. <<>> \in Seq(Nat)
  OBVIOUS
<1>3. <<>> \in Seq(Placements)
  OBVIOUS
<1>4. <<>> \in Seq(Emitted)
  OBVIOUS
<1>5. "none" \in Signatures
  BY DEF Signatures
<1>6. c = [omit |-> omit, started |-> FALSE, next |-> 0, open |-> "none", at |-> 0,
           replay |-> <<>>, signature |-> "none", tools |-> ts, deferred |-> <<>>,
           deferring |-> FALSE, reason |-> "", refused |-> FALSE, semantic |-> FALSE,
           frames |-> <<>>, failed |-> FALSE]
  BY DEF Fresh
<1> HIDE DEF ts, c
<1> DEFINE no == FALSE
           e == <<>>
<1>7. no \in BOOLEAN /\ 0 \in Nat /\ e \in Seq(Nat) /\ e \in Seq(Placements) /\ e \in Seq(Emitted)
  BY <1>2, <1>3, <1>4
<1>8. c = [omit |-> omit, started |-> no, next |-> 0, open |-> "none", at |-> 0,
           replay |-> e, signature |-> "none", tools |-> ts, deferred |-> e,
           deferring |-> no, reason |-> "", refused |-> no, semantic |-> no,
           frames |-> e, failed |-> no]
  BY <1>6
<1> HIDE DEF no, e
<1>9. /\ c \in Converters /\ c.open = "none" /\ c.replay = e /\ c.signature = "none"
      /\ c.frames = e /\ c.deferred = e /\ c.deferring = no
      /\ c.tools = ts /\ c.refused = no /\ c.semantic = no
      /\ c.failed = no /\ c.reason = ""
  BY <1>1, <1>5, <1>7, <1>8 DEF Converters
<1> QED BY <1>1, <1>9 DEF c, no, e

\* Before any event both know nothing.
LEMMA AggInit == Init => AggInvariant
<1> SUFFICES ASSUME Init PROVE AggInvariant
  OBVIOUS
<1>1. PICK omit \in BOOLEAN : conv = Fresh(omit)
  BY DEF Init
<1>2. agg = NewAggregate /\ sent = <<>> /\ ended = "no"
  BY DEF Init
<1>3. /\ conv \in Converters /\ conv.open = "none" /\ conv.replay = <<>>
      /\ conv.signature = "none"
      /\ conv.frames = <<>> /\ conv.deferred = <<>> /\ conv.deferring = FALSE
      /\ conv.tools = NewAggregate.tools /\ conv.refused = FALSE /\ conv.semantic = FALSE
      /\ conv.failed = FALSE /\ conv.reason = ""
  BY <1>1, FreshType
<1>4. agg \in Aggregates /\ \A i \in Indices : agg.tools[i] = NoTool
  BY <1>2, NewAggregateType
<1>5. /\ agg.blocks = <<>> /\ agg.thinking = <<>> /\ agg.signature = "none" /\ agg.text = <<>>
      /\ agg.attached = <<>> /\ agg.refusal = <<>> /\ agg.legacy = NoTool
      /\ agg.reason = "" /\ agg.failed = FALSE
  BY <1>2 DEF NewAggregate
<1>6. NoTool.piece = 0
  BY DEF NoTool
<1>7. \A i : ~Names(<<>>, i)
  <2>1. 1..Len(<<>>) = {}
    OBVIOUS
  <2> QED BY <2>1 DEF Names
<1>8. Tracks(conv, <<>>)
  <2> DEFINE P == <<>>
  <2>1. P \in Seq(Placements) /\ P \o P = P /\ 1..Len(P) = {}
    <3>1. Len(P) = 0
      OBVIOUS
    <3> QED BY <3>1
  <2>2. ShownOf(conv.omit, P) = <<>>
    <3>1. ShownOf(conv.omit, P) = [n \in 1..Len(P) |-> Converted(NewAggregate, conv.omit, P[n])]
      BY DEF ShownOf, Mapped
    <3> QED BY <2>1, <3>1
  <2>3. View(conv, <<>>)
    <3>1. <<>> \in Seq(ShownBlocks)
      OBVIOUS
    <3>2. Assembled(conv.frames) = <<>>
      BY <1>3, AssembledEmpty
    <3> QED BY <1>3, <3>1, <3>2 DEF View
  <2>4. NoToolIn(P) /\ Opened(conv, P)
    BY <1>3, <2>1 DEF NoToolIn, Opened
  <2> HIDE DEF P
  <2>5. View(conv, ShownOf(conv.omit, P))
    BY <2>2, <2>3
  <2>6. conv.deferred = P /\ ~conv.deferring
    BY <1>3 DEF P
  <2>7. Tracks(conv, P)
    BY <1>3, <2>1, <2>4, <2>5, <2>6, AllShown DEF P
  <2> QED BY <2>7 DEF P
<1>9. ~HasLegacy(agg)
  BY <1>5, <1>6 DEF HasLegacy
<1>10. InStep(conv, agg)
  <2>1. conv.tools = agg.tools
    BY <1>2, <1>3
  <2> QED BY <1>3, <1>4, <1>5, <1>6, <1>7, <1>8, <2>1 DEF InStep, Bare
<1>11. sent \in Seq(Members) /\ Knows(agg.blocks, sent)
  <2>1. <<>> \in Seq(Members)
    OBVIOUS
  <2> QED BY <1>2, <1>5, <2>1 DEF Knows
<1>12. Agree(conv, agg, sent)
  BY <1>3, <1>4, <1>5, <1>9, <1>10, <1>11 DEF Agree
<1> QED BY <1>2, <1>12 DEF AggInvariant

\* Every event is taken alike.
LEMMA AggStep == AggInvariant /\ [Next]_vars => AggInvariant'
<1> SUFFICES ASSUME AggInvariant, [Next]_vars PROVE AggInvariant'
  OBVIOUS
<1>1. Agree(conv, agg, sent) /\ (conv.failed => ended = "no")
  BY DEF AggInvariant
<1>2. Piece \in Nat \ {0} /\ Piece \in Nat
  <2>1. sent \in Seq(Members)
    BY <1>1 DEF Agree
  <2>2. Len(sent) \in Nat
    BY <2>1
  <2> QED BY <2>2 DEF Piece
<1>3. CASE Think
  <2>1. /\ conv' = OnThinking(EnsureStarted(conv), Piece) /\ agg' = AddThinking(agg, Piece)
        /\ sent' = Append(sent, "thinking") /\ ended' = "no"
    BY <1>3 DEF Think, Send, Delta, Going
  <2>2. Agree(conv', agg', sent')
    BY <1>1, <1>2, <2>1, ThoughtAgrees
  <2> QED BY <2>1, <2>2 DEF AggInvariant
<1>4. CASE Sign
  <2>1. PICK signature \in Signatures \ {"none"} :
            /\ conv' = OnSignature(EnsureStarted(conv), signature)
            /\ agg' = AddSignature(agg, signature)
    BY <1>4 DEF Sign
  <2>2. sent' = sent /\ ended' = "no" /\ (sent # <<>> => Last(sent) = "thinking")
    BY <1>4 DEF Sign, Delta, Going
  <2>3. Agree(conv', agg', sent')
    BY <1>1, <2>1, <2>2, SignAgrees
  <2> QED BY <2>2, <2>3 DEF AggInvariant
<1>5. CASE Say
  <2>1. /\ conv' = OnText(EnsureStarted(conv), Piece) /\ agg' = AddText(agg, Piece)
        /\ sent' = Append(sent, "text") /\ ended' = "no"
    BY <1>5 DEF Say, Send, Delta, Going
  <2>2. Agree(conv', agg', sent')
    BY <1>1, <1>2, <2>1, TextAgrees
  <2> QED BY <2>1, <2>2 DEF AggInvariant
<1>6. CASE Attach
  <2>1. /\ conv' = OnText(EnsureStarted(conv), Piece) /\ agg' = AddAttachment(agg, Piece)
        /\ sent' = Append(sent, "attachment") /\ ended' = "no"
    BY <1>6 DEF Attach, Send, Delta, Going
  <2>2. Agree(conv', agg', sent')
    BY <1>1, <1>2, <2>1, TextAgrees
  <2> QED BY <2>1, <2>2 DEF AggInvariant
<1>7. CASE Decline
  <2>1. /\ conv' = OnRefusal(EnsureStarted(conv), Piece) /\ agg' = AddRefusal(agg, Piece)
        /\ sent' = Append(sent, "refusal") /\ ended' = "no"
    BY <1>7 DEF Decline, Send, Delta, Going
  <2>2. Agree(conv', agg', sent')
    BY <1>1, <1>2, <2>1, TextAgrees
  <2> QED BY <2>1, <2>2 DEF AggInvariant
<1>8. CASE Call
  <2>1. PICK i \in Indices, fragment \in Fragments :
            /\ IF i \in CallsOf(agg) THEN UNCHANGED sent ELSE Send("call")
            /\ conv' = OnToolCall(EnsureStarted(conv), i, fragment, Piece)
            /\ agg' = AddToolCall(agg, i, fragment, Piece)
    BY <1>8 DEF Call
  <2>2. ~HasLegacy(agg) /\ ended' = "no"
    BY <1>8 DEF Call, Delta, Going
  <2>3. sent' = IF i \in CallsOf(agg) THEN sent ELSE Append(sent, "call")
    BY <2>1 DEF Send
  <2>4. Agree(conv', agg', sent')
    BY <1>1, <1>2, <2>1, <2>2, <2>3, CallAgrees
  <2> QED BY <2>2, <2>4 DEF AggInvariant
<1>9. CASE LegacyCall
  <2>1. PICK fragment \in Fragments :
            /\ conv' = OnFunctionCall(EnsureStarted(conv), fragment, Piece)
            /\ agg' = AddFunctionCall(agg, fragment, Piece)
    BY <1>9 DEF LegacyCall
  <2>2. /\ CallsOf(agg) = {} /\ ended' = "no"
        /\ sent' = IF HasLegacy(agg) THEN sent ELSE Append(sent, "function_call")
    BY <1>9 DEF LegacyCall, Delta, Going, Send
  <2>3. Agree(conv', agg', sent')
    BY <1>1, <1>2, <2>1, <2>2, LegacyAgrees
  <2> QED BY <2>2, <2>3 DEF AggInvariant
<1>10. CASE FinishReason
  <2>1. PICK reason \in {"stop", "length", "tool_calls", "content_filter", "other"} :
            /\ conv' = [EnsureStarted(conv) EXCEPT !.reason = reason]
            /\ agg' = [agg EXCEPT !.reason = reason]
    BY <1>10 DEF FinishReason
  <2>2. sent' = sent /\ ended' = "no"
    BY <1>10 DEF FinishReason, Delta, Going
  <2>3. Agree([EnsureStarted(conv) EXCEPT !.reason = reason], [agg EXCEPT !.reason = reason], sent)
    BY <1>1, FinishAgrees
  <2> QED BY <2>1, <2>2, <2>3 DEF AggInvariant
<1>11. CASE ErrorEvent
  <2>1. /\ conv' = Fail(conv) /\ agg' = [agg EXCEPT !.failed = TRUE]
        /\ sent' = sent /\ ended' = "no"
    BY <1>11 DEF ErrorEvent, Going
  <2>2. Agree(Fail(conv), [agg EXCEPT !.failed = TRUE], sent)
    BY <1>1, FinishAgrees
  <2> QED BY <2>1, <2>2 DEF AggInvariant
<1>12. CASE End
  <2>1. ~conv.failed /\ conv' = conv /\ agg' = agg /\ sent' = sent
    BY <1>12 DEF End, Going
  <2> QED BY <1>1, <2>1 DEF AggInvariant
<1>13. CASE UNCHANGED vars
  <2>1. conv' = conv /\ agg' = agg /\ sent' = sent /\ ended' = ended
    BY <1>13 DEF vars
  <2> QED BY <1>1, <2>1 DEF AggInvariant
<1> QED BY <1>3, <1>4, <1>5, <1>6, <1>7, <1>8, <1>9, <1>10, <1>11, <1>12, <1>13 DEF Next

-----------------------------------------------------------------------------
(* The end: both make the same message of what they know.                   *)

\* An answer that is not one of Known.
Plain(a) ==
    /\ HasLegacy(a) => a.blocks = <<>>
    /\ ~(a.reason = "stop" /\ (CallsOf(a) # {} \/ HasLegacy(a)))
    /\ ~(a.reason = "other" /\ a.refusal # <<>>)
    /\ \A i \in CallsOf(a) : a.tools[i].args # ""
    /\ HasLegacy(a) => a.legacy.args # ""

\* What both know of the calls.
LEMMA KnownAlike ==
    ASSUME NEW c, NEW a, NEW log, Agree(c, a, log), Plain(a)
    PROVE  /\ (Calls(c) = {}) <=> (CallsOf(a) = {} /\ ~HasLegacy(a))
           /\ c.semantic <=> (a.blocks # <<>> \/ HasLegacy(a))
           /\ c.refused <=> (a.refusal # <<>>)
           /\ \A i \in Calls(c) : c.tools[i] \in ToolStates /\ c.tools[i].args # ""
           /\ Apart(c.deferred)
<1>1. c \in Converters /\ a \in Aggregates
  BY DEF Agree
<1>2. \A i \in Calls(c) : c.tools[i] \in ToolStates
  BY <1>1 DEF Calls, Converters
<1>3. CASE ~HasLegacy(a)
  <2>1. InStep(c, a)
    BY <1>3 DEF Agree
  <2>2. c.tools = a.tools /\ c.refused <=> (a.refusal # <<>>)
    BY <2>1 DEF InStep
  <2>3. c.semantic <=> (a.blocks # <<>>)
    BY <2>1 DEF InStep
  <2>4. c.refused <=> (a.refusal # <<>>)
    BY <2>1 DEF InStep
  <2>5. c.tools = a.tools /\ Tracks(c, a.blocks)
    BY <2>1 DEF InStep
  <2>6. Calls(c) = CallsOf(a)
    BY <2>5 DEF Calls, CallsOf
  <2>7. \A i \in Calls(c) : c.tools[i].args # ""
    BY <2>5, <2>6 DEF Plain
  <2> QED BY <1>2, <1>3, <2>3, <2>4, <2>5, <2>6, <2>7 DEF Tracks
<1>4. CASE HasLegacy(a)
  <2>1. Alone(c, a)
    BY <1>4 DEF Agree, Plain
  <2>2. /\ CallsOf(a) = {} /\ a.refusal = <<>> /\ ~c.refused /\ c.semantic = TRUE
        /\ c.tools[0] = WithId(a.legacy, Generated)
        /\ \A i \in Indices \ {0} : c.tools[i].piece = 0
        /\ c.deferred = <<CallBlock(0)>>
    BY <2>1 DEF Alone, Bare
  <2>3. a.legacy \in ToolStates
    BY <1>1 DEF Aggregates
  <2>4. c.tools[0].piece = a.legacy.piece /\ c.tools[0].args = a.legacy.args
    BY <2>2, <2>3 DEF WithId, ToolStates
  <2>5. 0 \in Indices
    BY ConverterAssumption
  <2>6. Calls(c) = {0}
    BY <1>4, <2>2, <2>4, <2>5 DEF Calls, HasLegacy
  <2>7. c.tools[0].args # ""
    BY <1>4, <2>4 DEF Plain
  <2>8. Apart(c.deferred)
    <3> DEFINE b == CallBlock(0)
    <3> HIDE DEF b
    <3>1. Len(<<b>>) = 1
      OBVIOUS
    <3> QED BY <2>2, <3>1 DEF Apart, b
  <2> QED BY <1>2, <1>4, <2>2, <2>6, <2>7, <2>8
<1> QED BY <1>3, <1>4

\* The aggregate at the end of the events.
LEMMA AggregateEnds ==
    ASSUME NEW a \in Aggregates, NEW done \in BOOLEAN
    PROVE  LET m == Aggregated(a, done)
           IN  /\ m \in Aggregates /\ m.blocks = a.blocks /\ m.tools = a.tools
               /\ m.legacy = a.legacy /\ m.thinking = a.thinking /\ m.signature = a.signature
               /\ m.text = a.text /\ m.attached = a.attached /\ m.refusal = a.refusal
               /\ m.failed <=> (a.failed \/ (a.reason = "" /\ (~done \/ Empty(a))))
               /\ a.reason # "" => m.reason = a.reason
               /\ a.reason = "" /\ done /\ ~Empty(a) =>
                      m.reason = IF CallsOf(a) = {} /\ ~HasLegacy(a) THEN "stop" ELSE "length"
<1> DEFINE m == Aggregated(a, done)
           r == IF CallsOf(a) = {} /\ ~HasLegacy(a) THEN "stop" ELSE "length"
<1>1. CASE a.reason # ""
  BY <1>1 DEF Aggregated
<1>2. CASE a.reason = "" /\ (~done \/ Empty(a))
  <2>1. m = [a EXCEPT !.failed = TRUE]
    BY <1>2 DEF Aggregated
  <2> HIDE DEF m
  <2>2. /\ m \in Aggregates /\ m.blocks = a.blocks /\ m.tools = a.tools
        /\ m.legacy = a.legacy /\ m.thinking = a.thinking /\ m.signature = a.signature
        /\ m.text = a.text /\ m.attached = a.attached /\ m.refusal = a.refusal
        /\ m.failed = TRUE
    BY <2>1 DEF Aggregates
  <2> QED BY <1>2, <2>2 DEF m
<1>3. CASE a.reason = "" /\ done /\ ~Empty(a)
  <2>1. m = [a EXCEPT !.reason = r]
    BY <1>3 DEF Aggregated
  <2>2. r \in {"", "stop", "length", "tool_calls", "content_filter", "other"}
    OBVIOUS
  <2> HIDE DEF m, r
  <2>3. /\ m \in Aggregates /\ m.blocks = a.blocks /\ m.tools = a.tools
        /\ m.legacy = a.legacy /\ m.thinking = a.thinking /\ m.signature = a.signature
        /\ m.text = a.text /\ m.attached = a.attached /\ m.refusal = a.refusal
        /\ m.failed = a.failed /\ m.reason = r
    BY <2>1, <2>2 DEF Aggregates
  <2> QED BY <1>3, <2>3 DEF m, r
<1> QED BY <1>1, <1>2, <1>3

ToolsOf(c) == {c.tools[i] : i \in Calls(c)}

\* The calls of the blocks are those of the converter.
LEMMA UsedAlike ==
    ASSUME NEW c, NEW a, NEW log, Agree(c, a, log), Plain(a), NEW m,
           m.blocks = a.blocks, m.tools = a.tools, m.legacy = a.legacy
    PROVE  ToolsUsed(m) = ToolsOf(c)
<1>1. c \in Converters /\ a \in Aggregates
  BY DEF Agree
<1>2. CASE ~HasLegacy(a)
  <2> DEFINE d == c.deferred
  <2>1. InStep(c, a)
    BY <1>2 DEF Agree
  <2>2. c.tools = a.tools /\ Tracks(c, a.blocks)
        /\ \A i \in Indices : (a.tools[i].piece # 0) <=> Names(d, i)
    BY <2>1 DEF InStep
  <2>3. PICK P : Divided(c, a.blocks, P)
    BY <2>2 DEF Tracks
  <2>4. P \in Seq(Placements) /\ a.blocks = P \o d /\ NoToolIn(P) /\ d \in Seq(Placements)
    BY <1>1, <2>3 DEF Divided, Converters
  <2>5. Calls(c) = {i \in Indices : Names(d, i)}
    BY <2>2 DEF Calls
  <2> HIDE DEF d
  <2>6. /\ Len(P \o d) = Len(P) + Len(d) /\ Len(P) \in Nat /\ Len(d) \in Nat
        /\ \A n \in 1..(Len(P) + Len(d)) :
               (P \o d)[n] = IF n <= Len(P) THEN P[n] ELSE d[n - Len(P)]
    <3>1. Len(P) \in Nat /\ Len(d) \in Nat
      BY <2>4
    <3> QED BY <2>4, <3>1, Concatenated
  <2>7. CASE a.blocks # <<>>
    <3> DEFINE T == {b \in ToSet(m.blocks) : b.kind = "tool"}
    <3>1. ToolsUsed(m) = {m.tools[b.index] : b \in T}
      BY <2>7 DEF ToolsUsed
    <3>2. ToSet(m.blocks) = {(P \o d)[n] : n \in 1..(Len(P) + Len(d))}
      <4> DEFINE q == P \o d
      <4>1. q \in Seq(Placements)
        BY <2>4
      <4>2. m.blocks = q
        BY <2>4
      <4>3. Len(q) = Len(P) + Len(d)
        BY <2>6
      <4> HIDE DEF q
      <4>4. DOMAIN q = 1..(Len(P) + Len(d))
        BY <4>1, <4>3
      <4>5. ToSet(m.blocks) = {q[n] : n \in 1..(Len(P) + Len(d))}
        BY <4>2, <4>4 DEF ToSet
      <4> QED BY <4>5 DEF q
    <3>3. ASSUME NEW b \in T PROVE b.index \in Calls(c)
      <4>1. PICK n \in 1..(Len(P) + Len(d)) : b = (P \o d)[n]
        BY <3>2
      <4>2. ~(n <= Len(P))
        <5> SUFFICES ASSUME n <= Len(P) PROVE FALSE
          OBVIOUS
        <5>1. n \in 1..Len(P)
          BY <2>6
        <5>2. b = P[n]
          BY <2>6, <4>1
        <5> QED BY <2>4, <5>1, <5>2 DEF NoToolIn
      <4>3. b = d[n - Len(P)] /\ n - Len(P) \in 1..Len(d)
        BY <2>6, <4>1, <4>2
      <4>4. Names(d, b.index)
        BY <4>3 DEF Names
      <4>5. b \in Placements
        BY <2>4, <4>3
      <4>6. b.index \in Indices
        BY <4>5 DEF Placements
      <4> QED BY <2>5, <4>4, <4>6
    <3>4. ASSUME NEW i \in Calls(c) PROVE \E b \in T : b.index = i
      <4>1. PICK n \in 1..Len(d) : d[n].kind = "tool" /\ d[n].index = i
        BY <2>5 DEF Names
      <4>2. Len(P) + n \in 1..(Len(P) + Len(d)) /\ ~(Len(P) + n <= Len(P))
            /\ (Len(P) + n) - Len(P) = n
        BY <2>6
      <4>3. (P \o d)[Len(P) + n] = d[n]
        BY <2>6, <4>2
      <4>4. d[n] \in ToSet(m.blocks)
        BY <3>2, <4>2, <4>3
      <4> QED BY <4>1, <4>4
    <3> HIDE DEF T
    <3> QED BY <2>2, <3>1, <3>3, <3>4 DEF ToolsOf
  <2>8. CASE a.blocks = <<>>
    <3>1. d = <<>>
      BY <1>1, <2>2, <2>8, NothingTracked DEF d
    <3>2. \A i : ~Names(d, i)
      <4>1. 1..Len(d) = {}
        <5>1. Len(d) = 0
          BY <3>1
        <5> QED BY <5>1
      <4> QED BY <4>1 DEF Names
    <3>3. Calls(c) = {}
      BY <2>5, <3>2
    <3>4. CallsOf(m) = {}
      BY <2>2, <3>3 DEF CallsOf, Calls
    <3>5. ~HasLegacy(m)
      BY <1>2 DEF HasLegacy
    <3>6. PlainCalls(m) = <<>>
      BY <3>4, <3>5 DEF PlainCalls, Optional
    <3>7. ToSet(PlainCalls(m)) = {}
      <4>1. 1..Len(<<>>) = {}
        OBVIOUS
      <4> QED BY <3>6, <4>1 DEF ToSet
    <3>8. ToolsUsed(m) = {}
      BY <2>8, <3>7 DEF ToolsUsed
    <3> QED BY <3>3, <3>8 DEF ToolsOf
  <2> QED BY <2>7, <2>8
<1>3. CASE HasLegacy(a)
  <2>1. Alone(c, a) /\ a.blocks = <<>>
    BY <1>3 DEF Agree, Plain
  <2>2. /\ CallsOf(a) = {} /\ c.tools[0] = WithId(a.legacy, Generated)
        /\ \A i \in Indices \ {0} : c.tools[i].piece = 0
    BY <2>1 DEF Alone
  <2>3. a.legacy \in ToolStates
    BY <1>1 DEF Aggregates
  <2>4. c.tools[0].piece = a.legacy.piece
    BY <2>2, <2>3 DEF WithId, ToolStates
  <2>5. 0 \in Indices
    BY ConverterAssumption
  <2>6. Calls(c) = {0}
    BY <1>3, <2>2, <2>4, <2>5 DEF Calls, HasLegacy
  <2> DEFINE x == [m.legacy EXCEPT !.id = Generated]
  <2>7. x = c.tools[0]
    BY <2>2 DEF WithId
  <2>8. PlainCalls(m) = <<x>>
    <3>1. CallsOf(m) = {} /\ HasLegacy(m)
      BY <1>3, <2>2 DEF CallsOf, HasLegacy
    <3> QED BY <3>1 DEF PlainCalls, Optional
  <2>9. ToolsUsed(m) = ToSet(PlainCalls(m))
    BY <2>1 DEF ToolsUsed
  <2> HIDE DEF x
  <2>10. ToSet(<<x>>) = {x}
    <3>1. Len(<<x>>) = 1 /\ <<x>>[1] = x
      OBVIOUS
    <3>2. 1..Len(<<x>>) = {1}
      BY <3>1
    <3> QED BY <3>1, <3>2 DEF ToSet
  <2> QED BY <2>6, <2>7, <2>8, <2>9, <2>10 DEF ToolsOf
<1> QED BY <1>2, <1>3

\* Both fail, or both end for the same reason.
LEMMA EndsAlike ==
    ASSUME NEW c, NEW a, NEW log, Agree(c, a, log), Plain(a), ~c.failed, NEW done \in BOOLEAN,
           NEW m, m = Aggregated(a, done)
    PROVE  /\ Finishes(c, done)
                  <=> ~(m.failed \/ Unsupported(m) \/ \E tool \in ToolsUsed(m) : Rejected(m, tool))
           /\ Finishes(c, done) =>
                  /\ StopReasonOf(m) = StopReason(c, EffectiveReason(c))
                  /\ Calls(c) # {} => (Incomplete(m) <=> ~CompleteTools(c, EffectiveReason(c)))
<1> DEFINE r == EffectiveReason(c)
           e == c.reason = "" /\ ~c.semantic /\ Calls(c) = {}
<1>1. c \in Converters /\ a \in Aggregates /\ c.reason = a.reason /\ ~a.failed
  BY DEF Agree
<1>2. /\ m \in Aggregates /\ m.blocks = a.blocks /\ m.tools = a.tools
      /\ m.legacy = a.legacy /\ m.refusal = a.refusal
      /\ m.failed <=> (a.failed \/ (a.reason = "" /\ (~done \/ Empty(a))))
      /\ a.reason # "" => m.reason = a.reason
      /\ a.reason = "" /\ done /\ ~Empty(a) =>
             m.reason = IF CallsOf(a) = {} /\ ~HasLegacy(a) THEN "stop" ELSE "length"
  BY <1>1, AggregateEnds
<1>3. /\ (Calls(c) = {}) <=> (CallsOf(a) = {} /\ ~HasLegacy(a))
      /\ c.semantic <=> (a.blocks # <<>> \/ HasLegacy(a))
      /\ c.refused <=> (a.refusal # <<>>)
      /\ \A i \in Calls(c) : c.tools[i] \in ToolStates /\ c.tools[i].args # ""
  BY KnownAlike
<1>4. ToolsUsed(m) = ToolsOf(c)
  BY <1>2, UsedAlike
<1>5. m.failed <=> (e \/ CutOff(c, done))
  BY <1>1, <1>2, <1>3 DEF CutOff, Empty
<1>6. Finishes(c, done) <=> /\ ~m.failed /\ r # "other"
                            /\ CompleteTools(c, r) => \A i \in Calls(c) : ~Unusable(c.tools[i])
  BY <1>5 DEF Finishes
<1>7. CASE m.failed
  BY <1>6, <1>7
<1>8. CASE ~m.failed
  <2>1. m.reason = r
    <3>1. CASE a.reason # ""
      BY <1>1, <1>2, <3>1 DEF EffectiveReason
    <3>2. CASE a.reason = ""
      <4>1. done /\ ~Empty(a)
        BY <1>2, <1>8, <3>2
      <4> QED BY <1>1, <1>2, <1>3, <3>2, <4>1 DEF EffectiveReason
    <3> QED BY <3>1, <3>2
  <2>2. /\ r \in {"stop", "length", "tool_calls", "content_filter", "other"}
        /\ r = "other" => a.reason = "other"
        /\ r = "stop" => Calls(c) = {} \/ a.reason = "stop"
    BY <1>1 DEF EffectiveReason, Converters
  <2> HIDE DEF r, e
  <2>3. Declined(m) <=> IsRefusal(c, r)
    BY <1>2, <1>3, <2>1 DEF Declined, IsRefusal
  <2>4. Unsupported(m) <=> r = "other"
    <3>1. r = "other" => ~Declined(m)
      BY <1>2, <2>1, <2>2 DEF Plain, Declined
    <3>2. r = "content_filter" => Declined(m)
      BY <2>1 DEF Declined
    <3> QED BY <2>1, <2>2, <3>1, <3>2 DEF Unsupported
  <2>5. r # "other" /\ Calls(c) # {} => (Incomplete(m) <=> ~CompleteTools(c, r))
    <3> SUFFICES ASSUME r # "other", Calls(c) # {}
                 PROVE  Incomplete(m) <=> ~CompleteTools(c, r)
      OBVIOUS
    <3>1. r # "stop"
      BY <1>3, <2>2 DEF Plain
    <3>2. r = "content_filter" => IsRefusal(c, r)
      BY DEF IsRefusal
    <3> QED BY <2>1, <2>2, <2>3, <3>1, <3>2 DEF Incomplete, CompleteTools
  <2>6. ASSUME r # "other", NEW i \in Calls(c)
        PROVE  Rejected(m, c.tools[i]) <=> (CompleteTools(c, r) /\ Unusable(c.tools[i]))
    <3> DEFINE x == c.tools[i]
    <3>1. x.args \in {"{", "{}", "bad"}
      BY <1>3 DEF ToolStates
    <3>2. ~Incomplete(m) <=> CompleteTools(c, r)
      BY <2>5, <2>6
    <3> HIDE DEF x
    <3>3. (x.id = "" \/ ~x.named \/ x.args # "{}") <=> Unusable(x)
      BY <3>1 DEF Unusable
    <3> QED BY <3>2, <3>3 DEF Rejected, x
  <2>7. r # "other" =>
            ((\E tool \in ToolsUsed(m) : Rejected(m, tool))
                 <=> (CompleteTools(c, r) /\ \E i \in Calls(c) : Unusable(c.tools[i])))
    BY <1>4, <2>6 DEF ToolsOf
  <2>8. r # "other" => StopReasonOf(m) = StopReason(c, r)
    BY <2>1, <2>2, <2>3 DEF StopReasonOf, StopReason, IsRefusal
  <2> QED BY <1>6, <1>8, <2>4, <2>5, <2>7, <2>8 DEF r
<1> QED BY <1>7, <1>8

\* The same output, whatever the reason.
SameOutput(m, a) ==
    /\ m \in Aggregates /\ m.blocks = a.blocks /\ m.tools = a.tools /\ m.legacy = a.legacy
    /\ m.thinking = a.thinking /\ m.signature = a.signature /\ m.text = a.text
    /\ m.attached = a.attached /\ m.refusal = a.refusal

\* Both make tools of the calls, or text.
CallsAlike(c, m) == Calls(c) # {} => (Incomplete(m) <=> ~CompleteTools(c, EffectiveReason(c)))

\* The last view of a client, and what is deferred.
ClientShows(c, content) ==
    \E Z \in Seq(ShownBlocks) : View(c, Z) /\ Z \o ShownItems(Ending(c)) = content

\* An item is shown as the block is.
LEMMA ItemAlike ==
    ASSUME NEW c \in Converters, NEW m \in Aggregates, CallsAlike(c, m),
           NEW b \in Placements, b.kind = "tool" => b.index \in Calls(c) /\ m.tools[b.index] = c.tools[b.index]
    PROVE  ShownItem(Ending(c), b) = Converted(m, c.omit, b)
<1> DEFINE e == Ending(c)
           r == EffectiveReason(c)
<1>1. e.omit = c.omit /\ e.tools = c.tools /\ e.refused = c.refused /\ e.reason = r
  <2> HIDE DEF r
  <2> QED BY DEF Ending, Converters, r
<1> HIDE DEF e, r
<1>2. CompleteTools(e, e.reason) <=> CompleteTools(c, r)
  BY <1>1 DEF CompleteTools, IsRefusal
<1>3. b.kind \in {"thinking", "text", "tool"}
  BY DEF Placements, Kinds
<1>4. CASE b.kind = "thinking"
  BY <1>1, <1>4 DEF ShownItem, Converted, e
<1>5. CASE b.kind = "text"
  BY <1>5 DEF ShownItem, Converted, e
<1>6. CASE b.kind = "tool"
  <2> DEFINE x == c.tools[b.index]
  <2>1. Incomplete(m) <=> ~CompleteTools(e, e.reason)
    BY <1>2, <1>6 DEF CallsAlike, r
  <2>2. Converted(m, c.omit, b) = CallOf(m, x)
    BY <1>6 DEF Converted
  <2>3. ShownItem(e, b) = IF CompleteTools(e, e.reason) THEN ToolOf(x.piece) ELSE TextOf(<<x.piece>>)
    BY <1>1, <1>6 DEF ShownItem
  <2> HIDE DEF x
  <2>4. CallOf(m, x) = IF Incomplete(m) THEN TextOf(<<x.piece>>) ELSE ToolOf(x.piece)
    BY DEF CallOf, ToolOf
  <2> QED BY <2>1, <2>2, <2>3, <2>4 DEF e
<1> QED BY <1>3, <1>4, <1>5, <1>6

\* Blocks are shown by both.
LEMMA BlocksAlike ==
    ASSUME NEW c, NEW a, NEW log, Agree(c, a, log), ~HasLegacy(a), NEW m, SameOutput(m, a),
           CallsAlike(c, m)
    PROVE  ClientShows(c, FromBlocks(m, c.omit))
<1> DEFINE d == c.deferred
           w == c.omit
           e == Ending(c)
<1>1. c \in Converters /\ a \in Aggregates /\ m \in Aggregates
  BY DEF Agree, SameOutput
<1>2. c.tools = a.tools /\ Tracks(c, a.blocks)
      /\ \A i \in Indices : (a.tools[i].piece # 0) <=> Names(d, i)
  BY DEF Agree, InStep
<1>3. PICK P : Divided(c, a.blocks, P)
  BY <1>2 DEF Tracks
<1>4. P \in Seq(Placements) /\ a.blocks = P \o d /\ NoToolIn(P) /\ d \in Seq(Placements)
      /\ View(c, ShownOf(w, P))
  BY <1>1, <1>3 DEF Divided, Converters
<1>5. m.blocks = P \o d /\ m.tools = c.tools
  BY <1>2, <1>4 DEF SameOutput
<1>6. /\ FromBlocks(m, w) = Mapped(m, w, m.blocks)
      /\ Mapped(m, w, P) \in Seq(ShownBlocks) /\ Mapped(m, w, d) \in Seq(ShownBlocks)
      /\ Mapped(m, w, P \o d) = Mapped(m, w, P) \o Mapped(m, w, d)
  <2> HIDE DEF d, w
  <2> QED BY <1>1, <1>4, MappedIs
<1>7. Mapped(m, w, P) = ShownOf(w, P)
  <2>1. \A n \in 1..Len(P) : Converted(m, w, P[n]) = Converted(NewAggregate, w, P[n])
    <3> SUFFICES ASSUME NEW n \in 1..Len(P)
                 PROVE  Converted(m, w, P[n]) = Converted(NewAggregate, w, P[n])
      OBVIOUS
    <3>1. P[n] \in Placements /\ P[n].kind # "tool"
      BY <1>4 DEF NoToolIn
    <3>2. P[n].kind \in {"thinking", "text"}
      BY <3>1 DEF Placements, Kinds
    <3> QED BY <3>2 DEF Converted
  <2> QED BY <2>1 DEF Mapped, ShownOf
<1>8. Mapped(m, w, d) = ShownItems(e)
  <2>1. e.deferred = d
    BY <1>1 DEF Ending, Converters
  <2>2. \A n \in 1..Len(d) : Converted(m, w, d[n]) = ShownItem(e, d[n])
    <3> SUFFICES ASSUME NEW n \in 1..Len(d) PROVE Converted(m, w, d[n]) = ShownItem(e, d[n])
      OBVIOUS
    <3> DEFINE b == d[n]
    <3>1. b \in Placements
      BY <1>4
    <3>2. ASSUME b.kind = "tool" PROVE b.index \in Calls(c) /\ m.tools[b.index] = c.tools[b.index]
      <4>1. b.index \in Indices
        BY <3>1 DEF Placements
      <4>2. Names(d, b.index)
        BY <3>2 DEF Names
      <4> QED BY <1>2, <1>5, <4>1, <4>2 DEF Calls
    <3> HIDE DEF b
    <3>3. ShownItem(Ending(c), b) = Converted(m, c.omit, b)
      BY <1>1, <3>1, <3>2, ItemAlike
    <3> QED BY <3>3 DEF b
  <2> HIDE DEF d, e, w
  <2> QED BY <2>1, <2>2 DEF Mapped, ShownItems
<1>9. ShownOf(w, P) \in Seq(ShownBlocks)
  BY <1>6, <1>7
<1>10. ShownOf(w, P) \o ShownItems(e) = FromBlocks(m, w)
  BY <1>5, <1>6, <1>7, <1>8
<1> QED BY <1>4, <1>9, <1>10 DEF ClientShows

\* Nothing but calls: nothing is shown in front of them.
LEMMA OnlyCalls ==
    ASSUME NEW m \in Aggregates, Bare(m), m.signature = "none", NEW omit
    PROVE  \A S : \A C \in Seq(S) : C = [n \in 1..Len(PlainCalls(m)) |-> CallOf(m, PlainCalls(m)[n])]
                      => FromMembers(m, omit) = C
<1> SUFFICES ASSUME NEW S, NEW C \in Seq(S),
                    C = [n \in 1..Len(PlainCalls(m)) |-> CallOf(m, PlainCalls(m)[n])]
             PROVE  FromMembers(m, omit) = C
  OBVIOUS
<1>1. m.thinking = <<>> /\ m.text = <<>> /\ m.attached = <<>> /\ m.refusal = <<>>
  BY DEF Bare
<1> DEFINE t == Optional(m.thinking # <<>> \/ m.signature # "none",
                         ThinkingOf(m.thinking, m.signature, omit))
           u == Optional(m.text # <<>>, TextOf(m.text))
           v == Optional(m.attached # <<>>, TextOf(m.attached))
           w == RefusalOf(m)
<1>2. t = <<>>
  BY <1>1 DEF Optional
<1>3. u = <<>> /\ v = <<>>
  BY <1>1 DEF Optional
<1>4. w = <<>>
  BY <1>1 DEF Optional, RefusalOf
<1>5. FromMembers(m, omit) = (((t \o u) \o v) \o w) \o C
  BY DEF FromMembers
<1> HIDE DEF t, u, v, w
<1>6. (((<<>> \o <<>>) \o <<>>) \o <<>>) \o C = C
  <2>1. <<>> \o <<>> = <<>>
    OBVIOUS
  <2>2. <<>> \o C = C
    OBVIOUS
  <2> QED BY <2>1, <2>2
<1> QED BY <1>2, <1>3, <1>4, <1>5, <1>6

\* Nothing is shown by both.
LEMMA NothingAlike ==
    ASSUME NEW c, NEW a, NEW log, Agree(c, a, log), ~HasLegacy(a), a.blocks = <<>>,
           NEW m, SameOutput(m, a)
    PROVE  ClientShows(c, FromMembers(m, c.omit))
<1>1. c \in Converters /\ m \in Aggregates /\ a.signature = "none"
  BY DEF Agree, SameOutput
<1>2. /\ Tracks(c, <<>>) /\ Bare(a)
      /\ \A i \in Indices : (a.tools[i].piece # 0) <=> Names(c.deferred, i)
  BY DEF Agree, InStep
<1>3. View(c, <<>>) /\ c.deferred = <<>>
  BY <1>1, <1>2, NothingTracked
<1>4. 1..Len(c.deferred) = {}
  <2>1. Len(c.deferred) = 0
    BY <1>3
  <2> QED BY <2>1
<1>5. ShownItems(Ending(c)) = <<>>
  <2>1. Ending(c).deferred = c.deferred
    BY <1>1 DEF Ending, Converters
  <2> QED BY <1>4, <2>1 DEF ShownItems
<1>6. PlainCalls(m) = <<>>
  <2>1. CallsOf(m) = {}
    BY <1>2, <1>4 DEF CallsOf, Names, SameOutput
  <2>2. ~HasLegacy(m)
    BY DEF HasLegacy, SameOutput
  <2> QED BY <2>1, <2>2 DEF PlainCalls, Optional
<1>7. FromMembers(m, c.omit) = <<>>
  <2>1. Bare(m) /\ m.signature = "none"
    BY <1>1, <1>2 DEF Bare, SameOutput
  <2>2. <<>> = [n \in 1..Len(PlainCalls(m)) |-> CallOf(m, PlainCalls(m)[n])]
    <3>1. 1..Len(PlainCalls(m)) = {}
      <4>1. Len(PlainCalls(m)) = 0
        BY <1>6
      <4> QED BY <4>1
    <3> QED BY <3>1
  <2>3. <<>> \in Seq(Nat)
    OBVIOUS
  <2> QED BY <1>1, <2>1, <2>2, <2>3, OnlyCalls
<1>8. <<>> \in Seq(ShownBlocks) /\ <<>> \o <<>> = <<>>
  <2>1. <<>> \in Seq(ShownBlocks)
    OBVIOUS
  <2>2. <<>> \o <<>> = <<>>
    OBVIOUS
  <2> QED BY <2>1, <2>2
<1> QED BY <1>3, <1>5, <1>7, <1>8 DEF ClientShows

\* A function_call is shown by both.
LEMMA LegacyAlike ==
    ASSUME NEW c, NEW a, NEW log, Agree(c, a, log), HasLegacy(a), a.blocks = <<>>,
           NEW m, SameOutput(m, a), CallsAlike(c, m)
    PROVE  ClientShows(c, FromMembers(m, c.omit))
<1> DEFINE x == c.tools[0]
           b == CallBlock(0)
           y == CallOf(m, x)
           e == Ending(c)
<1>1. c \in Converters /\ a \in Aggregates /\ m \in Aggregates /\ a.signature = "none"
  BY DEF Agree, SameOutput
<1>2. /\ Bare(a) /\ CallsOf(a) = {} /\ View(c, <<>>) /\ c.deferred = <<b>>
      /\ x = WithId(a.legacy, Generated)
  BY DEF Agree, Alone
<1>3. a.legacy \in ToolStates /\ 0 \in Indices
  BY <1>1, ConverterAssumption DEF Aggregates
<1>4. x \in ToolStates
  BY <1>1, <1>3 DEF Converters
<1>5. 0 \in Calls(c)
  <2>1. x.piece = a.legacy.piece
    BY <1>2, <1>3 DEF WithId, ToolStates
  <2> QED BY <1>3, <2>1 DEF Calls, HasLegacy
<1>6. PlainCalls(m) = <<x>>
  <2>1. CallsOf(m) = {} /\ HasLegacy(m) /\ m.legacy = a.legacy
    BY <1>2 DEF CallsOf, HasLegacy, SameOutput
  <2>2. x = [m.legacy EXCEPT !.id = Generated]
    BY <1>2, <2>1 DEF WithId
  <2> QED BY <2>1, <2>2 DEF PlainCalls, Optional
<1>7. y \in ShownBlocks
  BY <1>4, CallOfType
<1>8. ShownItem(e, b) = y
  <2> DEFINE r == EffectiveReason(c)
  <2>1. e.tools = c.tools /\ e.refused = c.refused /\ e.reason = r
    <3> HIDE DEF r
    <3> QED BY <1>1 DEF Ending, Converters, r
  <2>2. Incomplete(m) <=> ~CompleteTools(c, r)
    BY <1>5 DEF CallsAlike
  <2> HIDE DEF r, e, x
  <2>3. b.kind = "tool" /\ b.index = 0
    BY DEF CallBlock, Placed
  <2> HIDE DEF b
  <2>4. ShownItem(e, b) = IF CompleteTools(e, e.reason) THEN ToolOf(x.piece) ELSE TextOf(<<x.piece>>)
    BY <2>1, <2>3 DEF ShownItem, x
  <2>5. y = IF Incomplete(m) THEN TextOf(<<x.piece>>) ELSE ToolOf(x.piece)
    BY DEF CallOf, ToolOf
  <2>6. CompleteTools(e, e.reason) <=> CompleteTools(c, r)
    BY <2>1 DEF CompleteTools, IsRefusal
  <2> QED BY <2>2, <2>4, <2>5, <2>6
<1> HIDE DEF y
<1>9. ShownItems(e) = <<y>>
  <2>1. e.deferred = <<b>>
    BY <1>1, <1>2 DEF Ending, Converters
  <2> HIDE DEF e, b
  <2>2. Len(<<b>>) = 1 /\ <<b>>[1] = b
    OBVIOUS
  <2>3. ShownItems(e) = [n \in 1..1 |-> ShownItem(e, <<b>>[n])]
    BY <2>1, <2>2 DEF ShownItems
  <2>4. ShownItems(e) = [n \in 1..1 |-> y]
    BY <1>8, <2>2, <2>3
  <2> QED BY <2>4
<1>10. FromMembers(m, c.omit) = <<y>>
  <2>1. Bare(m) /\ m.signature = "none"
    BY <1>1, <1>2 DEF Bare, SameOutput
  <2>2. <<y>> = [n \in 1..Len(PlainCalls(m)) |-> CallOf(m, PlainCalls(m)[n])]
    <3> HIDE DEF x
    <3>1. Len(<<x>>) = 1 /\ <<x>>[1] = x
      OBVIOUS
    <3>2. [n \in 1..Len(PlainCalls(m)) |-> CallOf(m, PlainCalls(m)[n])] = [n \in 1..1 |-> y]
      BY <1>6, <3>1 DEF y
    <3>3. [n \in 1..1 |-> y] = <<y>>
      OBVIOUS
    <3> QED BY <3>2, <3>3
  <2>3. <<y>> \in Seq(ShownBlocks)
    BY <1>7
  <2> QED BY <1>1, <2>1, <2>2, <2>3, OnlyCalls
<1>11. <<>> \in Seq(ShownBlocks) /\ <<>> \o <<y>> = <<y>>
  <2>1. <<>> \in Seq(ShownBlocks)
    OBVIOUS
  <2>2. <<>> \o <<y>> = <<y>>
    OBVIOUS
  <2> QED BY <2>1, <2>2
<1> HIDE DEF e
<1> QED BY <1>2, <1>9, <1>10, <1>11 DEF ClientShows, e

\* What a client of a stream reassembles.
Client(c, done) ==
    LET f == Finish(c, done)
    IN  IF c.failed \/ f.failed THEN NoMessage
        ELSE [failed |-> FALSE, content |-> Assembled(f.frames),
              stop |-> f.frames[Len(f.frames) - 1].kind]

\* Messages with the same text, however it is divided.
LEMMA JoinedAlike ==
    ASSUME NEW f, NEW g, Glued(f) = Glued(g), NEW s
    PROVE  Joined([failed |-> FALSE, content |-> f, stop |-> s])
               = Joined([failed |-> FALSE, content |-> g, stop |-> s])
<1> DEFINE no == FALSE
           A == [failed |-> no, content |-> f, stop |-> s]
           M == [failed |-> no, content |-> g, stop |-> s]
           h == Glued(f)
           H == [failed |-> no, content |-> h, stop |-> s]
<1>1. Joined(A) = [A EXCEPT !.content = Glued(A.content)]
      /\ Joined(M) = [M EXCEPT !.content = Glued(M.content)]
  BY JoinedIs
<1>2. A.content = f /\ M.content = g
  OBVIOUS
<1>3. Joined(A) = [A EXCEPT !.content = h] /\ Joined(M) = [M EXCEPT !.content = h]
  BY <1>1, <1>2
<1>4. A = [failed |-> no, content |-> f, stop |-> s]
      /\ M = [failed |-> no, content |-> g, stop |-> s]
  OBVIOUS
<1> HIDE DEF h, A, M, no
<1>5. [A EXCEPT !.content = h] = H
  BY <1>4, ContentReplaced
<1>6. [M EXCEPT !.content = h] = H
  BY <1>4, ContentReplaced
<1>7. Joined(A) = Joined(M)
  BY <1>3, <1>5, <1>6
<1> QED BY <1>7 DEF A, M, no

\* Of an answer both conversions make the same message, or none.
LEMMA ClientAlike ==
    ASSUME NEW c, NEW a, NEW log, Agree(c, a, log), Plain(a), ~c.failed, NEW done \in BOOLEAN
    PROVE  Joined(Client(c, done)) = Joined(Transformed(Aggregated(a, done), c.omit))
<1> DEFINE m == Aggregated(a, done)
           w == c.omit
           f == Finish(c, done)
           wrong == m.failed \/ Unsupported(m) \/ \E tool \in ToolsUsed(m) : Rejected(m, tool)
           content == IF m.blocks # <<>> THEN FromBlocks(m, w) ELSE FromMembers(m, w)
           stop == StopReasonOf(m)
           M == [failed |-> FALSE, content |-> content, stop |-> stop]
<1>1. c \in Converters /\ a \in Aggregates /\ a.signature = "none"
  BY DEF Agree
<1>2. SameOutput(m, a)
  BY <1>1, AggregateEnds DEF SameOutput
<1>3. Transformed(m, w) = IF wrong THEN NoMessage ELSE M
  BY DEF Transformed
<1> DEFINE r == EffectiveReason(c)
<1>4. /\ Finishes(c, done) <=> ~wrong
      /\ Finishes(c, done) => stop = StopReason(c, r) /\ CallsAlike(c, m)
  <2>1. /\ Finishes(c, done)
                  <=> ~(m.failed \/ Unsupported(m) \/ \E tool \in ToolsUsed(m) : Rejected(m, tool))
        /\ Finishes(c, done) =>
                  /\ StopReasonOf(m) = StopReason(c, EffectiveReason(c))
                  /\ Calls(c) # {} => (Incomplete(m) <=> ~CompleteTools(c, EffectiveReason(c)))
    BY EndsAlike
  <2> QED BY <2>1 DEF CallsAlike
<1> HIDE DEF m, wrong
<1>5. CASE ~Finishes(c, done)
  <2>1. f = Fail(c)
    BY <1>5 DEF Finish, Finishes
  <2> HIDE DEF f
  <2>2. f.failed = TRUE
    BY <1>1, <2>1 DEF Fail, Converters
  <2>3. Client(c, done) = NoMessage
    BY <2>2 DEF Client, f
  <2>4. Transformed(m, w) = NoMessage
    BY <1>3, <1>4, <1>5
  <2> QED BY <2>3, <2>4 DEF m
<1>6. CASE Finishes(c, done)
  <2>1. ClientShows(c, content)
    <3>1. m.blocks = a.blocks
      BY <1>2 DEF SameOutput
    <3>2. CallsAlike(c, m)
      BY <1>4, <1>6
    <3>3. CASE a.blocks # <<>>
      <4>1. ~HasLegacy(a)
        BY <3>3 DEF Plain
      <4>2. ClientShows(c, FromBlocks(m, c.omit))
        BY <1>2, <3>2, <4>1, BlocksAlike
      <4> QED BY <3>1, <3>3, <4>2
    <3>4. CASE a.blocks = <<>> /\ ~HasLegacy(a)
      <4>1. ClientShows(c, FromMembers(m, c.omit))
        BY <1>2, <3>4, NothingAlike
      <4> QED BY <3>1, <3>4, <4>1
    <3>5. CASE a.blocks = <<>> /\ HasLegacy(a)
      <4>1. ClientShows(c, FromMembers(m, c.omit))
        BY <1>2, <3>2, <3>5, LegacyAlike
      <4> QED BY <3>1, <3>5, <4>1
    <3> QED BY <3>3, <3>4, <3>5
  <2> HIDE DEF content, f, r, stop
  <2>2. PICK Z \in Seq(ShownBlocks) : View(c, Z) /\ Z \o ShownItems(Ending(c)) = content
    BY <2>1 DEF ClientShows
  <2>3. Apart(c.deferred)
    BY KnownAlike
  <2>4. /\ ~f.failed
        /\ Glued(Assembled(f.frames)) = Glued(Z \o ShownItems(Ending(c)))
        /\ f.frames[Len(f.frames) - 1].kind = StopReason(c, r)
    BY <1>1, <1>6, <2>2, <2>3, FinishShows DEF f, r
  <2> DEFINE g == Assembled(f.frames)
             A == [failed |-> FALSE, content |-> g, stop |-> stop]
  <2>5. Client(c, done) = A
    <3>1. stop = f.frames[Len(f.frames) - 1].kind
      BY <1>4, <1>6, <2>4
    <3> QED BY <2>4, <3>1 DEF Client, f
  <2>6. Glued(g) = Glued(content)
    BY <2>2, <2>4
  <2> HIDE DEF g
  <2>7. Joined(A) = Joined(M)
    BY <2>6, JoinedAlike
  <2>8. Transformed(m, w) = M
    BY <1>3, <1>4, <1>6
  <2> HIDE DEF A, M
  <2> QED BY <2>5, <2>7, <2>8 DEF m
<1> QED BY <1>5, <1>6

\* Of every answer, the converter and the aggregate know the same (AggInvariant)
\* when they have read the same events of it.
THEOREM ConversionsStayInStep == Spec => []AggInvariant
<1>1. Init => AggInvariant
  BY AggInit
<1>2. AggInvariant /\ [Next]_vars => AggInvariant'
  BY AggStep
<1> QED BY <1>1, <1>2, PTL DEF Spec

\* A client gets the same message, or an error, whether it asked for a stream
\* or not, but for the answers of Known.
THEOREM AggregateAlwaysAgrees == Spec => []AggregateAgrees
<1>1. AggInvariant => AggregateAgrees
  <2> SUFFICES ASSUME AggInvariant PROVE AggregateAgrees
    OBVIOUS
  <2>1. Agree(conv, agg, sent) /\ (conv.failed => ended = "no")
    BY DEF AggInvariant
  <2>2. conv.failed = agg.failed
    BY <2>1 DEF Agree
  <2>3. ASSUME ended # "no", ~Known PROVE Joined(Streamed) = Joined(Buffered)
    <3> DEFINE done == IF ended = "done" THEN TRUE ELSE FALSE
    <3>1. Plain(agg)
      <4>1. HasLegacy(agg) => agg.blocks = <<>>
        BY <2>3 DEF Known, LegacyAlone
      <4>2. ~(agg.reason = "stop" /\ (CallsOf(agg) # {} \/ HasLegacy(agg)))
            /\ ~(agg.reason = "other" /\ agg.refusal # <<>>)
        BY <2>3 DEF Known
      <4>3. \A tool \in {agg.tools[i] : i \in CallsOf(agg)} \cup {agg.legacy} :
                ~(tool.piece # 0 /\ tool.args = "")
        BY <2>3 DEF Known
      <4>4. \A i \in CallsOf(agg) : agg.tools[i].args # ""
        BY <4>3 DEF CallsOf
      <4>5. HasLegacy(agg) => agg.legacy.args # ""
        BY <4>3 DEF HasLegacy
      <4> QED BY <4>1, <4>2, <4>4, <4>5 DEF Plain
    <3>2. ~conv.failed
      BY <2>1, <2>3
    <3>3. done \in BOOLEAN
      OBVIOUS
    <3>4. (ended = "done") = done
      OBVIOUS
    <3>5. Streamed = Client(conv, done)
      BY <3>4 DEF Streamed, Client
    <3>6. Buffered = Transformed(Aggregated(agg, done), conv.omit)
      BY <3>4 DEF Buffered
    <3> HIDE DEF done
    <3>7. Joined(Client(conv, done)) = Joined(Transformed(Aggregated(agg, done), conv.omit))
      BY <2>1, <3>1, <3>2, <3>3, ClientAlike
    <3> QED BY <3>5, <3>6, <3>7
  <2> QED BY <2>2, <2>3 DEF AggregateAgrees
<1> QED BY <1>1, ConversionsStayInStep, PTL
=============================================================================
