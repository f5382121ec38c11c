----------------------- MODULE ResponsesStream_proofs -----------------------
(***************************************************************************)
(* What a client of a streamed OpenAI response sees, for any number of     *)
(* items, parts and pieces: a well-formed Anthropic stream, the whole      *)
(* response in order, early text that agrees with it, calls to execute     *)
(* only when they are whole, and a truthful end.                           *)
(*                                                                         *)
(* The argument has two halves.  Before the end, the aggregator agrees     *)
(* with the upstream on the type and the parts of every item (Alike), and  *)
(* what was forwarded is a beginning of the first part.  At the end, the   *)
(* blocks made of such items hold the upstream's text, which joining them  *)
(* keeps (Text), and their frames lead the client to it along a path that  *)
(* the protocol allows.  FlattenSeq and Coalesced are recursive functions: *)
(* that they exist, and what they compute, is shown by induction over sets *)
(* of natural numbers.                                                     *)
(***************************************************************************)
EXTENDS ResponsesStream, SequenceTheorems, FiniteSetTheorems, WellFoundedInduction, TLAPS

-----------------------------------------------------------------------------
(* Induction over the natural numbers, by sets of them.                     *)

LEMMA LeastNatural ==
    ASSUME NEW T, T \subseteq Nat, T # {}
    PROVE  \E x \in T : \A y \in T : x <= y
<1>1. IsWellFoundedOn(OpToRel(<, Nat), Nat)
  BY NatLessThanWellFounded
<1>2. PICK x \in T : \A y \in T : ~(<<y, x>> \in OpToRel(<, Nat))
  BY <1>1, WFMin
<1>3. \A y \in T : ~(y < x)
  BY <1>2 DEF OpToRel
<1> QED BY <1>3

LEMMA SetInduction ==
    ASSUME NEW T, 0 \in T, \A k \in Nat : k \in T => k + 1 \in T
    PROVE  Nat \subseteq T
<1> SUFFICES ASSUME Nat \ T # {} PROVE FALSE
  OBVIOUS
<1>1. PICK x \in Nat \ T : \A y \in Nat \ T : x <= y
  BY LeastNatural
<1>2. x # 0 /\ x - 1 \in Nat /\ ~(x <= x - 1)
  BY <1>1
<1>3. x - 1 \in T
  BY <1>1, <1>2
<1> QED BY <1>1, <1>2, <1>3

\* The same up to n.
LEMMA BoundedInduction ==
    ASSUME NEW n \in Nat, NEW T, 0 \in T, \A k \in 0..(n - 1) : k \in T => k + 1 \in T
    PROVE  0..n \subseteq T
<1> DEFINE D == {k \in Nat : k <= n => k \in T}
<1>1. 0 \in D
  OBVIOUS
<1>2. \A k \in Nat : k \in D => k + 1 \in D
  OBVIOUS
<1>3. Nat \subseteq D
  <2> HIDE DEF D
  <2> QED BY <1>1, <1>2, SetInduction
<1> QED BY <1>3

-----------------------------------------------------------------------------
(* Sequences of sequences.                                                  *)

LEMMA FunctionIsSeq ==
    ASSUME NEW T, NEW n \in Nat, NEW f \in [1..n -> T]
    PROVE  f \in Seq(T) /\ Len(f) = n
  OBVIOUS

\* g: what the sequences come to, one after the other.
Flattened(seqs, g) ==
    /\ g[0] = <<>>
    /\ \A k \in 1..Len(seqs) : g[k] = g[k - 1] \o seqs[k]

LEMMA FlattenedUnique ==
    ASSUME NEW seqs, Len(seqs) \in Nat,
           NEW g, Flattened(seqs, g),
           NEW h, Flattened(seqs, h)
    PROVE  \A k \in 0..Len(seqs) : h[k] = g[k]
<1> DEFINE n == Len(seqs)
<1> DEFINE T == {k \in Nat : h[k] = g[k]}
<1>1. 0 \in T
  BY DEF Flattened
<1>2. ASSUME NEW k \in 0..(n - 1), k \in T PROVE k + 1 \in T
  <2>1. k \in Nat /\ k + 1 \in Nat /\ k + 1 \in 1..n /\ k + 1 \in 1..Len(seqs) /\ (k + 1) - 1 = k
    OBVIOUS
  <2>2. h[k + 1] = h[(k + 1) - 1] \o seqs[k + 1]
    BY <2>1 DEF Flattened
  <2>3. g[k + 1] = g[(k + 1) - 1] \o seqs[k + 1]
    BY <2>1 DEF Flattened
  <2>4. h[k] = g[k]
    BY <1>2
  <2>5. h[k + 1] = g[k + 1]
    BY <2>1, <2>2, <2>3, <2>4
  <2> QED BY <2>1, <2>5
<1> HIDE DEF T
<1>3. 0..n \subseteq T
  <2> HIDE DEF n
  <2>1. n \in Nat
    BY DEF n
  <2> QED BY <1>1, <1>2, <2>1, BoundedInduction
<1> QED BY <1>3 DEF T

LEMMA FlattenedExists ==
    ASSUME NEW T, NEW seqs \in Seq(Seq(T))
    PROVE  \E g \in [0..Len(seqs) -> Seq(T)] :
               Flattened(seqs, g) /\ FlattenSeq(seqs) = g[Len(seqs)]
<1> DEFINE L == Len(seqs)
           Partly(n) == {g \in [0..n -> Seq(T)] :
                            /\ g[0] = <<>>
                            /\ \A k \in 1..n : g[k] = g[k - 1] \o seqs[k]}
           D == {n \in Nat : Partly(n) # {}}
<1>1. L \in Nat /\ \A k \in 1..L : seqs[k] \in Seq(T)
  OBVIOUS
<1> HIDE DEF L
<1>2. 0 \in D
  <2> DEFINE g == [k \in 0..0 |-> <<>>]
  <2>1. <<>> \in Seq(T)
    BY EmptySeq
  <2>2. g \in [0..0 -> Seq(T)] /\ g[0] = <<>>
    BY <2>1
  <2>3. 1..0 = {}
    OBVIOUS
  <2> HIDE DEF g
  <2>4. g \in Partly(0)
    BY <2>2, <2>3
  <2> QED BY <2>4
<1>3. ASSUME NEW n \in 0..(L - 1), n \in D PROVE n + 1 \in D
  <2>1. PICK g \in Partly(n) : TRUE
    BY <1>3
  <2>2. /\ g \in [0..n -> Seq(T)] /\ g[0] = <<>>
        /\ \A k \in 1..n : g[k] = g[k - 1] \o seqs[k]
    BY <2>1
  <2> HIDE DEF Partly
  <2>3. n \in Nat /\ n + 1 \in Nat /\ n + 1 \in 1..L /\ n \in 0..n /\ 0 # n + 1 /\ 0 \in 0..(n + 1)
    BY <1>1
  <2>4. seqs[n + 1] \in Seq(T) /\ g[n] \in Seq(T)
    BY <1>1, <2>2, <2>3
  <2>5. g[n] \o seqs[n + 1] \in Seq(T)
    BY <2>4, ConcatProperties
  <2> DEFINE h == [k \in 0..(n + 1) |-> IF k = n + 1 THEN g[n] \o seqs[n + 1] ELSE g[k]]
  <2>6. \A k \in 0..(n + 1) : k # n + 1 => k \in 0..n
    BY <2>3
  <2>7. h \in [0..(n + 1) -> Seq(T)]
    BY <2>2, <2>5, <2>6
  <2>8. h[0] = <<>>
    BY <2>2, <2>3
  <2>9. h[n + 1] = g[n] \o seqs[n + 1] /\ \A k \in 0..n : h[k] = g[k]
    <3>1. n + 1 \in 0..(n + 1) /\ \A k \in 0..n : k \in 0..(n + 1) /\ k # n + 1
      BY <2>3
    <3> QED BY <3>1
  <2> HIDE DEF h
  <2>10. ASSUME NEW k \in 1..(n + 1) PROVE h[k] = h[k - 1] \o seqs[k]
    <3>1. CASE k = n + 1
      <4>1. k - 1 = n
        BY <2>3, <3>1
      <4> QED BY <2>3, <2>9, <3>1, <4>1
    <3>2. CASE k # n + 1
      <4>1. k \in 1..n /\ k \in 0..n /\ k - 1 \in 0..n
        BY <2>3, <3>2
      <4> QED BY <2>2, <2>9, <4>1
    <3> QED BY <3>1, <3>2
  <2>11. h \in Partly(n + 1)
    BY <2>7, <2>8, <2>10 DEF Partly
  <2> QED BY <2>3, <2>11
<1>4. PICK g : g \in Partly(L)
  <2> HIDE DEF D
  <2>1. 0..L \subseteq D
    BY <1>1, <1>2, <1>3, BoundedInduction
  <2>2. L \in D
    BY <1>1, <2>1
  <2> QED BY <2>2 DEF D
<1>5. /\ g \in [0..L -> Seq(T)] /\ g[0] = <<>>
      /\ \A k \in 1..L : g[k] = g[k - 1] \o seqs[k]
  BY <1>4
<1> HIDE DEF Partly, D
<1>6. Flattened(seqs, g)
  BY <1>5 DEF Flattened, L
<1>7. FlattenSeq(seqs) = g[L]
  <2>1. CASE L = 0
    <3>1. seqs = <<>>
      BY <2>1, EmptySeq DEF L
    <3>2. FlattenSeq(seqs) = <<>>
      BY <3>1 DEF FlattenSeq
    <3> QED BY <1>5, <2>1, <3>2
  <2>2. CASE L # 0
    <3> DEFINE R(f) == [i \in 1..L |-> IF i = 1 THEN seqs[i] ELSE f[i - 1] \o seqs[i]]
               r == [i \in 1..L |-> g[i]]
               flat == CHOOSE f : f = R(f)
    <3>0. seqs # <<>> /\ L \in 1..L /\ L \in 0..L
      BY <1>1, <2>2, EmptySeq DEF L
    <3>1. FlattenSeq(seqs) = flat[L]
      BY <3>0 DEF FlattenSeq, L
    <3>2. r = R(r)
      <4>1. ASSUME NEW i \in 1..L
            PROVE  r[i] = IF i = 1 THEN seqs[i] ELSE r[i - 1] \o seqs[i]
        <5>0. r[i] = g[i]
          OBVIOUS
        <5>1. g[i] = g[i - 1] \o seqs[i]
          BY <1>5
        <5>2. CASE i = 1
          <6>1. <<>> \o seqs[i] = seqs[i]
            BY <1>1, ConcatEmptySeq
          <6>2. g[i] = g[0] \o seqs[i]
            BY <5>1, <5>2
          <6> QED BY <1>5, <5>0, <5>2, <6>1, <6>2
        <5>3. CASE i # 1
          <6>1. i - 1 \in 1..L
            BY <1>1, <5>3
          <6>2. r[i - 1] = g[i - 1]
            BY <6>1
          <6> QED BY <5>0, <5>1, <5>3, <6>2
        <5> QED BY <5>2, <5>3
      <4> QED BY <4>1
    <3>3. flat = R(flat)
      <4> HIDE DEF r
      <4> QED BY <3>2
    <3> HIDE DEF flat
    <3> DEFINE h == [k \in 0..L |-> IF k = 0 THEN <<>> ELSE flat[k]]
    <3>4. h[0] = <<>> /\ \A k \in 1..L : h[k] = flat[k]
      BY <1>1
    <3> HIDE DEF h
    <3>5. ASSUME NEW k \in 1..L PROVE h[k] = h[k - 1] \o seqs[k]
      <4>1. flat[k] = IF k = 1 THEN seqs[k] ELSE flat[k - 1] \o seqs[k]
        BY <3>3
      <4>2. CASE k = 1
        <5>1. <<>> \o seqs[k] = seqs[k]
          BY <1>1, ConcatEmptySeq
        <5>2. h[k - 1] = <<>>
          BY <3>4, <4>2
        <5> QED BY <3>4, <4>1, <4>2, <5>1, <5>2
      <4>3. CASE k # 1
        <5>1. k - 1 \in 1..L
          BY <1>1, <4>3
        <5> QED BY <3>4, <4>1, <4>3, <5>1
      <4> QED BY <4>2, <4>3
    <3>6. \A k \in 0..L : h[k] = g[k]
      <4>1. Len(seqs) \in Nat /\ Flattened(seqs, h)
        BY <1>1, <3>4, <3>5 DEF L, Flattened
      <4> QED BY <1>6, <4>1, FlattenedUnique DEF L
    <3> QED BY <3>0, <3>1, <3>4, <3>6
  <2> QED BY <2>1, <2>2
<1> QED BY <1>5, <1>6, <1>7 DEF L

LEMMA FlattenType ==
    ASSUME NEW T, NEW seqs \in Seq(Seq(T))
    PROVE  FlattenSeq(seqs) \in Seq(T)
<1>1. PICK g \in [0..Len(seqs) -> Seq(T)] : FlattenSeq(seqs) = g[Len(seqs)]
  BY FlattenedExists
<1>2. Len(seqs) \in 0..Len(seqs)
  OBVIOUS
<1> QED BY <1>1, <1>2

\* Whatever adds up the sequences is what they come to.
LEMMA FlattenIs ==
    ASSUME NEW T, NEW seqs \in Seq(Seq(T)), NEW h, Flattened(seqs, h)
    PROVE  FlattenSeq(seqs) = h[Len(seqs)]
<1>1. PICK g \in [0..Len(seqs) -> Seq(T)] : Flattened(seqs, g) /\ FlattenSeq(seqs) = g[Len(seqs)]
  BY FlattenedExists
<1>2. Len(seqs) \in Nat /\ Len(seqs) \in 0..Len(seqs)
  OBVIOUS
<1>3. \A k \in 0..Len(seqs) : h[k] = g[k]
  BY <1>1, <1>2, FlattenedUnique
<1> QED BY <1>1, <1>2, <1>3


LEMMA Regrouped ==
    ASSUME NEW T, NEW r \in Seq(T), NEW s \in Seq(T), NEW t \in Seq(T)
    PROVE  (r \o s) \o t = r \o (s \o t)
  BY ConcatAssociative

LEMMA FlattenEmpty == FlattenSeq(<<>>) = <<>>
  BY DEF FlattenSeq

\* One more sequence behind the others.
LEMMA FlattenConcat ==
    ASSUME NEW T, NEW s \in Seq(Seq(T)), NEW t \in Seq(Seq(T))
    PROVE  /\ s \o t \in Seq(Seq(T))
           /\ FlattenSeq(s \o t) = FlattenSeq(s) \o FlattenSeq(t)
<1> DEFINE m == Len(s)
           n == Len(t)
           u == s \o t
<1>1. /\ m \in Nat /\ n \in Nat /\ u \in Seq(Seq(T)) /\ Len(u) = m + n
      /\ \A k \in 1..(m + n) : u[k] = IF k <= m THEN s[k] ELSE t[k - m]
  BY ConcatProperties
<1>2. PICK gs \in [0..m -> Seq(T)] : Flattened(s, gs) /\ FlattenSeq(s) = gs[m]
  BY FlattenedExists
<1>3. PICK gt \in [0..n -> Seq(T)] : Flattened(t, gt) /\ FlattenSeq(t) = gt[n]
  BY FlattenedExists
<1>4. /\ gs[0] = <<>> /\ \A k \in 1..m : gs[k] = gs[k - 1] \o s[k]
      /\ gt[0] = <<>> /\ \A k \in 1..n : gt[k] = gt[k - 1] \o t[k]
  BY <1>2, <1>3 DEF Flattened
<1>5. \A k \in 1..n : t[k] \in Seq(T)
  OBVIOUS
<1> HIDE DEF m, n, u
<1> DEFINE h == [k \in 0..(m + n) |-> IF k <= m THEN gs[k] ELSE gs[m] \o gt[k - m]]
<1>6. /\ \A k \in 0..m : h[k] = gs[k]
      /\ \A k \in (m + 1)..(m + n) : h[k] = gs[m] \o gt[k - m]
  <2>1. /\ \A k \in 0..m : k \in 0..(m + n) /\ k <= m
        /\ \A k \in (m + 1)..(m + n) : k \in 0..(m + n) /\ ~(k <= m)
    BY <1>1
  <2> QED BY <2>1
<1>7. gs[m] \o gt[0] = gs[m]
  <2>1. gs[m] \in Seq(T)
    BY <1>1, <1>2
  <2> QED BY <1>4, <2>1, ConcatEmptySeq
<1>8. \A k \in m..(m + n) : h[k] = gs[m] \o gt[k - m]
  <2> HIDE DEF h
  <2>1. m \in 0..m /\ m - m = 0 /\ \A k \in m..(m + n) : k = m \/ k \in (m + 1)..(m + n)
    BY <1>1
  <2>2. h[m] = gs[m] \o gt[m - m]
    BY <1>6, <1>7, <2>1
  <2> QED BY <1>6, <2>1, <2>2
<1> HIDE DEF h
<1>9. h[0] = <<>>
  BY <1>1, <1>4, <1>6
<1>10. ASSUME NEW k \in 1..(m + n) PROVE h[k] = h[k - 1] \o u[k]
  <2>1. CASE k <= m
    <3>0. m \in Nat /\ n \in Nat
      BY <1>1
    <3>1. k \in 1..m /\ k \in 0..m /\ k - 1 \in 0..m
      BY <2>1, <3>0
    <3> QED BY <1>1, <1>4, <1>6, <2>1, <3>1
  <2>2. CASE k > m
    <3>0. m \in Nat /\ n \in Nat
      BY <1>1
    <3>1. k - m \in 1..n /\ (k - m) - 1 \in 0..n /\ k - 1 \in m..(m + n) /\ k \in m..(m + n)
          /\ (k - 1) - m = (k - m) - 1 /\ ~(k <= m)
      BY <2>2, <3>0
    <3>2. h[k] = gs[m] \o (gt[(k - m) - 1] \o t[k - m])
      BY <1>4, <1>8, <3>1
    <3>3. gs[m] \in Seq(T) /\ gt[(k - m) - 1] \in Seq(T) /\ t[k - m] \in Seq(T)
      BY <1>1, <1>2, <1>3, <1>5, <3>1
    <3>4. (gs[m] \o gt[(k - m) - 1]) \o t[k - m] = gs[m] \o (gt[(k - m) - 1] \o t[k - m])
      <4> DEFINE x == gs[m]
                 y == gt[(k - m) - 1]
                 z == t[k - m]
      <4>1. x \in Seq(T) /\ y \in Seq(T) /\ z \in Seq(T)
        BY <3>3
      <4> HIDE DEF x, y, z
      <4>2. (x \o y) \o z = x \o (y \o z)
        BY <4>1, ConcatAssociative
      <4> QED BY <4>2 DEF x, y, z
    <3>5. u[k] = t[k - m]
      BY <1>1, <3>1
    <3>6. h[k - 1] = gs[m] \o gt[(k - m) - 1]
      BY <1>8, <3>1
    <3> QED BY <3>2, <3>4, <3>5, <3>6
  <2>3. k <= m \/ k > m
    <3>1. m \in Nat /\ n \in Nat
      BY <1>1
    <3> QED BY <3>1
  <2> QED BY <2>1, <2>2, <2>3
<1>11. Flattened(u, h)
  BY <1>1, <1>9, <1>10 DEF Flattened
<1>12. FlattenSeq(u) = h[m + n]
  BY <1>1, <1>11, FlattenIs
<1>13. h[m + n] = gs[m] \o gt[n]
  BY <1>1, <1>8
<1> QED BY <1>1, <1>2, <1>3, <1>12, <1>13 DEF u

LEMMA FlattenOne ==
    ASSUME NEW T, NEW x \in Seq(T)
    PROVE  <<x>> \in Seq(Seq(T)) /\ FlattenSeq(<<x>>) = x
<1> DEFINE h == [k \in 0..1 |-> IF k = 0 THEN <<>> ELSE x]
<1>1. <<x>> \in Seq(Seq(T)) /\ Len(<<x>>) = 1 /\ <<x>>[1] = x
  OBVIOUS
<1>2. h[0] = <<>> /\ h[1] = x /\ <<>> \o x = x
  BY ConcatEmptySeq
<1> HIDE DEF h
<1>3. \A k \in 1..1 : k = 1 /\ k - 1 = 0
  OBVIOUS
<1>4. Flattened(<<x>>, h)
  BY <1>1, <1>2, <1>3 DEF Flattened
<1> QED BY <1>1, <1>2, <1>4, FlattenIs

\* Empty sequences behind the others add nothing.
LEMMA FlattenPadded ==
    ASSUME NEW T, NEW s \in Seq(Seq(T)), NEW t \in Seq(Seq(T)), Len(s) <= Len(t),
           \A k \in 1..Len(s) : t[k] = s[k],
           \A k \in (Len(s) + 1)..Len(t) : t[k] = <<>>
    PROVE  FlattenSeq(t) = FlattenSeq(s)
<1> DEFINE m == Len(s)
           n == Len(t)
<1>1. m \in Nat /\ n \in Nat /\ m <= n
  OBVIOUS
<1>2. PICK g \in [0..m -> Seq(T)] : Flattened(s, g) /\ FlattenSeq(s) = g[m]
  BY FlattenedExists
<1>3. g[0] = <<>> /\ \A k \in 1..m : g[k] = g[k - 1] \o s[k]
  BY <1>2 DEF Flattened
<1>4. (\A k \in 1..m : t[k] = s[k]) /\ (\A k \in (m + 1)..n : t[k] = <<>>)
  OBVIOUS
<1> HIDE DEF m, n
<1> DEFINE h == [k \in 0..n |-> IF k <= m THEN g[k] ELSE g[m]]
<1>5. (\A k \in 0..m : h[k] = g[k]) /\ (\A k \in m..n : h[k] = g[m])
  BY <1>1
<1> HIDE DEF h
<1>6. g[m] \in Seq(T) /\ g[m] \o <<>> = g[m]
  <2>1. g[m] \in Seq(T)
    BY <1>1, <1>2
  <2> QED BY <2>1, ConcatEmptySeq
<1>7. ASSUME NEW k \in 1..n PROVE h[k] = h[k - 1] \o t[k]
  <2>1. CASE k <= m
    <3>1. k \in 1..m /\ k \in 0..m /\ k - 1 \in 0..m
      BY <1>1, <2>1
    <3> QED BY <1>3, <1>4, <1>5, <3>1
  <2>2. CASE k > m
    <3>1. k \in (m + 1)..n /\ k \in m..n /\ k - 1 \in m..n
      BY <1>1, <2>2
    <3> QED BY <1>4, <1>5, <1>6, <3>1
  <2>3. k <= m \/ k > m
    BY <1>1
  <2> QED BY <2>1, <2>2, <2>3
<1>8. h[0] = <<>> /\ h[n] = g[m]
  BY <1>1, <1>3, <1>5
<1>9. Flattened(t, h)
  BY <1>7, <1>8 DEF Flattened, n
<1>10. FlattenSeq(t) = h[n]
  BY <1>9, FlattenIs DEF n
<1> QED BY <1>2, <1>8, <1>10

LEMMA FlattenAppend ==
    ASSUME NEW T, NEW s \in Seq(Seq(T)), NEW x \in Seq(T)
    PROVE  Append(s, x) \in Seq(Seq(T)) /\ FlattenSeq(Append(s, x)) = FlattenSeq(s) \o x
<1>1. <<x>> \in Seq(Seq(T)) /\ FlattenSeq(<<x>>) = x
  BY FlattenOne
<1>2. FlattenSeq(s \o <<x>>) = FlattenSeq(s) \o FlattenSeq(<<x>>)
  BY <1>1, FlattenConcat
<1>3. Append(s, x) = s \o <<x>> /\ Append(s, x) \in Seq(Seq(T))
  BY AppendIsConcat, AppendProperties
<1> QED BY <1>1, <1>2, <1>3

LEMMA FlattenTwo ==
    ASSUME NEW T, NEW s \in Seq(Seq(T)), NEW x \in Seq(T), NEW y \in Seq(T)
    PROVE  FlattenSeq(Append(s, x \o y)) = FlattenSeq(Append(s, x)) \o y
<1>1. x \o y \in Seq(T)
  BY ConcatProperties
<1>2. FlattenSeq(Append(s, x)) = FlattenSeq(s) \o x
  BY FlattenAppend
<1>3. FlattenSeq(Append(s, x \o y)) = FlattenSeq(s) \o (x \o y)
  BY <1>1, FlattenAppend
<1>4. FlattenSeq(s) \in Seq(T)
  BY FlattenType
<1>5. (FlattenSeq(s) \o x) \o y = FlattenSeq(s) \o (x \o y)
  BY <1>4, Regrouped
<1> QED BY <1>2, <1>3, <1>5

LEMMA LastAppended ==
    ASSUME NEW T, NEW s \in Seq(T), s # <<>>
    PROVE  /\ SubSeq(s, 1, Len(s) - 1) \in Seq(T) /\ s[Len(s)] \in T
           /\ s = Append(SubSeq(s, 1, Len(s) - 1), s[Len(s)])
  OBVIOUS

\* The last sequence becomes longer.
Lengthened(s, t, x) ==
    /\ s # <<>> /\ Len(t) = Len(s)
    /\ \A k \in 1..(Len(s) - 1) : t[k] = s[k]
    /\ t[Len(s)] = s[Len(s)] \o x

LEMMA FlattenLonger ==
    ASSUME NEW T, NEW s \in Seq(Seq(T)), NEW t \in Seq(Seq(T)), NEW x \in Seq(T),
           Lengthened(s, t, x)
    PROVE  FlattenSeq(t) = FlattenSeq(s) \o x
<1> DEFINE n == Len(s)
           u == SubSeq(s, 1, n - 1)
           y == s[n]
           z == t[n]
           v == SubSeq(t, 1, n - 1)
<1>1. u \in Seq(Seq(T)) /\ y \in Seq(T) /\ s = Append(u, y)
  BY LastAppended DEF Lengthened
<1>2. n \in Nat /\ n >= 1 /\ Len(t) = n /\ t # <<>>
  <2>1. n \in Nat \ {0}
    BY EmptySeq DEF Lengthened
  <2> QED BY <2>1, EmptySeq DEF Lengthened
<1>3. t = Append(v, z)
  BY <1>2, LastAppended
<1>4. u = v
  <2>1. \A k \in 1..(n - 1) : t[k] = s[k]
    BY DEF Lengthened
  <2>2. /\ u \in Seq(Seq(T)) /\ Len(u) = n - 1 /\ \A k \in 1..(n - 1) : u[k] = s[k]
    BY <1>2, SubSeqProperties
  <2>3. /\ v \in Seq(Seq(T)) /\ Len(v) = n - 1 /\ \A k \in 1..(n - 1) : v[k] = t[k]
    BY <1>2, SubSeqProperties
  <2> HIDE DEF u, v, n
  <2> QED BY <2>1, <2>2, <2>3, SeqEqual
<1>5. z = y \o x
  BY DEF Lengthened
<1> HIDE DEF n, u, v, y, z
<1>6. FlattenSeq(Append(u, y \o x)) = FlattenSeq(Append(u, y)) \o x
  BY <1>1, FlattenTwo
<1> QED BY <1>1, <1>3, <1>4, <1>5, <1>6

\* What g makes of the elements, one after the other.
Mapped(s, g) == [n \in 1..Len(s) |-> g[s[n]]]

Maps(g, X, T) == \A x \in X : g[x] \in T

LEMMA MappedType ==
    ASSUME NEW X, NEW T, NEW g, Maps(g, X, T), NEW s \in Seq(X)
    PROVE  Mapped(s, g) \in Seq(T) /\ Len(Mapped(s, g)) = Len(s)
<1>1. Len(s) \in Nat /\ \A n \in 1..Len(s) : s[n] \in X
  OBVIOUS
<1>2. Mapped(s, g) \in [1..Len(s) -> T]
  BY <1>1 DEF Mapped, Maps
<1> QED BY <1>1, <1>2, FunctionIsSeq

LEMMA MappedConcat ==
    ASSUME NEW X, NEW g, NEW s \in Seq(X), NEW t \in Seq(X)
    PROVE  Mapped(s \o t, g) = Mapped(s, g) \o Mapped(t, g)
<1> DEFINE T == {g[x] : x \in X}
<1>1. Maps(g, X, T)
  BY DEF Maps
<1> HIDE DEF T
<1>2. ASSUME NEW v \in Seq(X) PROVE Mapped(v, g) \in Seq(T) /\ Len(Mapped(v, g)) = Len(v)
  <2>1. Mapped(v, g) \in Seq(T)
    BY <1>1, MappedType
  <2>2. Len(Mapped(v, g)) = Len(v)
    BY DEF Mapped
  <2> QED BY <2>1, <2>2
<1> DEFINE m == Len(s)
           n == Len(t)
           u == s \o t
           p == Mapped(s, g)
           q == Mapped(t, g)
           a == Mapped(u, g)
           b == p \o q
<1>3. /\ m \in Nat /\ n \in Nat /\ u \in Seq(X) /\ Len(u) = m + n
      /\ \A i \in 1..(m + n) : u[i] = IF i <= m THEN s[i] ELSE t[i - m]
  BY ConcatProperties
<1>4. /\ p \in Seq(T) /\ Len(p) = m /\ q \in Seq(T) /\ Len(q) = n
  BY <1>2
<1>5. (\A i \in 1..m : p[i] = g[s[i]]) /\ (\A i \in 1..n : q[i] = g[t[i]])
  BY DEF Mapped
<1> HIDE DEF m, n, u
<1>6. a \in Seq(T) /\ Len(a) = m + n
  BY <1>2, <1>3
<1>7. \A i \in 1..(m + n) : a[i] = g[u[i]]
  BY <1>3 DEF Mapped
<1> HIDE DEF p, q, a
<1>8. /\ b \in Seq(T) /\ Len(b) = m + n
      /\ \A i \in 1..(m + n) : b[i] = IF i <= m THEN p[i] ELSE q[i - m]
  BY <1>4, ConcatProperties
<1> HIDE DEF b
<1>9. ASSUME NEW i \in 1..(m + n) PROVE a[i] = b[i]
  <2>0. m \in Nat /\ n \in Nat
    BY <1>3
  <2>1. CASE i <= m
    <3>1. i \in 1..m
      BY <2>0, <2>1
    <3> QED BY <1>3, <1>5, <1>7, <1>8, <2>1, <3>1
  <2>2. CASE ~(i <= m)
    <3>1. i - m \in 1..n
      BY <2>0, <2>2
    <3> QED BY <1>3, <1>5, <1>7, <1>8, <2>2, <3>1
  <2> QED BY <2>1, <2>2
<1>10. a = b
  BY <1>6, <1>8, <1>9, SeqEqual
<1> QED BY <1>10 DEF a, b, p, q, u

\* It makes no difference where the elements are grouped.
LEMMA FlattenMapped ==
    ASSUME NEW X, NEW T, NEW g, Maps(g, X, Seq(T)), NEW seqs \in Seq(Seq(X))
    PROVE  FlattenSeq(Mapped(FlattenSeq(seqs), g))
               = FlattenSeq([k \in 1..Len(seqs) |-> FlattenSeq(Mapped(seqs[k], g))])
<1> DEFINE n == Len(seqs)
           t == [k \in 1..n |-> FlattenSeq(Mapped(seqs[k], g))]
<1>1. n \in Nat /\ \A k \in 1..n : seqs[k] \in Seq(X)
  OBVIOUS
<1>2. PICK f \in [0..n -> Seq(X)] : Flattened(seqs, f) /\ FlattenSeq(seqs) = f[n]
  BY FlattenedExists
<1>3. f[0] = <<>> /\ \A k \in 1..n : f[k] = f[k - 1] \o seqs[k]
  BY <1>2 DEF Flattened
<1> HIDE DEF n
<1>4. t \in Seq(Seq(T)) /\ Len(t) = n
  <2>1. \A k \in 1..n : FlattenSeq(Mapped(seqs[k], g)) \in Seq(T)
    BY <1>1, MappedType, FlattenType
  <2>2. t \in [1..n -> Seq(T)]
    BY <2>1
  <2> HIDE DEF t
  <2> QED BY <1>1, <2>2, FunctionIsSeq
<1> DEFINE h == [k \in 0..n |-> FlattenSeq(Mapped(f[k], g))]
<1>5. h[0] = <<>>
  <2>1. Mapped(<<>>, g) = <<>>
    BY DEF Mapped
  <2> QED BY <1>1, <1>3, <2>1, FlattenEmpty
<1>6. ASSUME NEW k \in 1..n PROVE h[k] = h[k - 1] \o t[k]
  <2>1. k - 1 \in 0..n /\ k \in 0..n
    BY <1>1
  <2>2. f[k - 1] \in Seq(X) /\ seqs[k] \in Seq(X) /\ f[k] = f[k - 1] \o seqs[k]
    BY <1>1, <1>2, <1>3, <2>1
  <2>3. Mapped(f[k], g) = Mapped(f[k - 1], g) \o Mapped(seqs[k], g)
    <3> DEFINE v == f[k - 1]
               w == seqs[k]
    <3>1. v \in Seq(X) /\ w \in Seq(X) /\ f[k] = v \o w
      BY <2>2
    <3> HIDE DEF v, w
    <3>2. Mapped(v \o w, g) = Mapped(v, g) \o Mapped(w, g)
      BY <3>1, MappedConcat
    <3> QED BY <3>1, <3>2 DEF v, w
  <2>4. Mapped(f[k - 1], g) \in Seq(Seq(T)) /\ Mapped(seqs[k], g) \in Seq(Seq(T))
    BY <2>2, MappedType
  <2>5. FlattenSeq(Mapped(f[k], g))
            = FlattenSeq(Mapped(f[k - 1], g)) \o FlattenSeq(Mapped(seqs[k], g))
    BY <2>3, <2>4, FlattenConcat
  <2> QED BY <2>1, <2>5
<1>7. h[n] = FlattenSeq(Mapped(f[n], g))
  BY <1>1
<1> HIDE DEF h
<1>8. Flattened(t, h)
  BY <1>4, <1>5, <1>6 DEF Flattened
<1>9. FlattenSeq(t) = h[n]
  <2> HIDE DEF t
  <2> QED BY <1>4, <1>8, FlattenIs
<1> QED BY <1>2, <1>7, <1>9 DEF n
-----------------------------------------------------------------------------
(* Types.                                                                   *)

Pieces     == Slots \X Parts \X Nat
BlockKinds == {"text", "thinking", "tool"}
Reasons    == {"end_turn", "max_tokens", "tool_use", "refusal"}
Stages     == {"before", "message", "ending", "stopped", "failed"}

Frames ==
    [type : {"message_start", "start", "delta", "signature", "stop",
             "message_delta", "message_stop", "error"},
     kind : BlockKinds \cup Reasons \cup {"none", "encoded"},
     index : Nat, pieces : Seq(Pieces)]

Clients ==
    [stage : Stages, open : BlockKinds \cup {"none", "signed"}, blocks : Nat,
     stop : Reasons \cup {"none"}, tooled : BOOLEAN, got : Seq(Pieces), foreign : BOOLEAN]

-----------------------------------------------------------------------------
(* Paths over the frames on their way.                                      *)

\* The protocol lets this frame come next.
Allowed(c, f) ==
    CASE f.type = "message_start" -> c.stage = "before"
      [] f.type = "start"         -> c.stage = "message" /\ c.open = "none"
                                     /\ f.index = c.blocks /\ f.kind \in BlockKinds
      [] f.type = "delta"         -> c.stage = "message"
                                     /\ f.index + 1 = c.blocks /\ f.kind = c.open
      [] f.type = "signature"     -> c.stage = "message" /\ c.open = "thinking"
                                     /\ f.index + 1 = c.blocks
      [] f.type = "stop"          -> c.stage = "message" /\ c.open \in {"text", "signed", "tool"}
                                     /\ f.index + 1 = c.blocks
      [] f.type = "message_delta" -> c.stage = "message" /\ c.open = "none"
                                     /\ f.kind \in Reasons /\ (c.tooled => f.kind = "tool_use")
      [] f.type = "message_stop"  -> c.stage = "ending"
      [] f.type = "error"         -> c.stage \in {"before", "message"} /\ ~c.tooled

\* w: what the client has seen before each frame, and at the end.
IsPath(w, c, frames, d, omitted) ==
    /\ w \in [1..(Len(frames) + 1) -> Clients]
    /\ w[1] = c /\ w[Len(frames) + 1] = d
    /\ \A k \in 1..Len(frames) :
           /\ Allowed(w[k], frames[k])
           /\ w[k + 1] = After(w[k], frames[k], omitted)
    /\ \A k \in 1..(Len(frames) + 1) : w[k].tooled => d.tooled

Reaches(c, frames, d, omitted) == \E w : IsPath(w, c, frames, d, omitted)

LEMMA AfterAllowed ==
    ASSUME NEW c \in Clients, NEW f \in Frames, NEW omitted \in BOOLEAN, Allowed(c, f)
    PROVE  /\ Fits(c, f) /\ Shown(c, f, omitted) = After(c, f, omitted)
           /\ After(c, f, omitted) \in Clients
           /\ c.tooled => After(c, f, omitted).tooled
<1>1. Fits(c, f)
  BY DEF Fits, Allowed, Frames, BlockKinds, Reasons
<1> DEFINE e == After(c, f, omitted)
<1>2. /\ c.stage \in Stages /\ c.open \in BlockKinds \cup {"none", "signed"} /\ c.blocks \in Nat
      /\ c.stop \in Reasons \cup {"none"} /\ c.tooled \in BOOLEAN /\ c.got \in Seq(Pieces)
      /\ c.foreign \in BOOLEAN /\ f.index \in Nat /\ f.pieces \in Seq(Pieces)
  BY DEF Clients, Frames
<1>3. c.got \o f.pieces \in Seq(Pieces)
  BY <1>2, ConcatProperties
<1>4. e \in Clients /\ (c.tooled => e.tooled)
  <2>1. CASE f.type = "message_start"
    BY <1>2, <1>3, <2>1 DEF After, Clients, Stages
  <2>2. CASE f.type = "start"
    <3>1. f.kind \in BlockKinds
      BY <2>2 DEF Allowed
    <3> DEFINE tooled == c.tooled \/ f.kind = "tool"
    <3>2. tooled \in BOOLEAN /\ c.blocks + 1 \in Nat /\ (c.tooled => tooled)
      BY <1>2
    <3>3. e = [c EXCEPT !.open = f.kind, !.blocks = c.blocks + 1, !.tooled = tooled]
      BY <2>2 DEF After
    <3> HIDE DEF tooled, e
    <3> QED BY <1>2, <1>3, <3>1, <3>2, <3>3 DEF Clients
  <2>3. CASE f.type = "delta"
    BY <1>2, <1>3, <2>3 DEF After, Clients
  <2>4. CASE f.type = "signature"
    <3>1. (c.foreign \/ f.kind = "router") \in BOOLEAN
      OBVIOUS
    <3> QED BY <1>2, <1>3, <2>4, <3>1 DEF After, Clients
  <2>5. CASE f.type = "stop"
    BY <1>2, <1>3, <2>5 DEF After, Clients
  <2>6. CASE f.type = "message_delta"
    BY <1>2, <1>3, <2>6 DEF After, Clients, Allowed, Stages
  <2>7. CASE f.type = "message_stop"
    BY <1>2, <1>3, <2>7 DEF After, Clients, Stages
  <2>8. CASE f.type = "error"
    BY <1>2, <1>3, <2>8 DEF After, Clients, Stages
  <2> QED BY <2>1, <2>2, <2>3, <2>4, <2>5, <2>6, <2>7, <2>8 DEF Frames
<1> QED BY <1>1, <1>4 DEF Shown

LEMMA ReachNil ==
    ASSUME NEW c \in Clients, NEW omitted
    PROVE  Reaches(c, <<>>, c, omitted)
<1> DEFINE w == [k \in 1..1 |-> c]
<1>1. IsPath(w, c, <<>>, c, omitted)
  BY DEF IsPath
<1> QED BY <1>1 DEF Reaches

LEMMA ReachEmpty ==
    ASSUME NEW c, NEW d, NEW omitted, Reaches(c, <<>>, d, omitted)
    PROVE  d = c
  BY DEF Reaches, IsPath

\* One more frame behind the others.
LEMMA ReachPush ==
    ASSUME NEW c, NEW d \in Clients, NEW frames \in Seq(Frames), NEW f \in Frames,
           NEW omitted \in BOOLEAN, Reaches(c, frames, d, omitted), Allowed(d, f)
    PROVE  /\ After(d, f, omitted) \in Clients
           /\ Append(frames, f) \in Seq(Frames)
           /\ Reaches(c, Append(frames, f), After(d, f, omitted), omitted)
<1> DEFINE n == Len(frames)
           e == After(d, f, omitted)
           more == Append(frames, f)
<1>1. PICK w : IsPath(w, c, frames, d, omitted)
  BY DEF Reaches
<1> DEFINE v == [k \in 1..(n + 2) |-> IF k = n + 2 THEN e ELSE w[k]]
<1>2. e \in Clients /\ (d.tooled => e.tooled)
  BY AfterAllowed
<1>3. n \in Nat /\ Len(more) = n + 1 /\ more \in Seq(Frames)
      /\ more[n + 1] = f /\ \A k \in 1..n : more[k] = frames[k]
  OBVIOUS
<1>4. /\ w \in [1..(n + 1) -> Clients] /\ w[1] = c /\ w[n + 1] = d
      /\ \A k \in 1..n : Allowed(w[k], frames[k]) /\ w[k + 1] = After(w[k], frames[k], omitted)
      /\ \A k \in 1..(n + 1) : w[k].tooled => d.tooled
  BY <1>1 DEF IsPath
<1> HIDE DEF e, more, n
<1>5. v \in [1..(Len(more) + 1) -> Clients] /\ v[1] = c /\ v[Len(more) + 1] = e
  BY <1>2, <1>3, <1>4
<1>6. \A k \in 1..Len(more) : Allowed(v[k], more[k]) /\ v[k + 1] = After(v[k], more[k], omitted)
  <2>1. (\A k \in 1..(n + 1) : v[k] = w[k]) /\ v[n + 2] = e
    BY <1>3
  <2> HIDE DEF v
  <2>2. ASSUME NEW k \in 1..n
        PROVE  Allowed(v[k], more[k]) /\ v[k + 1] = After(v[k], more[k], omitted)
    <3>1. k \in 1..(n + 1) /\ k + 1 \in 1..(n + 1)
      BY <1>3
    <3> QED BY <1>3, <1>4, <2>1, <3>1
  <2>3. Allowed(v[n + 1], more[n + 1]) /\ v[(n + 1) + 1] = After(v[n + 1], more[n + 1], omitted)
    <3>1. n + 1 \in 1..(n + 1) /\ (n + 1) + 1 = n + 2
      BY <1>3
    <3>2. v[n + 1] = d
      BY <1>4, <2>1, <3>1
    <3> QED BY <1>3, <2>1, <3>1, <3>2 DEF e
  <2>4. \A k \in 1..(n + 1) : k \in 1..n \/ k = n + 1
    BY <1>3
  <2> QED BY <1>3, <2>2, <2>3, <2>4
<1>7. \A k \in 1..(Len(more) + 1) : v[k].tooled => e.tooled
  BY <1>2, <1>3, <1>4
<1>8. IsPath(v, c, more, e, omitted)
  BY <1>5, <1>6, <1>7 DEF IsPath
<1> QED BY <1>2, <1>3, <1>8 DEF Reaches, e, more

\* The client takes the first of them.
LEMMA ReachTake ==
    ASSUME NEW c \in Clients, NEW d, NEW frames \in Seq(Frames), frames # <<>>,
           NEW omitted \in BOOLEAN, Reaches(c, frames, d, omitted)
    PROVE  /\ Allowed(c, Head(frames))
           /\ Shown(c, Head(frames), omitted) = After(c, Head(frames), omitted)
           /\ Shown(c, Head(frames), omitted) \in Clients
           /\ Reaches(Shown(c, Head(frames), omitted), Tail(frames), d, omitted)
<1> DEFINE n == Len(frames)
           rest == Tail(frames)
<1>1. PICK w : IsPath(w, c, frames, d, omitted)
  BY DEF Reaches
<1> DEFINE v == [k \in 1..n |-> w[k + 1]]
<1>2. n \in Nat \ {0} /\ Len(rest) = n - 1 /\ Head(frames) = frames[1] /\ frames[1] \in Frames
      /\ \A k \in 1..(n - 1) : rest[k] = frames[k + 1]
  OBVIOUS
<1>3. /\ w \in [1..(n + 1) -> Clients] /\ w[1] = c /\ w[n + 1] = d
      /\ \A k \in 1..n : Allowed(w[k], frames[k]) /\ w[k + 1] = After(w[k], frames[k], omitted)
      /\ \A k \in 1..(n + 1) : w[k].tooled => d.tooled
  BY <1>1 DEF IsPath
<1> HIDE DEF n, rest
<1>4. Allowed(c, frames[1]) /\ w[2] = After(c, frames[1], omitted)
  BY <1>2, <1>3
<1>5. Shown(c, frames[1], omitted) = w[2] /\ w[2] \in Clients
  BY <1>2, <1>4, AfterAllowed
<1>6. IsPath(v, w[2], rest, d, omitted)
  BY <1>2, <1>3 DEF IsPath
<1> QED BY <1>2, <1>4, <1>5, <1>6 DEF Reaches, rest

LEMMA ReachTooled ==
    ASSUME NEW c, NEW d, NEW frames \in Seq(Frames), NEW omitted, Reaches(c, frames, d, omitted)
    PROVE  (c.tooled => d.tooled) /\ d \in Clients
<1>1. PICK w : IsPath(w, c, frames, d, omitted)
  BY DEF Reaches
<1>2. 1 \in 1..(Len(frames) + 1) /\ Len(frames) + 1 \in 1..(Len(frames) + 1)
  OBVIOUS
<1> QED BY <1>1, <1>2 DEF IsPath

\* A message that has ended has nothing on its way.
LEMMA ReachEnded ==
    ASSUME NEW c \in Clients, NEW d, NEW frames \in Seq(Frames), NEW omitted \in BOOLEAN,
           Reaches(c, frames, d, omitted), c.stage \in {"stopped", "failed"}
    PROVE  frames = <<>> /\ d = c
<1>1. CASE frames # <<>>
  <2>1. Allowed(c, Head(frames)) /\ Head(frames) \in Frames
    BY <1>1, ReachTake
  <2> QED BY <2>1 DEF Allowed, Frames
<1>2. CASE frames = <<>>
  BY <1>2, ReachEmpty
<1> QED BY <1>1, <1>2

-----------------------------------------------------------------------------
(* The frames of whole blocks.                                              *)

Blocks(kinds) == [kind : kinds, pieces : Seq(Pieces)]

\* On the way through n blocks, the last of them perhaps open.
During(d, open, n, got, tools) ==
    /\ d \in Clients
    /\ d.stage = "message" /\ d.open = open /\ d.blocks = n
    /\ d.got = got
    /\ d.tooled => tools

Leads(c, frames, open, n, got, tools, omitted) ==
    /\ frames \in Seq(Frames)
    /\ \E d : Reaches(c, frames, d, omitted) /\ During(d, open, n, got, tools)

BlockStart(block, index) == Frame("start", block.kind, index, <<>>)
BlockDelta(block, index) == Frame("delta", block.kind, index, block.pieces)
BlockSignature(block, index) == Frame("signature", "encoded", index, block.pieces)
BlockStop(block, index) == Frame("stop", block.kind, index, <<>>)

LEMMA BlockFrame ==
    ASSUME NEW block \in Blocks(BlockKinds), NEW n \in Nat
    PROVE  /\ BlockStart(block, n) \in Frames /\ BlockDelta(block, n) \in Frames
           /\ BlockSignature(block, n) \in Frames /\ BlockStop(block, n) \in Frames
<1>1. <<>> \in Seq(Pieces) /\ block.kind \in BlockKinds /\ block.pieces \in Seq(Pieces)
  BY EmptySeq DEF Blocks
<1> QED BY <1>1 DEF BlockStart, BlockDelta, BlockSignature, BlockStop, Frame, Frames

LEMMA StartLeads ==
    ASSUME NEW c, NEW frames, NEW n \in Nat, NEW got, NEW tools \in BOOLEAN,
           NEW omitted \in BOOLEAN, NEW block \in Blocks(BlockKinds),
           block.kind = "tool" => tools,
           Leads(c, frames, "none", n, got, tools, omitted)
    PROVE  Leads(c, Append(frames, BlockStart(block, n)), block.kind, n + 1, got, tools, omitted)
<1> DEFINE f == BlockStart(block, n)
<1>1. PICK d : Reaches(c, frames, d, omitted) /\ During(d, "none", n, got, tools)
  BY DEF Leads
<1>2. f \in Frames /\ f.type = "start" /\ f.kind = block.kind /\ f.index = n
      /\ block.kind \in BlockKinds
  BY BlockFrame DEF BlockStart, Frame, Blocks
<1> HIDE DEF f
<1>3. Allowed(d, f)
  BY <1>1, <1>2 DEF Allowed, During
<1>4. /\ After(d, f, omitted) \in Clients /\ Append(frames, f) \in Seq(Frames)
      /\ Reaches(c, Append(frames, f), After(d, f, omitted), omitted)
  BY <1>1, <1>2, <1>3, ReachPush DEF Leads, During
<1>5. During(After(d, f, omitted), block.kind, n + 1, got, tools)
  <2> DEFINE e == After(d, f, omitted)
             tooled == d.tooled \/ f.kind = "tool"
  <2>1. e = [d EXCEPT !.open = f.kind, !.blocks = d.blocks + 1, !.tooled = tooled]
    BY <1>2 DEF After
  <2>2. tooled => tools
    BY <1>1, <1>2 DEF During
  <2>3. e \in Clients
    BY <1>4
  <2> HIDE DEF e, tooled
  <2>4. /\ e.stage = d.stage /\ e.open = f.kind /\ e.blocks = d.blocks + 1 /\ e.got = d.got
        /\ (e.tooled => tooled)
    BY <1>1, <2>1 DEF During, Clients
  <2> QED BY <1>1, <1>2, <2>2, <2>3, <2>4 DEF During, e
<1> QED BY <1>4, <1>5 DEF Leads, f

LEMMA DeltaLeads ==
    ASSUME NEW c, NEW frames, NEW n \in Nat, NEW got, NEW tools \in BOOLEAN,
           NEW omitted \in BOOLEAN, NEW block \in Blocks(BlockKinds),
           Leads(c, frames, block.kind, n + 1, got, tools, omitted)
    PROVE  Leads(c, Append(frames, BlockDelta(block, n)), block.kind, n + 1,
                 got \o block.pieces, tools, omitted)
<1> DEFINE f == BlockDelta(block, n)
<1>1. PICK d : Reaches(c, frames, d, omitted) /\ During(d, block.kind, n + 1, got, tools)
  BY DEF Leads
<1>2. f \in Frames /\ f.type = "delta" /\ f.kind = block.kind /\ f.index = n
      /\ f.pieces = block.pieces
  BY BlockFrame DEF BlockDelta, Frame
<1> HIDE DEF f
<1>3. Allowed(d, f)
  BY <1>1, <1>2 DEF Allowed, During
<1>4. /\ After(d, f, omitted) \in Clients /\ Append(frames, f) \in Seq(Frames)
      /\ Reaches(c, Append(frames, f), After(d, f, omitted), omitted)
  BY <1>1, <1>2, <1>3, ReachPush DEF Leads, During
<1>5. During(After(d, f, omitted), block.kind, n + 1, got \o block.pieces, tools)
  <2> DEFINE e == After(d, f, omitted)
  <2>1. e = [d EXCEPT !.got = d.got \o f.pieces]
    BY <1>2 DEF After
  <2>2. e \in Clients
    BY <1>4
  <2> HIDE DEF e
  <2>3. /\ e.stage = d.stage /\ e.open = d.open /\ e.blocks = d.blocks /\ e.got = d.got \o f.pieces
        /\ (e.tooled => d.tooled)
    BY <1>1, <2>1 DEF During, Clients
  <2> QED BY <1>1, <1>2, <2>2, <2>3 DEF During, e
<1> QED BY <1>4, <1>5 DEF Leads, f

LEMMA SignatureLeads ==
    ASSUME NEW c, NEW frames, NEW n \in Nat, NEW got, NEW tools \in BOOLEAN,
           NEW omitted \in BOOLEAN, NEW block \in Blocks(BlockKinds),
           Leads(c, frames, "thinking", n + 1, got, tools, omitted)
    PROVE  Leads(c, Append(frames, BlockSignature(block, n)), "signed", n + 1,
                 IF omitted THEN got \o block.pieces ELSE got, tools, omitted)
<1> DEFINE f == BlockSignature(block, n)
<1>1. PICK d : Reaches(c, frames, d, omitted) /\ During(d, "thinking", n + 1, got, tools)
  BY DEF Leads
<1>2. f \in Frames /\ f.type = "signature" /\ f.kind = "encoded" /\ f.index = n
      /\ f.pieces = block.pieces
  BY BlockFrame DEF BlockSignature, Frame
<1> HIDE DEF f
<1>3. Allowed(d, f)
  BY <1>1, <1>2 DEF Allowed, During
<1>4. /\ After(d, f, omitted) \in Clients /\ Append(frames, f) \in Seq(Frames)
      /\ Reaches(c, Append(frames, f), After(d, f, omitted), omitted)
  BY <1>1, <1>2, <1>3, ReachPush DEF Leads, During
<1>5. During(After(d, f, omitted), "signed", n + 1,
             IF omitted THEN got \o block.pieces ELSE got, tools)
  <2> DEFINE e == After(d, f, omitted)
             foreign == d.foreign \/ f.kind = "router"
             more == IF omitted THEN d.got \o f.pieces ELSE d.got
  <2>1. e = [d EXCEPT !.open = "signed", !.got = more, !.foreign = foreign]
    BY <1>2 DEF After
  <2>2. e \in Clients
    BY <1>4
  <2> HIDE DEF e, foreign, more
  <2>3. /\ e.stage = d.stage /\ e.open = "signed" /\ e.blocks = d.blocks /\ e.got = more
        /\ (e.tooled => d.tooled)
    BY <1>1, <2>1 DEF During, Clients
  <2>4. more = IF omitted THEN got \o block.pieces ELSE got
    BY <1>1, <1>2 DEF During, more
  <2> QED BY <1>1, <1>2, <2>2, <2>3, <2>4 DEF During, e
<1> QED BY <1>4, <1>5 DEF Leads, f

LEMMA StopLeads ==
    ASSUME NEW c, NEW frames, NEW n \in Nat, NEW got, NEW tools \in BOOLEAN, NEW open,
           NEW omitted \in BOOLEAN, NEW block \in Blocks(BlockKinds),
           open \in {"text", "signed", "tool"},
           Leads(c, frames, open, n + 1, got, tools, omitted)
    PROVE  Leads(c, Append(frames, BlockStop(block, n)), "none", n + 1, got, tools, omitted)
<1> DEFINE f == BlockStop(block, n)
<1>1. PICK d : Reaches(c, frames, d, omitted) /\ During(d, open, n + 1, got, tools)
  BY DEF Leads
<1>2. f \in Frames /\ f.type = "stop" /\ f.index = n
  BY BlockFrame DEF BlockStop, Frame
<1> HIDE DEF f
<1>3. Allowed(d, f)
  BY <1>1, <1>2 DEF Allowed, During
<1>4. /\ After(d, f, omitted) \in Clients /\ Append(frames, f) \in Seq(Frames)
      /\ Reaches(c, Append(frames, f), After(d, f, omitted), omitted)
  BY <1>1, <1>2, <1>3, ReachPush DEF Leads, During
<1>5. During(After(d, f, omitted), "none", n + 1, got, tools)
  <2> DEFINE e == After(d, f, omitted)
  <2>1. e = [d EXCEPT !.open = "none"]
    BY <1>2 DEF After
  <2>2. e \in Clients
    BY <1>4
  <2> HIDE DEF e
  <2>3. /\ e.stage = d.stage /\ e.open = "none" /\ e.blocks = d.blocks /\ e.got = d.got
        /\ (e.tooled => d.tooled)
    BY <1>1, <2>1 DEF During, Clients
  <2> QED BY <1>1, <1>2, <2>2, <2>3 DEF During, e
<1> QED BY <1>4, <1>5 DEF Leads, f

LEMMA FramesRegrouped == \A a, b, c \in Seq(Frames) : (a \o b) \o c = a \o (b \o c)
  BY Regrouped

LEMMA PiecesRegrouped == \A a, b, c \in Seq(Pieces) : (a \o b) \o c = a \o (b \o c)
  BY Regrouped

One(x) == <<x>>

Chain(f, s, x, y, z) == Append((Append(f, s) \o x) \o y, z)

LEMMA BehindType ==
    ASSUME NEW T, NEW s \in T, NEW x \in Seq(T), NEW y \in Seq(T), NEW z \in T
    PROVE  One(s) \o x \o y \o One(z) \in Seq(T)
<1>1. One(s) \in Seq(T) /\ One(z) \in Seq(T)
  BY DEF One
<1>2. One(s) \o x \in Seq(T)
  BY <1>1, ConcatProperties
<1>3. One(s) \o x \o y \in Seq(T)
  BY <1>2, ConcatProperties
<1> QED BY <1>1, <1>3, ConcatProperties

LEMMA Behind ==
    ASSUME NEW T, NEW f \in Seq(T), NEW s \in T, NEW x \in Seq(T), NEW y \in Seq(T), NEW z \in T
    PROVE  f \o (One(s) \o x \o y \o One(z)) = Chain(f, s, x, y, z)
<1> DEFINE a == One(s)
           b == One(z)
           p == a \o x
           q == p \o y
<1>0. \A u, v, w \in Seq(T) : (u \o v) \o w = u \o (v \o w)
  BY Regrouped
<1>1. a \in Seq(T) /\ b \in Seq(T)
  BY DEF One
<1>2. f \o a = Append(f, s) /\ Append(f, s) \in Seq(T)
  BY AppendIsConcat, AppendProperties DEF One
<1> HIDE DEF a
<1>3. p \in Seq(T) /\ f \o p = (f \o a) \o x
  <2>1. p \in Seq(T)
    BY <1>1, ConcatProperties
  <2>2. (f \o a) \o x = f \o (a \o x)
    BY <1>1, Regrouped
  <2> QED BY <2>1, <2>2
<1> HIDE DEF p
<1>4. q \in Seq(T) /\ f \o q = (f \o p) \o y
  <2>1. q \in Seq(T)
    BY <1>3, ConcatProperties
  <2>2. (f \o p) \o y = f \o (p \o y)
    BY <1>0, <1>3, Zenon
  <2> QED BY <2>1, <2>2
<1> HIDE DEF q
<1>5. f \o q \in Seq(T) /\ (f \o q) \o <<z>> = Append(f \o q, z)
  <2>1. f \o q \in Seq(T)
    BY <1>4, ConcatProperties
  <2> DEFINE r == f \o q
  <2> HIDE DEF r
  <2>2. r \in Seq(T) => r \o <<z>> = Append(r, z)
    BY AppendIsConcat
  <2> QED BY <2>1, <2>2 DEF r
<1> HIDE DEF b
<1>6. q \o b \in Seq(T) /\ (f \o q) \o b = f \o (q \o b)
  <2>1. q \o b \in Seq(T)
    BY <1>1, <1>4, ConcatProperties
  <2>2. (f \o q) \o b = f \o (q \o b)
    BY <1>0, <1>1, <1>4, Zenon
  <2> QED BY <2>1, <2>2
<1>7. f \o (q \o b) = Append((Append(f, s) \o x) \o y, z)
  BY <1>2, <1>3, <1>4, <1>5, <1>6 DEF b, One
<1> QED BY <1>7 DEF a, b, p, q, Chain

LEMMA OneBehind ==
    ASSUME NEW T, NEW s \in Seq(T), NEW x \in T
    PROVE  s \o <<>> = s /\ s \o <<x>> = Append(s, x) /\ Append(s, x) \in Seq(T)
  BY ConcatEmptySeq, AppendIsConcat, AppendProperties

LEMMA FramesBehindType ==
    \A x, y \in Seq(Frames), s, z \in Frames : One(s) \o x \o y \o One(z) \in Seq(Frames)
  BY BehindType

LEMMA FramesBehind ==
    \A f, x, y \in Seq(Frames), s, z \in Frames :
        f \o (One(s) \o x \o y \o One(z)) = Chain(f, s, x, y, z)
  BY Behind
\* A whole block.
LEMMA BlockLeads ==
    ASSUME NEW c, NEW frames, NEW n \in Nat, NEW got \in Seq(Pieces), NEW tools \in BOOLEAN,
           NEW omitted \in BOOLEAN, NEW block \in Blocks(BlockKinds),
           block.kind = "tool" => tools,
           Leads(c, frames, "none", n, got, tools, omitted)
    PROVE  /\ BlockFrames(block, n, omitted) \in Seq(Frames)
           /\ Leads(c, frames \o BlockFrames(block, n, omitted), "none", n + 1,
                    got \o block.pieces, tools, omitted)
<1> DEFINE s == BlockStart(block, n)
           x == BlockDelta(block, n)
           y == BlockSignature(block, n)
           z == BlockStop(block, n)
           hidden == block.pieces = <<>> \/ (omitted /\ block.kind = "thinking")
<1>1. s \in Frames /\ x \in Frames /\ y \in Frames /\ z \in Frames /\ frames \in Seq(Frames)
  BY BlockFrame DEF Leads
<1>2. block.kind \in BlockKinds /\ block.pieces \in Seq(Pieces)
  BY DEF Blocks
<1>3. BlockFrames(block, n, omitted)
          = One(s) \o (IF hidden THEN <<>> ELSE <<x>>)
            \o (IF block.kind # "thinking" THEN <<>> ELSE <<y>>) \o One(z)
  BY DEF One, BlockFrames, BlockStart, BlockDelta, BlockSignature, BlockStop
<1>4. Leads(c, Append(frames, s), block.kind, n + 1, got, tools, omitted)
  BY StartLeads
<1>5. Leads(c, Append(Append(frames, s), x), block.kind, n + 1, got \o block.pieces, tools, omitted)
  BY <1>4, DeltaLeads
<1>6. block.pieces = <<>> => got \o block.pieces = got
  BY ConcatEmptySeq
<1> DEFINE delta == IF hidden THEN <<>> ELSE <<x>>
           signature == IF block.kind # "thinking" THEN <<>> ELSE <<y>>
           begun == Append(frames, s) \o delta
           signed == begun \o signature
<1>7. delta \in Seq(Frames) /\ signature \in Seq(Frames)
  <2> HIDE DEF x, y, hidden
  <2> QED BY <1>1
<1>8. /\ BlockFrames(block, n, omitted) \in Seq(Frames)
      /\ frames \o BlockFrames(block, n, omitted) = Append(signed, z)
  <2>1. BlockFrames(block, n, omitted) = One(s) \o delta \o signature \o One(z)
    BY <1>3
  <2> HIDE DEF s, z, delta, signature
  <2>2. s \in Frames /\ z \in Frames /\ frames \in Seq(Frames)
    BY <1>1
  <2>3. One(s) \o delta \o signature \o One(z) \in Seq(Frames)
    BY <1>7, <2>2, FramesBehindType, Zenon
  <2>4. frames \o (One(s) \o delta \o signature \o One(z))
            = Chain(frames, s, delta, signature, z)
    BY <1>7, <2>2, FramesBehind, Zenon
  <2> QED BY <2>1, <2>3, <2>4 DEF Chain
<1>9. Append(frames, s) \in Seq(Frames)
  BY <1>4 DEF Leads
<1>10. hidden => begun = Append(frames, s)
  <2>1. Append(frames, s) \o <<>> = Append(frames, s)
    <3> HIDE DEF s
    <3> QED BY <1>9, ConcatEmptySeq
  <2> HIDE DEF s, x, hidden
  <2> QED BY <2>1
<1>11. ~hidden => begun = Append(Append(frames, s), x)
  <2>1. Append(frames, s) \o <<x>> = Append(Append(frames, s), x)
    <3> DEFINE r == Append(frames, s)
    <3>1. r \in Seq(Frames)
      BY <1>9
    <3> HIDE DEF r, x
    <3> QED BY <1>1, <3>1, OneBehind
  <2> HIDE DEF s, x, hidden
  <2> QED BY <2>1
<1> HIDE DEF s, x, begun
<1>12. begun \in Seq(Frames)
  BY <1>4, <1>5, <1>10, <1>11 DEF Leads
<1>13. /\ block.kind # "thinking" => signed = begun
       /\ block.kind = "thinking" => signed = Append(begun, y)
  <2> HIDE DEF y
  <2> QED BY <1>1, <1>12, OneBehind
<1>14. CASE block.kind # "thinking"
  <2>1. block.kind \in {"text", "signed", "tool"} /\ (hidden => block.pieces = <<>>)
    BY <1>2, <1>14 DEF BlockKinds
  <2> HIDE DEF hidden, signed
  <2>2. Leads(c, begun, block.kind, n + 1, got \o block.pieces, tools, omitted)
    BY <1>4, <1>5, <1>6, <1>10, <1>11, <2>1
  <2>3. Leads(c, Append(begun, z), "none", n + 1, got \o block.pieces, tools, omitted)
    BY <2>1, <2>2, StopLeads
  <2> QED BY <1>8, <1>13, <1>14, <2>3
<1>15. CASE block.kind = "thinking"
  <2>1. Leads(c, Append(begun, y), "signed", n + 1, got \o block.pieces, tools, omitted)
    <3>1. CASE hidden
      <4>1. Leads(c, Append(begun, y), "signed", n + 1,
                  IF omitted THEN got \o block.pieces ELSE got, tools, omitted)
        BY <1>4, <1>10, <1>15, <3>1, SignatureLeads
      <4>2. (IF omitted THEN got \o block.pieces ELSE got) = got \o block.pieces
        BY <1>6, <1>15, <3>1
      <4> QED BY <4>1, <4>2
    <3>2. CASE ~hidden
      <4>1. ~omitted
        BY <1>15, <3>2
      <4>2. Leads(c, begun, "thinking", n + 1, got \o block.pieces, tools, omitted)
        BY <1>5, <1>11, <1>15, <3>2
      <4>3. Leads(c, Append(begun, y), "signed", n + 1,
                  IF omitted THEN (got \o block.pieces) \o block.pieces ELSE got \o block.pieces,
                  tools, omitted)
        BY <4>2, SignatureLeads
      <4> QED BY <4>1, <4>3
    <3> QED BY <3>1, <3>2
  <2> HIDE DEF signed, y
  <2>2. Leads(c, Append(signed, z), "none", n + 1, got \o block.pieces, tools, omitted)
    BY <1>13, <1>15, <2>1, StopLeads
  <2> QED BY <1>8, <2>2
<1> HIDE DEF z, signed
<1> QED BY <1>8, <1>14, <1>15

LEMMA BlockFramesType ==
    ASSUME NEW n \in Nat, NEW omitted \in BOOLEAN, NEW block \in Blocks(BlockKinds)
    PROVE  BlockFrames(block, n, omitted) \in Seq(Frames)
<1> DEFINE s == BlockStart(block, n)
           x == BlockDelta(block, n)
           y == BlockSignature(block, n)
           z == BlockStop(block, n)
           hidden == block.pieces = <<>> \/ (omitted /\ block.kind = "thinking")
           delta == IF hidden THEN <<>> ELSE <<x>>
           signature == IF block.kind # "thinking" THEN <<>> ELSE <<y>>
<1>1. s \in Frames /\ x \in Frames /\ y \in Frames /\ z \in Frames
  BY BlockFrame
<1>2. BlockFrames(block, n, omitted) = One(s) \o delta \o signature \o One(z)
  BY DEF One, BlockFrames, BlockStart, BlockDelta, BlockSignature, BlockStop
<1> HIDE DEF s, x, y, z, hidden
<1>3. delta \in Seq(Frames) /\ signature \in Seq(Frames) /\ <<>> \in Seq(Frames)
  BY <1>1
<1> HIDE DEF delta, signature
<1> QED BY <1>1, <1>2, <1>3, FramesBehindType

PiecesFrom(content, first) ==
    [k \in 1..(Len(content) - first + 1) |-> content[first + k - 1].pieces]

LEMMA PiecesFromType ==
    ASSUME NEW kinds, NEW content \in Seq(Blocks(kinds)), NEW first \in {1, 2},
           first <= Len(content) + 1
    PROVE  /\ PiecesFrom(content, first) \in Seq(Seq(Pieces))
           /\ Len(PiecesFrom(content, first)) = Len(content) - first + 1
<1> DEFINE m == Len(content) - first + 1
<1>1. m \in Nat /\ \A k \in 1..m : first + k - 1 \in 1..Len(content)
  OBVIOUS
<1>2. \A k \in 1..m : content[first + k - 1] \in Blocks(kinds)
  BY <1>1
<1>3. \A k \in 1..m : content[first + k - 1].pieces \in Seq(Pieces)
  BY <1>2 DEF Blocks
<1>4. PiecesFrom(content, first) \in [1..m -> Seq(Pieces)]
  BY <1>3 DEF PiecesFrom
<1> HIDE DEF m
<1>5. PiecesFrom(content, first) \in Seq(Seq(Pieces)) /\ Len(PiecesFrom(content, first)) = m
  BY <1>1, <1>4, FunctionIsSeq
<1> QED BY <1>5 DEF m

\* The blocks of a message one after the other.
LEMMA BlocksLead ==
    ASSUME NEW c, NEW frames \in Seq(Frames), NEW first \in {1, 2}, NEW got \in Seq(Pieces),
           NEW tools \in BOOLEAN, NEW omitted \in BOOLEAN,
           NEW kinds, kinds \subseteq BlockKinds, "tool" \in kinds => tools,
           NEW content \in Seq(Blocks(kinds)), first <= Len(content) + 1,
           Leads(c, frames, "none", first - 1, got, tools, omitted)
    PROVE  Leads(c, frames \o BlocksFrom(content, first, omitted), "none", Len(content),
                 got \o FlattenSeq(PiecesFrom(content, first)), tools, omitted)
<1> DEFINE m == Len(content) - first + 1
           fs == [k \in 1..m |-> BlockFrames(content[first + k - 1], first + k - 2, omitted)]
           ts == PiecesFrom(content, first)
<1>1. /\ m \in Nat /\ first \in Nat /\ first - 1 \in Nat
      /\ \A k \in 1..m : first + k - 1 \in 1..Len(content) /\ first + k - 2 \in Nat
      /\ first - 1 + m = Len(content)
  OBVIOUS
<1>2. ASSUME NEW k \in 1..m
      PROVE  /\ content[first + k - 1] \in Blocks(BlockKinds)
             /\ content[first + k - 1].kind = "tool" => tools
  <2>1. content[first + k - 1] \in Blocks(kinds)
    BY <1>1
  <2> QED BY <2>1 DEF Blocks
<1>3. ts \in Seq(Seq(Pieces)) /\ Len(ts) = m
  BY PiecesFromType
<1>4. \A k \in 1..m : ts[k] = content[first + k - 1].pieces
  BY DEF PiecesFrom
<1> HIDE DEF m, ts
<1>5. ASSUME NEW k \in 1..m, NEW a \in Seq(Frames), NEW b \in Seq(Pieces),
             Leads(c, a, "none", first + k - 2, b, tools, omitted)
      PROVE  Leads(c, a \o fs[k], "none", (first + k - 2) + 1, b \o ts[k], tools, omitted)
  <2> DEFINE block == content[first + k - 1]
             n == first + k - 2
  <2>1. block \in Blocks(BlockKinds) /\ (block.kind = "tool" => tools) /\ n \in Nat
    BY <1>1, <1>2
  <2>2. fs[k] = BlockFrames(block, n, omitted) /\ ts[k] = block.pieces
    BY <1>4
  <2>3. Leads(c, a, "none", n, b, tools, omitted)
    BY <1>5
  <2> HIDE DEF block, n, fs
  <2>4. Leads(c, a \o BlockFrames(block, n, omitted), "none", n + 1,
              b \o block.pieces, tools, omitted)
    BY <2>1, <2>3, BlockLeads
  <2> QED BY <2>2, <2>4 DEF n
<1>6. fs \in Seq(Seq(Frames)) /\ Len(fs) = m
  <2>1. ASSUME NEW k \in 1..m
        PROVE  BlockFrames(content[first + k - 1], first + k - 2, omitted) \in Seq(Frames)
    BY <1>1, <1>2, BlockFramesType
  <2>2. fs \in [1..m -> Seq(Frames)]
    BY <2>1
  <2> HIDE DEF fs
  <2> QED BY <1>1, <2>2, FunctionIsSeq
<1>7. BlocksFrom(content, first, omitted) = FlattenSeq(fs)
  BY DEF BlocksFrom, m
<1> HIDE DEF fs
<1>8. PICK gf \in [0..m -> Seq(Frames)] : Flattened(fs, gf) /\ FlattenSeq(fs) = gf[m]
  BY <1>6, FlattenedExists
<1>9. PICK gt \in [0..m -> Seq(Pieces)] : Flattened(ts, gt) /\ FlattenSeq(ts) = gt[m]
  BY <1>3, FlattenedExists
<1>10. /\ gf[0] = <<>> /\ \A k \in 1..m : gf[k] = gf[k - 1] \o fs[k]
       /\ gt[0] = <<>> /\ \A k \in 1..m : gt[k] = gt[k - 1] \o ts[k]
  BY <1>3, <1>6, <1>8, <1>9 DEF Flattened
<1> DEFINE D == {k \in Nat : Leads(c, frames \o gf[k], "none", first + k - 1, got \o gt[k],
                                  tools, omitted)}
<1>11. 0 \in D
  <2>1. frames \o <<>> = frames /\ got \o <<>> = got
    BY ConcatEmptySeq
  <2>2. first + 0 - 1 = first - 1
    BY <1>1
  <2> QED BY <1>10, <2>1, <2>2
<1>12. ASSUME NEW k \in 0..(m - 1), k \in D PROVE k + 1 \in D
  <2> DEFINE i == k + 1
  <2>1. /\ i \in 1..m /\ i \in Nat /\ i - 1 = k /\ k \in 0..m /\ first + i - 2 = first + k - 1
        /\ (first + i - 2) + 1 = first + i - 1
    BY <1>1
  <2>2. /\ gf[k] \in Seq(Frames) /\ gt[k] \in Seq(Pieces) /\ fs[i] \in Seq(Frames)
        /\ ts[i] \in Seq(Pieces)
    <3>1. gf[k] \in Seq(Frames) /\ gt[k] \in Seq(Pieces)
      BY <2>1
    <3>2. fs[i] \in Seq(Frames)
      <4>1. \A j \in 1..m : fs[j] \in Seq(Frames)
        BY <1>6
      <4> QED BY <2>1, <4>1
    <3>3. ts[i] \in Seq(Pieces)
      <4>1. \A j \in 1..m : ts[j] \in Seq(Pieces)
        BY <1>3
      <4> QED BY <2>1, <4>1
    <3> QED BY <3>1, <3>2, <3>3
  <2>3. frames \o gf[k] \in Seq(Frames) /\ got \o gt[k] \in Seq(Pieces)
    BY <2>2, ConcatProperties
  <2>4. Leads(c, frames \o gf[k], "none", first + i - 2, got \o gt[k], tools, omitted)
    BY <1>12, <2>1
  <2> HIDE DEF i
  <2>5. Leads(c, (frames \o gf[k]) \o fs[i], "none", (first + i - 2) + 1,
              (got \o gt[k]) \o ts[i], tools, omitted)
    BY <1>5, <2>1, <2>3, <2>4
  <2>6. (frames \o gf[k]) \o fs[i] = frames \o (gf[k] \o fs[i])
    BY <2>2, FramesRegrouped, Zenon
  <2>7. (got \o gt[k]) \o ts[i] = got \o (gt[k] \o ts[i])
    BY <2>2, PiecesRegrouped, Zenon
  <2>8. gf[i] = gf[k] \o fs[i] /\ gt[i] = gt[k] \o ts[i]
    BY <1>10, <2>1
  <2>9. Leads(c, frames \o gf[i], "none", first + i - 1, got \o gt[i], tools, omitted)
    BY <2>1, <2>5, <2>6, <2>7, <2>8
  <2>10. i \in D
    BY <2>1, <2>9
  <2> QED BY <2>10 DEF i
<1>13. m \in D
  <2> HIDE DEF D
  <2>1. 0..m \subseteq D
    BY <1>1, <1>11, <1>12, BoundedInduction
  <2> QED BY <1>1, <2>1
<1>14. Leads(c, frames \o gf[m], "none", first + m - 1, got \o gt[m], tools, omitted)
  BY <1>13
<1>15. first + m - 1 = Len(content)
  BY <1>1
<1> QED BY <1>7, <1>8, <1>9, <1>14, <1>15 DEF ts
-----------------------------------------------------------------------------
(* The end of a message.                                                    *)

LEMMA PrefixIs ==
    ASSUME NEW T, NEW s \in Seq(T), NEW t \in Seq(T)
    PROVE  IsPrefix(s, t) <=> Len(s) <= Len(t) /\ \A i \in 1..Len(s) : s[i] = t[i]
<1> DEFINE n == Len(s)
           u == SubSeq(t, 1, n)
<1>1. n \in Nat /\ Len(t) \in Nat /\ SubSeq(s, 1, n) = s
  BY SubSeqFull
<1>2. n <= Len(t) => u \in Seq(T) /\ Len(u) = n /\ \A i \in 1..n : u[i] = t[i]
  <2> SUFFICES ASSUME n <= Len(t) PROVE u \in Seq(T) /\ Len(u) = n /\ \A i \in 1..n : u[i] = t[i]
    OBVIOUS
  <2>1. \A i \in 1..n : t[i] \in T /\ 1 + i - 1 = i
    OBVIOUS
  <2>2. u \in Seq(T) /\ Len(u) = n /\ \A i \in 1..n : u[i] = t[1 + i - 1]
    BY <1>1, <2>1, SubSeqProperties
  <2> QED BY <2>1, <2>2
<1> HIDE DEF u
<1>3. n <= Len(t) => (s = u <=> \A i \in 1..n : s[i] = t[i])
  BY <1>1, <1>2, SeqEqual
<1> QED BY <1>1, <1>3 DEF IsPrefix, u

\* The rest behind a beginning.
Resumed(s, t, rest, T) ==
    /\ Len(s) = Len(t) => s = t
    /\ rest \in Seq(T) /\ s \o rest = t

LEMMA PrefixRest ==
    ASSUME NEW T, NEW s \in Seq(T), NEW t \in Seq(T), IsPrefix(s, t)
    PROVE  Resumed(s, t, SubSeq(t, Len(s) + 1, Len(t)), T)
<1> DEFINE m == Len(s)
           n == Len(t)
           r == SubSeq(t, m + 1, n)
           u == s \o r
<1>1. m \in Nat /\ n \in Nat /\ m <= n /\ \A i \in 1..m : s[i] = t[i]
  BY PrefixIs
<1>2. m = n => s = t
  BY <1>1, SeqEqual
<1>3. r \in Seq(T) /\ Len(r) = n - m /\ \A i \in 1..(n - m) : r[i] = t[m + i]
  <2>1. \A i \in (m + 1)..n : t[i] \in T
    BY <1>1
  <2>2. \A i \in 1..(n - m) : (m + 1) + i - 1 = m + i
    BY <1>1
  <2>3. /\ r \in Seq(T) /\ Len(r) = IF m + 1 <= n THEN n - (m + 1) + 1 ELSE 0
        /\ \A i \in 1..(n - (m + 1) + 1) : r[i] = t[(m + 1) + i - 1]
    BY <1>1, <2>1, SubSeqProperties
  <2>4. n - (m + 1) + 1 = n - m /\ (~(m + 1 <= n) => n - m = 0)
    BY <1>1
  <2> QED BY <2>2, <2>3, <2>4
<1> HIDE DEF r
<1>4. /\ u \in Seq(T) /\ Len(u) = n
      /\ \A i \in 1..n : u[i] = IF i <= m THEN s[i] ELSE r[i - m]
  BY <1>1, <1>3, ConcatProperties
<1> HIDE DEF u
<1>5. ASSUME NEW i \in 1..n PROVE u[i] = t[i]
  <2>1. CASE i <= m
    <3>1. i \in 1..m
      BY <1>1, <2>1
    <3> QED BY <1>1, <1>4, <2>1, <3>1
  <2>2. CASE ~(i <= m)
    <3>1. i - m \in 1..(n - m) /\ m + (i - m) = i
      BY <1>1, <2>2
    <3> QED BY <1>3, <1>4, <2>2, <3>1
  <2> QED BY <2>1, <2>2
<1>6. u = t
  BY <1>4, <1>5, SeqEqual
<1>7. Resumed(s, t, r, T)
  BY <1>2, <1>3, <1>6 DEF u, Resumed
<1> QED BY <1>7 DEF r

Preceded(s, t, x) ==
    /\ Len(t) = Len(s) + 1 /\ t[1] = x
    /\ \A k \in 1..Len(s) : t[k + 1] = s[k]

LEMMA FlattenFirst ==
    ASSUME NEW T, NEW s \in Seq(Seq(T)), NEW t \in Seq(Seq(T)), NEW x \in Seq(T),
           Preceded(s, t, x)
    PROVE  FlattenSeq(t) = x \o FlattenSeq(s)
<1> DEFINE n == Len(s)
           a == One(x)
           u == a \o s
<1>1. a \in Seq(Seq(T)) /\ FlattenSeq(a) = x /\ Len(a) = 1 /\ a[1] = x
  BY FlattenOne DEF One
<1> HIDE DEF a
<1>2. n \in Nat /\ Len(t) = n + 1 /\ t[1] = x /\ \A k \in 1..n : t[k + 1] = s[k]
  BY DEF Preceded
<1>3. /\ u \in Seq(Seq(T)) /\ Len(u) = n + 1
      /\ \A k \in 1..(1 + n) : u[k] = IF k <= 1 THEN a[k] ELSE s[k - 1]
  <2>1. a \in Seq(Seq(T))
    BY <1>1
  <2>2. /\ u \in Seq(Seq(T)) /\ Len(u) = Len(a) + Len(s)
        /\ \A k \in 1..(Len(a) + Len(s)) : u[k] = IF k <= Len(a) THEN a[k] ELSE s[k - Len(a)]
    BY <2>1, ConcatProperties
  <2>3. 1 + n = n + 1
    BY <1>2
  <2> HIDE DEF u
  <2> QED BY <1>1, <2>2, <2>3
<1>4. FlattenSeq(u) = FlattenSeq(a) \o FlattenSeq(s)
  BY <1>1, FlattenConcat
<1> HIDE DEF u, n
<1>5. ASSUME NEW k \in 1..(n + 1) PROVE t[k] = u[k]
  <2>1. CASE k = 1
    BY <1>1, <1>2, <1>3, <2>1
  <2>2. CASE k # 1
    <3>1. k - 1 \in 1..n /\ (k - 1) + 1 = k /\ ~(k <= 1) /\ k \in 1..(1 + n)
      BY <1>2, <2>2
    <3> QED BY <1>2, <1>3, <3>1
  <2> QED BY <2>1, <2>2
<1>6. t = u
  BY <1>2, <1>3, <1>5, SeqEqual
<1> QED BY <1>1, <1>4, <1>6

\* What a client that has seen what p forwarded looks like.
Begun(d, p) ==
    /\ d \in Clients
    /\ IF p.started THEN During(d, "text", 1, p.emitted, FALSE)
       ELSE /\ d.stage = "before" /\ d.open = "none" /\ d.blocks = 0
            /\ d.got = <<>> /\ ~d.tooled /\ p.emitted = <<>>

\* The whole message has arrived.
Arrived(d, got, tools) ==
    d \in Clients /\ d.stage = "stopped" /\ d.got = got /\ (d.tooled => tools)

Ends(c, frames, got, tools, omitted) ==
    /\ frames \in Seq(Frames)
    /\ \E d : Reaches(c, frames, d, omitted) /\ Arrived(d, got, tools)

EndFrame(stop) == Frame("message_delta", stop, 0, <<>>)
StopFrame == Frame("message_stop", "none", 0, <<>>)
StartFrame == Frame("message_start", "none", 0, <<>>)

LEMMA EndFrameType ==
    ASSUME NEW stop \in Reasons
    PROVE  EndFrame(stop) \in Frames /\ StopFrame \in Frames /\ StartFrame \in Frames
<1>1. <<>> \in Seq(Pieces)
  BY EmptySeq
<1> QED BY <1>1 DEF EndFrame, StopFrame, StartFrame, Frame, Frames

LEMMA EndLeads ==
    ASSUME NEW c, NEW frames, NEW n, NEW got, NEW tools \in BOOLEAN, NEW omitted \in BOOLEAN,
           NEW stop \in Reasons, tools => stop = "tool_use",
           Leads(c, frames, "none", n, got, tools, omitted)
    PROVE  Ends(c, frames \o EndFrames(stop), got, tools, omitted)
<1> DEFINE f == EndFrame(stop)
           g == StopFrame
<1>1. PICK d : Reaches(c, frames, d, omitted) /\ During(d, "none", n, got, tools)
  BY DEF Leads
<1>2. /\ f \in Frames /\ g \in Frames /\ frames \in Seq(Frames)
      /\ f.type = "message_delta" /\ f.kind = stop /\ g.type = "message_stop"
  BY EndFrameType DEF EndFrame, StopFrame, Frame, Leads
<1>3. EndFrames(stop) = <<f, g>>
  BY DEF EndFrames, EndFrame, StopFrame
<1> HIDE DEF f, g
<1>4. frames \o <<f, g>> = Append(Append(frames, f), g)
  BY <1>2
<1>5. Allowed(d, f)
  BY <1>1, <1>2 DEF Allowed, During
<1> DEFINE e == After(d, f, omitted)
           h == After(e, g, omitted)
<1>6. /\ e \in Clients /\ Append(frames, f) \in Seq(Frames)
      /\ Reaches(c, Append(frames, f), e, omitted)
  BY <1>1, <1>2, <1>5, ReachPush DEF During
<1>7. e = [d EXCEPT !.stage = "ending", !.stop = f.kind]
  BY <1>2 DEF After
<1>8. /\ e.stage = "ending" /\ e.got = d.got /\ (e.tooled => d.tooled)
  <2> HIDE DEF e
  <2> QED BY <1>1, <1>7 DEF During, Clients
<1>9. h = [e EXCEPT !.stage = "stopped"]
  BY <1>2 DEF After
<1> HIDE DEF e
<1>10. Allowed(e, g)
  BY <1>2, <1>8 DEF Allowed
<1>11. /\ h \in Clients /\ Append(Append(frames, f), g) \in Seq(Frames)
       /\ Reaches(c, Append(Append(frames, f), g), h, omitted)
  <2> DEFINE more == Append(frames, f)
  <2>1. e \in Clients /\ more \in Seq(Frames) /\ Reaches(c, more, e, omitted) /\ g \in Frames
    BY <1>2, <1>6
  <2> HIDE DEF more
  <2>2. h \in Clients /\ Append(more, g) \in Seq(Frames) /\ Reaches(c, Append(more, g), h, omitted)
    BY <1>10, <2>1, ReachPush
  <2> QED BY <2>2 DEF more
<1>12. h.stage = "stopped" /\ h.got = e.got /\ (h.tooled => e.tooled)
  <2> HIDE DEF h
  <2> QED BY <1>6, <1>9 DEF Clients
<1> HIDE DEF h
<1>13. Arrived(h, got, tools)
  BY <1>1, <1>8, <1>11, <1>12 DEF Arrived, During
<1> QED BY <1>3, <1>4, <1>11, <1>13 DEF Ends


\* The last frames of a message that has been converted.
LEMMA FinishLeads ==
    ASSUME NEW c, NEW p, NEW kinds, NEW content, NEW stop \in Reasons, NEW omitted \in BOOLEAN,
           Begun(c, p), p.emitted \in Seq(Pieces),
           kinds \subseteq BlockKinds, content \in Seq(Blocks(kinds)),
           "tool" \in kinds => stop = "tool_use",
           p.started => Continues(p, content)
    PROVE  Ends(c, FinishFrames(p, [ok |-> TRUE, content |-> content, stop |-> stop], omitted),
                FlattenSeq(PiecesFrom(content, 1)), "tool" \in kinds, omitted)
<1> DEFINE message == [ok |-> TRUE, content |-> content, stop |-> stop]
           frames  == FinishFrames(p, message, omitted)
           tools == "tool" \in kinds
           all == FlattenSeq(PiecesFrom(content, 1))
<1> SUFFICES Ends(c, frames, all, tools, omitted)
  OBVIOUS
<1>1. tools \in BOOLEAN /\ (tools => stop = "tool_use")
  OBVIOUS
<1> HIDE DEF tools
<1>2. message.content = content /\ message.stop = stop
  OBVIOUS
<1> HIDE DEF message
<1>3. Len(content) \in Nat
  BY LenProperties
<1>4. CASE ~p.started
  <2> DEFINE s == StartFrame
             a == <<s>>
             b == BlocksFrom(content, 1, omitted)
  <2>1. frames = a \o b \o EndFrames(stop)
    BY <1>2, <1>4 DEF FinishFrames, StartFrame
  <2>2. s \in Frames /\ s.type = "message_start"
    BY EndFrameType DEF StartFrame, Frame
  <2> HIDE DEF s
  <2>3. /\ c \in Clients /\ c.stage = "before" /\ c.open = "none" /\ c.blocks = 0
        /\ c.got = <<>> /\ ~c.tooled
    BY <1>4 DEF Begun
  <2> DEFINE d == After(c, s, omitted)
  <2>4. Allowed(c, s)
    BY <2>2, <2>3 DEF Allowed
  <2>5. /\ d \in Clients /\ Append(<<>>, s) \in Seq(Frames) /\ Reaches(c, Append(<<>>, s), d, omitted)
    <3>1. <<>> \in Seq(Frames) /\ Reaches(c, <<>>, c, omitted)
      BY <2>3, EmptySeq, ReachNil
    <3> QED BY <2>2, <2>3, <2>4, <3>1, ReachPush
  <2>6. Append(<<>>, s) = a
    BY <2>2
  <2>7. d = [c EXCEPT !.stage = "message"]
    BY <2>2 DEF After
  <2> HIDE DEF d
  <2>8. During(d, "none", 0, <<>>, tools)
    BY <2>3, <2>5, <2>7 DEF During, Clients
  <2>9. Leads(c, a, "none", 0, <<>>, tools, omitted)
    BY <2>5, <2>6, <2>8 DEF Leads
  <2> HIDE DEF a, b
  <2>10. Leads(c, a \o b, "none", Len(content), <<>> \o all, tools, omitted)
    <3>1. a \in Seq(Frames)
      BY <2>9 DEF Leads
    <3>2. <<>> \in Seq(Pieces) /\ 1 \in {1, 2} /\ 1 <= Len(content) + 1 /\ 1 - 1 = 0
      BY <1>3, EmptySeq
    <3>3. Leads(c, a, "none", 1 - 1, <<>>, tools, omitted)
      BY <2>9, <3>2
    <3>4. "tool" \in kinds => tools
      BY DEF tools
    <3> QED BY <1>1, <3>1, <3>2, <3>3, <3>4, BlocksLead DEF b
  <2>11. <<>> \o all = all
    <3>1. PiecesFrom(content, 1) \in Seq(Seq(Pieces))
      BY <1>3, PiecesFromType
    <3>2. all \in Seq(Pieces)
      BY <3>1, FlattenType
    <3> QED BY <3>2, ConcatEmptySeq
  <2> DEFINE x == a \o b
  <2>12. Leads(c, x, "none", Len(content), all, tools, omitted)
    BY <2>10, <2>11
  <2> HIDE DEF x, all
  <2>13. Ends(c, x \o EndFrames(stop), all, tools, omitted)
    BY <1>1, <2>12, EndLeads
  <2>14. x \o EndFrames(stop) = frames
    BY <2>1 DEF x
  <2> QED BY <2>13, <2>14 DEF all
<1>5. CASE p.started
  <2> DEFINE text == content[1].pieces
             seen == Len(p.emitted)
             block == Block("text", text)
             more == Block("text", SubSeq(text, seen + 1, Len(text)))
             rest == Rest(p, content)
             z == BlockStop(block, 0)
             later == FlattenSeq(PiecesFrom(content, 2))
  <2>1. content # <<>> /\ content[1].kind = "text" /\ IsPrefix(p.emitted, text)
    BY <1>5 DEF Continues
  <2>2. 1 \in 1..Len(content) /\ 2 <= Len(content) + 1
    BY <1>3, <2>1, EmptySeq
  <2>3. text \in Seq(Pieces)
    <3>1. content[1] \in Blocks(kinds)
      BY <2>2
    <3> QED BY <3>1 DEF Blocks
  <2>4. Leads(c, <<>>, "text", 1, p.emitted, tools, omitted)
    <3>1. During(c, "text", 1, p.emitted, tools) /\ c \in Clients
      BY <1>5 DEF Begun, During
    <3>2. <<>> \in Seq(Frames) /\ Reaches(c, <<>>, c, omitted)
      BY <3>1, EmptySeq, ReachNil
    <3> QED BY <3>1, <3>2 DEF Leads
  <2>5. frames = rest \o <<z>> \o BlocksFrom(content, 2, omitted) \o EndFrames(stop)
    BY <1>2, <1>5 DEF FinishFrames, BlockStop, Block
  <2>6. block \in Blocks(BlockKinds) /\ block.kind = "text" /\ block.pieces = text
    BY <2>3 DEF Blocks, Block, BlockKinds
  <2>7. SubSeq(text, seen + 1, Len(text)) \in Seq(Pieces)
        /\ p.emitted \o SubSeq(text, seen + 1, Len(text)) = text
        /\ (seen = Len(text) => p.emitted = text)
    <3> HIDE DEF text
    <3>1. Resumed(p.emitted, text, SubSeq(text, Len(p.emitted) + 1, Len(text)), Pieces)
      BY <2>1, <2>3, PrefixRest
    <3> QED BY <3>1 DEF Resumed
  <2>8. more \in Blocks(BlockKinds) /\ more.kind = "text"
        /\ more.pieces = SubSeq(text, seen + 1, Len(text))
    BY <2>7 DEF Blocks, Block, BlockKinds
  <2>9. rest = IF seen = Len(text) THEN <<>> ELSE <<BlockDelta(more, 0)>>
    BY DEF Rest, BlockDelta, Block
  <2> HIDE DEF more, block, z, rest
  <2>10. Leads(c, rest, "text", 1, text, tools, omitted)
    <3>1. CASE seen = Len(text)
      BY <2>4, <2>7, <2>9, <3>1
    <3>2. CASE seen # Len(text)
      <4>1. Leads(c, <<>>, more.kind, 0 + 1, p.emitted, tools, omitted)
        BY <2>4, <2>8
      <4>2. Leads(c, Append(<<>>, BlockDelta(more, 0)), more.kind, 0 + 1,
                  p.emitted \o more.pieces, tools, omitted)
        BY <1>1, <2>8, <4>1, DeltaLeads
      <4>3. p.emitted \o more.pieces = text
        BY <2>7, <2>8
      <4>4. Append(<<>>, BlockDelta(more, 0)) = rest
        BY <2>9, <3>2
      <4>5. Leads(c, rest, more.kind, 0 + 1, text, tools, omitted)
        BY <4>2, <4>3, <4>4
      <4> QED BY <2>8, <4>5
    <3> QED BY <3>1, <3>2
  <2> HIDE DEF text, later
  <2>11. Leads(c, Append(rest, z), "none", 1, text, tools, omitted)
    <3>1. Leads(c, rest, "text", 0 + 1, text, tools, omitted)
      BY <2>10
    <3>2. Leads(c, Append(rest, z), "none", 0 + 1, text, tools, omitted)
      BY <1>1, <2>6, <3>1, StopLeads DEF z
    <3> QED BY <3>2
  <2>12. rest \o <<z>> = Append(rest, z) /\ Append(rest, z) \in Seq(Frames)
    <3>1. rest \in Seq(Frames) /\ z \in Frames
      BY <2>6, <2>10, BlockFrame DEF Leads, z
    <3> QED BY <3>1, OneBehind
  <2> DEFINE a == Append(rest, z)
             b == BlocksFrom(content, 2, omitted)
  <2>13. a \in Seq(Frames) /\ Leads(c, a, "none", 2 - 1, text, tools, omitted)
    BY <2>11, <2>12
  <2> HIDE DEF a, b
  <2>14. Leads(c, a \o b, "none", Len(content), text \o later, tools, omitted)
    <3>1. "tool" \in kinds => tools
      BY DEF tools
    <3>2. 2 \in {1, 2} /\ text \in Seq(Pieces) /\ 2 <= Len(content) + 1
      BY <2>2, <2>3
    <3> QED BY <1>1, <2>13, <3>1, <3>2, BlocksLead DEF b, later
  <2>15. all = text \o later
    <3> DEFINE s == PiecesFrom(content, 2)
               t == PiecesFrom(content, 1)
    <3>1. s \in Seq(Seq(Pieces)) /\ Len(s) = Len(content) - 2 + 1
      BY <2>2, PiecesFromType
    <3>2. t \in Seq(Seq(Pieces)) /\ Len(t) = Len(content) - 1 + 1
      BY <1>3, PiecesFromType
    <3>3. Preceded(s, t, text)
      <4>1. t[1] = text
        BY <1>3, <2>2 DEF PiecesFrom, text
      <4>2. ASSUME NEW k \in 1..(Len(content) - 2 + 1) PROVE t[k + 1] = s[k]
        <5>1. k + 1 \in 1..(Len(content) - 1 + 1) /\ 1 + (k + 1) - 1 = 2 + k - 1
          BY <1>3
        <5>2. t[k + 1] = content[1 + (k + 1) - 1].pieces
          BY <5>1 DEF PiecesFrom
        <5>3. s[k] = content[2 + k - 1].pieces
          BY DEF PiecesFrom
        <5> QED BY <5>1, <5>2, <5>3
      <4> HIDE DEF s, t
      <4>3. \A k \in 1..Len(s) : t[k + 1] = s[k]
        BY <3>1, <4>2
      <4>4. Len(t) = Len(s) + 1
        BY <1>3, <3>1, <3>2
      <4> QED BY <4>1, <4>3, <4>4 DEF Preceded
    <3> HIDE DEF s, t
    <3>4. FlattenSeq(t) = text \o FlattenSeq(s)
      BY <2>3, <3>1, <3>2, <3>3, FlattenFirst
    <3> QED BY <3>4 DEF s, t, later
  <2> DEFINE x == a \o b
  <2>16. Leads(c, x, "none", Len(content), all, tools, omitted)
    BY <2>14, <2>15
  <2>17. frames = x \o EndFrames(stop)
    BY <2>5, <2>12 DEF a, b
  <2> HIDE DEF x, all
  <2>18. Ends(c, x \o EndFrames(stop), all, tools, omitted)
    BY <1>1, <2>16, EndLeads
  <2> QED BY <2>17, <2>18 DEF all
<1> QED BY <1>4, <1>5

-----------------------------------------------------------------------------
(* Coalesced text blocks.                                                   *)

PiecesOf == [block \in Blocks(BlockKinds) |-> block.pieces]

Text(content) == FlattenSeq(Mapped(content, PiecesOf))

LEMMA PiecesOfType == \A block \in Blocks(BlockKinds) : PiecesOf[block] \in Seq(Pieces)
  BY DEF PiecesOf, Blocks

LEMMA SeqWiden ==
    ASSUME NEW A, NEW B, A \subseteq B
    PROVE  Seq(A) \subseteq Seq(B)
<1> SUFFICES ASSUME NEW s \in Seq(A) PROVE s \in Seq(B)
  OBVIOUS
<1>1. Len(s) \in Nat /\ s \in [1..Len(s) -> B]
  OBVIOUS
<1> QED BY <1>1, FunctionIsSeq

LEMMA BlocksWiden ==
    ASSUME NEW kinds, kinds \subseteq BlockKinds
    PROVE  /\ Blocks(kinds) \subseteq Blocks(BlockKinds)
           /\ Seq(Blocks(kinds)) \subseteq Seq(Blocks(BlockKinds))
<1>1. Blocks(kinds) \subseteq Blocks(BlockKinds)
  BY DEF Blocks
<1> QED BY <1>1, SeqWiden

LEMMA TextType ==
    ASSUME NEW content \in Seq(Blocks(BlockKinds))
    PROVE  /\ Mapped(content, PiecesOf) \in Seq(Seq(Pieces)) /\ Text(content) \in Seq(Pieces)
           /\ Len(Mapped(content, PiecesOf)) = Len(content)
<1>1. Mapped(content, PiecesOf) \in Seq(Seq(Pieces)) /\ Len(Mapped(content, PiecesOf)) = Len(content)
  <2>1. Len(content) \in Nat /\ \A n \in 1..Len(content) : content[n] \in Blocks(BlockKinds)
    OBVIOUS
  <2>2. Mapped(content, PiecesOf) \in [1..Len(content) -> Seq(Pieces)]
    BY <2>1, PiecesOfType DEF Mapped
  <2> QED BY <2>1, <2>2, FunctionIsSeq
<1> QED BY <1>1, FlattenType DEF Text

\* The text in the frames is that of the blocks.
LEMMA TextIs ==
    ASSUME NEW content \in Seq(Blocks(BlockKinds))
    PROVE  FlattenSeq(PiecesFrom(content, 1)) = Text(content)
<1>1. Len(content) \in Nat /\ \A k \in 1..Len(content) : content[k] \in Blocks(BlockKinds)
  OBVIOUS
<1>2. Len(content) - 1 + 1 = Len(content) /\ \A k \in 1..Len(content) : 1 + k - 1 = k
  BY <1>1
<1>3. PiecesFrom(content, 1) = [k \in 1..Len(content) |-> content[k].pieces]
  BY <1>2 DEF PiecesFrom
<1>4. \A k \in 1..Len(content) : PiecesOf[content[k]] = content[k].pieces
  BY <1>1 DEF PiecesOf
<1>5. PiecesFrom(content, 1) = Mapped(content, PiecesOf)
  BY <1>3, <1>4 DEF Mapped
<1> QED BY <1>5 DEF Text

\* What the content so far becomes with one more block.
Extends(before, after, block) ==
    /\ after # <<>>
    /\ Text(after) = Text(before) \o block.pieces
    /\ before = <<>> => after[1] = block
    /\ before # <<>> => /\ after[1].kind = before[1].kind
                        /\ IsPrefix(before[1].pieces, after[1].pieces)

LEMMA PrefixSelf ==
    ASSUME NEW T, NEW s \in Seq(T)
    PROVE  IsPrefix(s, s)
  BY PrefixIs

LEMMA PrefixConcat ==
    ASSUME NEW T, NEW s \in Seq(T), NEW x \in Seq(T)
    PROVE  IsPrefix(s, s \o x)
<1>1. s \o x \in Seq(T) /\ Len(s) \in Nat /\ Len(x) \in Nat /\ Len(s \o x) = Len(s) + Len(x)
  BY ConcatProperties
<1>2. \A i \in 1..Len(s) : s[i] = (s \o x)[i]
  <2>1. \A i \in 1..(Len(s) + Len(x)) : (s \o x)[i] = IF i <= Len(s) THEN s[i] ELSE x[i - Len(s)]
    BY ConcatProperties
  <2>2. \A i \in 1..Len(s) : i \in 1..(Len(s) + Len(x)) /\ i <= Len(s)
    BY <1>1
  <2> QED BY <2>1, <2>2
<1>3. Len(s) <= Len(s \o x)
  BY <1>1
<1> QED BY <1>1, <1>2, <1>3, PrefixIs

LEMMA PrefixChain ==
    ASSUME NEW T, NEW r \in Seq(T), NEW s \in Seq(T), NEW t \in Seq(T),
           IsPrefix(r, s), IsPrefix(s, t)
    PROVE  IsPrefix(r, t)
<1>1. Len(r) \in Nat /\ Len(s) \in Nat /\ Len(t) \in Nat
  OBVIOUS
<1>2. Len(r) <= Len(s) /\ \A i \in 1..Len(r) : r[i] = s[i]
  BY PrefixIs
<1>3. Len(s) <= Len(t) /\ \A i \in 1..Len(s) : s[i] = t[i]
  BY PrefixIs
<1>4. Len(r) <= Len(t) /\ \A i \in 1..Len(r) : r[i] = t[i]
  BY <1>1, <1>2, <1>3
<1> QED BY <1>4, PrefixIs

LEMMA AppendedBlock ==
    ASSUME NEW kinds, kinds \subseteq BlockKinds, NEW before \in Seq(Blocks(kinds)),
           NEW block \in Blocks(kinds)
    PROVE  Append(before, block) \in Seq(Blocks(kinds)) /\ Extends(before, Append(before, block), block)
<1> DEFINE after == Append(before, block)
<1>0. before \in Seq(Blocks(BlockKinds)) /\ block \in Blocks(BlockKinds)
  BY BlocksWiden
<1>1. /\ before \in Seq(Blocks(BlockKinds)) /\ block \in Blocks(BlockKinds)
      /\ block.pieces \in Seq(Pieces) /\ Len(before) \in Nat
      /\ \A k \in 1..Len(before) : before[k] \in Blocks(BlockKinds) /\ before[k].pieces \in Seq(Pieces)
  <2>1. \A b \in Blocks(BlockKinds) : b.pieces \in Seq(Pieces)
    BY DEF Blocks
  <2> QED BY <1>0, <2>1
<1>2. /\ after \in Seq(Blocks(kinds)) /\ after \in Seq(Blocks(BlockKinds)) /\ after # <<>>
      /\ before = <<>> => after[1] = block
      /\ before # <<>> => after[1] = before[1] /\ 1 \in 1..Len(before)
  <2>1. after \in Seq(Blocks(kinds)) /\ after # <<>>
    OBVIOUS
  <2>2. after \in Seq(Blocks(BlockKinds))
    BY <1>0
  <2>3. before # <<>> => after[1] = before[1] /\ 1 \in 1..Len(before)
    OBVIOUS
  <2> QED BY <2>1, <2>2, <2>3
<1>3. Mapped(after, PiecesOf) = Append(Mapped(before, PiecesOf), block.pieces)
  <2>1. after = before \o <<block>> /\ <<block>> \in Seq(Blocks(BlockKinds))
    BY <1>1
  <2> HIDE DEF after
  <2>2. Mapped(after, PiecesOf) = Mapped(before, PiecesOf) \o Mapped(<<block>>, PiecesOf)
    BY <1>1, <2>1, MappedConcat
  <2>3. Mapped(<<block>>, PiecesOf) = <<block.pieces>>
    BY <1>1 DEF Mapped, PiecesOf
  <2>4. Mapped(before, PiecesOf) \in Seq(Seq(Pieces))
    BY <1>1, TextType
  <2>5. \A s \in Seq(Seq(Pieces)), x \in Seq(Pieces) : s \o <<x>> = Append(s, x)
    BY OneBehind
  <2> QED BY <1>1, <2>2, <2>3, <2>4, <2>5
<1>4. Text(after) = Text(before) \o block.pieces
  <2>1. Mapped(before, PiecesOf) \in Seq(Seq(Pieces))
    BY <1>1, TextType
  <2> HIDE DEF after
  <2> QED BY <1>1, <1>3, <2>1, FlattenAppend DEF Text
<1> HIDE DEF after
<1>5. before # <<>> => IsPrefix(before[1].pieces, after[1].pieces)
  BY <1>1, <1>2, PrefixSelf
<1>6. after \in Seq(Blocks(kinds)) /\ Extends(before, after, block)
  BY <1>2, <1>4, <1>5 DEF Extends
<1> QED BY <1>6 DEF after

LEMMA LengthenedBlock ==
    ASSUME NEW kinds, kinds \subseteq BlockKinds, NEW before \in Seq(Blocks(kinds)),
           NEW block \in Blocks(kinds), before # <<>>
    PROVE  LET after == [before EXCEPT ![Len(before)].pieces = @ \o block.pieces]
           IN  after \in Seq(Blocks(kinds)) /\ Extends(before, after, block)
<1> DEFINE L == Len(before)
           last == before[L]
           longer == [last EXCEPT !.pieces = @ \o block.pieces]
           after == [before EXCEPT ![L] = longer]
<1>0. before \in Seq(Blocks(BlockKinds)) /\ block \in Blocks(BlockKinds)
  BY BlocksWiden
<1>1. /\ before \in Seq(Blocks(BlockKinds)) /\ block \in Blocks(BlockKinds)
      /\ block.pieces \in Seq(Pieces) /\ L \in Nat /\ L # 0
      /\ \A k \in 1..L : before[k] \in Blocks(kinds) /\ before[k].pieces \in Seq(Pieces)
                         /\ before[k] \in Blocks(BlockKinds)
  <2>1. \A b \in Blocks(BlockKinds) : b.pieces \in Seq(Pieces)
    BY DEF Blocks
  <2>2. L \in Nat /\ L # 0 /\ \A k \in 1..L : before[k] \in Blocks(kinds)
    OBVIOUS
  <2>3. \A k \in 1..L : before[k] \in Blocks(BlockKinds)
    BY <1>0
  <2> HIDE DEF L
  <2> QED BY <1>0, <2>1, <2>2, <2>3
<1>2. L \in 1..L /\ last \in Blocks(kinds) /\ last.pieces \in Seq(Pieces)
  BY <1>1
<1>3. last.pieces \o block.pieces \in Seq(Pieces)
  <2> HIDE DEF last
  <2> QED BY <1>1, <1>2, ConcatProperties
<1>4. /\ longer \in Blocks(kinds) /\ longer.kind = last.kind
      /\ longer.pieces = last.pieces \o block.pieces
  <2> HIDE DEF last
  <2> QED BY <1>2, <1>3 DEF Blocks
<1>5. IsPrefix(last.pieces, longer.pieces)
  <2> HIDE DEF last, longer
  <2> QED BY <1>1, <1>2, <1>4, PrefixConcat
<1> HIDE DEF longer
<1>6. /\ after \in Seq(Blocks(kinds)) /\ Len(after) = L /\ after # <<>>
      /\ after[L] = longer /\ \A k \in 1..(L - 1) : after[k] = before[k]
  BY <1>1, <1>2, <1>4
<1>7. after \in Seq(Blocks(BlockKinds))
  <2> HIDE DEF after
  <2> QED BY <1>6, BlocksWiden
<1> HIDE DEF after
<1>8. Lengthened(Mapped(before, PiecesOf), Mapped(after, PiecesOf), block.pieces)
  <2>1. /\ Len(Mapped(before, PiecesOf)) = L /\ Len(Mapped(after, PiecesOf)) = L
        /\ Mapped(before, PiecesOf) # <<>>
    <3>1. Len(Mapped(before, PiecesOf)) = L /\ Len(Mapped(after, PiecesOf)) = L
      BY <1>1, <1>6, <1>7, TextType
    <3> QED BY <1>1, <3>1
  <2>2. \A k \in 1..L : Mapped(before, PiecesOf)[k] = before[k].pieces
    BY <1>1 DEF Mapped, PiecesOf
  <2>3. \A k \in 1..L : Mapped(after, PiecesOf)[k] = after[k].pieces
    <3>1. \A k \in 1..L : after[k] \in Blocks(BlockKinds)
      BY <1>6, <1>7
    <3> QED BY <1>6, <3>1 DEF Mapped, PiecesOf
  <2>4. \A k \in 1..(L - 1) : k \in 1..L
    BY <1>1
  <2>5. Mapped(after, PiecesOf)[L] = Mapped(before, PiecesOf)[L] \o block.pieces
    BY <1>2, <1>4, <1>6, <2>2, <2>3
  <2>6. \A k \in 1..(L - 1) : Mapped(after, PiecesOf)[k] = Mapped(before, PiecesOf)[k]
    BY <1>6, <2>2, <2>3, <2>4
  <2> QED BY <2>1, <2>5, <2>6 DEF Lengthened
<1>9. Text(after) = Text(before) \o block.pieces
  <2>1. Mapped(before, PiecesOf) \in Seq(Seq(Pieces)) /\ Mapped(after, PiecesOf) \in Seq(Seq(Pieces))
    BY <1>1, <1>7, TextType
  <2>2. block.pieces \in Seq(Pieces)
    BY <1>1
  <2> QED BY <1>8, <2>1, <2>2, FlattenLonger DEF Text
<1>10. after[1].kind = before[1].kind /\ IsPrefix(before[1].pieces, after[1].pieces)
  <2>1. CASE L = 1
    BY <2>1, <1>4, <1>5, <1>6
  <2>2. CASE L # 1
    <3>1. 1 \in 1..(L - 1) /\ 1 \in 1..L
      <4>1. L \in Nat /\ L # 0 /\ L # 1
        BY <1>1, <2>2
      <4> HIDE DEF L
      <4> QED BY <4>1
    <3>2. after[1] = before[1] /\ before[1].pieces \in Seq(Pieces)
      BY <3>1, <1>1, <1>6
    <3> QED BY <3>2, PrefixSelf
  <2> QED BY <2>1, <2>2
<1>11. after \in Seq(Blocks(kinds)) /\ Extends(before, after, block)
  BY <1>6, <1>9, <1>10 DEF Extends
<1>12. after = [before EXCEPT ![Len(before)].pieces = @ \o block.pieces]
  BY <1>1, <1>2 DEF after, longer
<1> QED BY <1>11, <1>12

LEMMA JoinedSound ==
    ASSUME NEW kinds, kinds \subseteq BlockKinds, NEW before \in Seq(Blocks(kinds)),
           NEW block \in Blocks(kinds)
    PROVE  /\ Joined(before, block) \in Seq(Blocks(kinds))
           /\ Extends(before, Joined(before, block), block)
  BY AppendedBlock, LengthenedBlock DEF Joined

LEMMA CoalescedDefined ==
    ASSUME NEW blocks, Len(blocks) \in Nat
    PROVE  \E done :
               /\ done = [n \in 0..Len(blocks) |->
                             IF n = 0 THEN <<>> ELSE Joined(done[n - 1], blocks[n])]
               /\ Coalesced(blocks) = done[Len(blocks)]
<1> DEFINE L == Len(blocks)
           G(done, m) == [n \in 0..m |-> IF n = 0 THEN <<>> ELSE Joined(done[n - 1], blocks[n])]
           T == {m \in Nat : m <= L => \E done : done = G(done, m)}
<1>1. 0 \in T
  <2> DEFINE r == [n \in 0..0 |-> <<>>]
  <2>1. r = G(r, 0)
    OBVIOUS
  <2> QED BY <2>1
<1>2. ASSUME NEW m \in Nat, m \in T PROVE m + 1 \in T
  <2> SUFFICES ASSUME m + 1 <= L PROVE \E done : done = G(done, m + 1)
    OBVIOUS
  <2>1. PICK r : r = G(r, m)
    BY <1>2
  <2> DEFINE q == [n \in 0..(m + 1) |-> IF n = m + 1 THEN Joined(r[m], blocks[m + 1]) ELSE r[n]]
  <2>2. ASSUME NEW n \in 0..(m + 1)
        PROVE  q[n] = IF n = 0 THEN <<>> ELSE Joined(q[n - 1], blocks[n])
    <3>1. CASE n = m + 1
      <4>1. q[n - 1] = r[m] /\ n # 0
        BY <3>1
      <4> QED BY <3>1, <4>1
    <3>2. CASE n \in 0..m
      <4>1. q[n] = r[n] /\ (n # 0 => q[n - 1] = r[n - 1])
        BY <3>2
      <4>2. r[n] = IF n = 0 THEN <<>> ELSE Joined(r[n - 1], blocks[n])
        BY <2>1, <3>2
      <4> QED BY <4>1, <4>2
    <3> QED BY <3>1, <3>2
  <2>3. q = G(q, m + 1)
    BY <2>2
  <2> QED BY <2>3
<1> HIDE DEF T
<1>3. L \in T
  BY <1>1, <1>2, SetInduction
<1>4. \E done : done = G(done, L)
  BY <1>3 DEF T
<1> QED BY <1>4 DEF Coalesced

\* One text block for neighbouring ones: no text is lost, and what comes first
\* stays first.
Gathers(blocks, content) ==
    /\ Text(content) = Text(blocks)
    /\ blocks # <<>> => /\ content # <<>> /\ content[1].kind = blocks[1].kind
                        /\ IsPrefix(blocks[1].pieces, content[1].pieces)

LEMMA CoalescedSound ==
    ASSUME NEW kinds, kinds \subseteq BlockKinds, NEW blocks \in Seq(Blocks(kinds))
    PROVE  Coalesced(blocks) \in Seq(Blocks(kinds)) /\ Gathers(blocks, Coalesced(blocks))
<1> DEFINE L == Len(blocks)
           texts == Mapped(blocks, PiecesOf)
<1>1. L \in Nat /\ \A n \in 1..L : blocks[n] \in Blocks(kinds)
  OBVIOUS
<1>2. PICK done : /\ done = [n \in 0..L |-> IF n = 0 THEN <<>> ELSE Joined(done[n - 1], blocks[n])]
                  /\ Coalesced(blocks) = done[L]
  BY <1>1, CoalescedDefined
<1>3. \A n \in 1..L : blocks[n].pieces \in Seq(Pieces) /\ texts[n] = blocks[n].pieces
  BY <1>1 DEF Mapped, PiecesOf, Blocks
<1>4. texts \in Seq(Seq(Pieces)) /\ Len(texts) = L /\ Text(blocks) = FlattenSeq(texts)
  <2>1. blocks \in Seq(Blocks(BlockKinds))
    BY BlocksWiden
  <2> QED BY <2>1, TextType DEF Text
<1>5. \A n \in 1..L : IsPrefix(blocks[n].pieces, blocks[n].pieces)
  BY <1>3, PrefixSelf
<1>6. L = 0 => blocks = <<>>
  OBVIOUS
<1> HIDE DEF L, texts
<1> DEFINE Fine(n) ==
              /\ done[n] \in Seq(Blocks(kinds))
              /\ n # 0 => /\ done[n] # <<>> /\ done[n][1].kind = blocks[1].kind
                          /\ done[n][1].pieces \in Seq(Pieces)
                          /\ IsPrefix(blocks[1].pieces, done[n][1].pieces)
              /\ n # 0 => Text(done[n]) = Text(done[n - 1]) \o texts[n]
           T == {n \in Nat : Fine(n)}
<1>7. 0 \in T
  <2>1. done[0] = <<>>
    BY <1>1, <1>2
  <2>2. <<>> \in Seq(Blocks(kinds))
    BY EmptySeq
  <2> QED BY <2>1, <2>2
<1>8. ASSUME NEW n \in 0..(L - 1), n \in T PROVE n + 1 \in T
  <2> DEFINE before == done[n]
             block == blocks[n + 1]
             after == done[n + 1]
  <2>1. n \in Nat /\ n + 1 \in 1..L /\ n + 1 \in 0..L /\ (n + 1) - 1 = n /\ n + 1 # 0 /\ n + 1 \in Nat
    BY <1>1
  <2>2. after = Joined(before, block)
    BY <1>2, <2>1
  <2>3. before \in Seq(Blocks(kinds)) /\ block \in Blocks(kinds)
    BY <1>1, <1>8, <2>1
  <2> HIDE DEF before, block, after
  <2>4. after \in Seq(Blocks(kinds)) /\ Extends(before, after, block)
    BY <2>2, <2>3, JoinedSound
  <2>5. Text(after) = Text(before) \o texts[n + 1]
    BY <1>3, <2>1, <2>4 DEF Extends, block
  <2>6. after # <<>> /\ after[1].pieces \in Seq(Pieces)
    <3>1. after # <<>>
      BY <2>4 DEF Extends
    <3>2. after[1] \in Blocks(kinds)
      BY <2>4, <3>1
    <3> QED BY <3>1, <3>2 DEF Blocks
  <2>7. after[1].kind = blocks[1].kind /\ IsPrefix(blocks[1].pieces, after[1].pieces)
    <3>1. CASE n = 0
      <4>1. before = <<>>
        BY <1>1, <1>2, <3>1 DEF before
      <4>2. after[1] = blocks[1]
        BY <2>4, <3>1, <4>1 DEF Extends, block
      <4>3. 1 \in 1..L
        BY <2>1, <3>1
      <4> QED BY <1>5, <4>2, <4>3
    <3>2. CASE n # 0
      <4>1. /\ before # <<>> /\ before[1].kind = blocks[1].kind
            /\ before[1].pieces \in Seq(Pieces)
            /\ IsPrefix(blocks[1].pieces, before[1].pieces)
        BY <1>8, <3>2 DEF before
      <4>2. after[1].kind = before[1].kind /\ IsPrefix(before[1].pieces, after[1].pieces)
        BY <2>4, <4>1 DEF Extends
      <4>3. blocks[1].pieces \in Seq(Pieces)
        <5>1. 1 \in 1..L
          BY <1>1, <2>1
        <5> QED BY <1>3, <5>1
      <4> QED BY <2>6, <4>1, <4>2, <4>3, PrefixChain
    <3> QED BY <3>1, <3>2
  <2> QED BY <2>1, <2>4, <2>5, <2>6, <2>7 DEF after, before
<1>9. ASSUME NEW n \in 0..L PROVE Fine(n)
  <2> HIDE DEF T
  <2>1. 0..L \subseteq T
    BY <1>1, <1>7, <1>8, BoundedInduction
  <2> QED BY <2>1 DEF T
<1> HIDE DEF Fine
<1> DEFINE h == [n \in 0..L |-> Text(done[n])]
<1>10. Flattened(texts, h)
  <2>1. h[0] = <<>>
    <3>1. done[0] = <<>> /\ 0 \in 0..L
      BY <1>1, <1>2
    <3>2. Mapped(<<>>, PiecesOf) = <<>>
      BY DEF Mapped
    <3> QED BY <3>1, <3>2, FlattenEmpty DEF Text
  <2>2. ASSUME NEW n \in 1..L PROVE h[n] = h[n - 1] \o texts[n]
    <3>1. n \in 0..L /\ n - 1 \in 0..L /\ n # 0
      BY <1>1
    <3>2. Text(done[n]) = Text(done[n - 1]) \o texts[n]
      BY <1>9, <3>1 DEF Fine
    <3> QED BY <3>1, <3>2
  <2> HIDE DEF h
  <2> QED BY <1>4, <2>1, <2>2 DEF Flattened
<1>11. FlattenSeq(texts) = h[L]
  <2> HIDE DEF h
  <2> QED BY <1>4, <1>10, FlattenIs
<1>12. L \in 0..L
  BY <1>1
<1>13. Text(done[L]) = Text(blocks)
  BY <1>4, <1>11, <1>12
<1>14. Fine(L)
  BY <1>9, <1>12
<1> QED BY <1>2, <1>6, <1>13, <1>14 DEF Gathers, Fine

-----------------------------------------------------------------------------
(* The response that has been rebuilt.                                      *)

ItemTypes == {"message", "reasoning", "function_call"}

PartTypes == [kind : Kinds \cup {"none"}, text : Seq(Pieces)]

RealItems == [type : ItemTypes, parts : [Parts -> PartTypes],
              named : BOOLEAN, sealed : BOOLEAN, cut : BOOLEAN]

Items == RealItems \cup {NoItem}

Terminals == [status : Statuses \cup {"none"}, output : Seq(RealItems)]

Aggregators == [items : [Slots -> Items], final : SUBSET (Slots \X Parts),
                terminal : Terminals, failed : BOOLEAN]

LEMMA NoItemType ==
    /\ NoItem \notin RealItems /\ NoItem.type = "none"
    /\ \A c \in Parts : NoItem.parts[c] = NoPart
    /\ NoPart \in PartTypes /\ NoItem.parts \in [Parts -> PartTypes]
  BY EmptySeq DEF NoItem, NoPart, RealItems, ItemTypes, PartTypes

LEMMA ItemParts ==
    ASSUME NEW x \in Items
    PROVE  /\ x.type \in ItemTypes \cup {"none"} /\ x.parts \in [Parts -> PartTypes]
           /\ \A c \in Parts : x.parts[c].kind \in Kinds \cup {"none"} /\ x.parts[c].text \in Seq(Pieces)
           /\ x # NoItem => x \in RealItems
           /\ x.type = "none" <=> x = NoItem
           /\ x.named \in BOOLEAN /\ x.sealed \in BOOLEAN /\ x.cut \in BOOLEAN
<1>1. CASE x \in RealItems
  BY <1>1, NoItemType DEF RealItems, PartTypes, ItemTypes
<1>2. CASE x = NoItem
  BY <1>2, NoItemType DEF PartTypes, NoItem
<1> QED BY <1>1, <1>2 DEF Items

Holding(f, S, T) == \A i \in S : f[i] \in T

LEMMA FilledType ==
    ASSUME NEW T, NEW f, NEW S, NEW last \in Nat, Holding(f, S, T)
    PROVE  Filled(f, S, last) \in Seq(T)
<1> DEFINE seqs == [k \in 1..(last + 1) |-> IF k - 1 \in S THEN <<f[k - 1]>> ELSE <<>>]
<1>1. ASSUME NEW k \in 1..(last + 1) PROVE seqs[k] \in Seq(T)
  <2>1. CASE k - 1 \in S
    <3>1. f[k - 1] \in T
      BY <2>1 DEF Holding
    <3> QED BY <2>1, <3>1
  <2>2. CASE ~(k - 1 \in S)
    BY <2>2, EmptySeq
  <2> QED BY <2>1, <2>2
<1>2. seqs \in Seq(Seq(T))
  <2>1. seqs \in [1..(last + 1) -> Seq(T)]
    BY <1>1
  <2> HIDE DEF seqs
  <2> QED BY <2>1, FunctionIsSeq
<1> HIDE DEF seqs
<1>3. FlattenSeq(seqs) \in Seq(T)
  BY <1>2, FlattenType
<1> QED BY <1>3 DEF Filled, seqs

LEMMA MergeType ==
    ASSUME NEW x \in RealItems, NEW y \in RealItems
    PROVE  Merge(x, y) \in RealItems /\ Merge(x, y).type = x.type
<1> DEFINE parts == [c \in Parts |-> IF y.parts[c].kind = "none" THEN x.parts[c]
                       ELSE [kind |-> y.parts[c].kind,
                             text |-> Longer(x.parts[c].text, y.parts[c].text)]]
<1>1. x \in Items /\ y \in Items
  BY DEF Items
<1>2. ASSUME NEW c \in Parts PROVE parts[c] \in PartTypes
  <2>1. /\ x.parts[c] \in PartTypes /\ y.parts[c].kind \in Kinds \cup {"none"}
        /\ x.parts[c].text \in Seq(Pieces) /\ y.parts[c].text \in Seq(Pieces)
    BY <1>1, ItemParts
  <2>2. Longer(x.parts[c].text, y.parts[c].text) \in Seq(Pieces)
    BY <2>1 DEF Longer
  <2> QED BY <2>1, <2>2 DEF PartTypes
<1>3. parts \in [Parts -> PartTypes]
  BY <1>2
<1> HIDE DEF parts
<1>4. [x EXCEPT !.parts = parts, !.named = @ \/ y.named, !.sealed = @ \/ y.sealed,
               !.cut = @ \/ y.cut] \in RealItems
  BY <1>3 DEF RealItems
<1>5. Merge(x, y) = [x EXCEPT !.parts = parts, !.named = @ \/ y.named, !.sealed = @ \/ y.sealed,
                             !.cut = @ \/ y.cut]
  BY DEF Merge, parts
<1> QED BY <1>4, <1>5 DEF RealItems

LEMMA OutputType ==
    ASSUME NEW a \in Aggregators
    PROVE  Output(a) \in Seq(RealItems)
<1> DEFINE output == a.terminal.output
           listed == [k \in 1..Len(output) |->
                         IF k - 1 \in Streamed(a) THEN Merge(a.items[k - 1], output[k])
                         ELSE output[k]]
           S == {i \in Streamed(a) : ~Listed(output, i)}
           rest == Filled(a.items, S, LastSlot)
<1>1. output \in Seq(RealItems) /\ a.items \in [Slots -> Items]
  BY DEF Aggregators, Terminals
<1>2. \A i \in Streamed(a) : a.items[i] \in RealItems
  BY <1>1, ItemParts DEF Streamed
<1>3. \A k \in 1..Len(output) : output[k] \in RealItems
  BY <1>1
<1>4. Len(output) \in Nat
  BY <1>1
<1> HIDE DEF output
<1>5. listed \in Seq(RealItems)
  <2>1. \A k \in 1..Len(output) : listed[k] \in RealItems
    BY <1>2, <1>3, MergeType
  <2>2. listed \in [1..Len(output) -> RealItems]
    BY <2>1
  <2> HIDE DEF listed
  <2> QED BY <1>4, <2>2, FunctionIsSeq
<1>6. rest \in Seq(RealItems)
  <2>1. Holding(a.items, S, RealItems)
    BY <1>2 DEF Holding
  <2> HIDE DEF S
  <2> QED BY <2>1, FilledType, SlotAssumption
<1>7. Output(a) = listed \o rest
  BY DEF Output, output
<1> HIDE DEF listed, rest
<1> QED BY <1>5, <1>6, <1>7, ConcatProperties

\* The kinds of blocks that the response can become.
ToolKinds(output, status) ==
    IF \E k \in 1..Len(output) :
           output[k].type = "function_call" /\ Executable(output, status, k)
    THEN BlockKinds ELSE {"text", "thinking"}

LEMMA ToolsAllowed ==
    ASSUME NEW output, NEW status \in Statuses \cup {"none"}, NEW hidden,
           status # "none", Convertible(output, status, hidden),
           "tool" \in ToolKinds(output, status)
    PROVE  /\ StopReason(output, status) = "tool_use"
           /\ status = "completed" /\ ~HasRefusal(output)
           /\ \A k \in 1..Len(output) :
                  output[k].type = "function_call" =>
                      Whole(output[k].parts[0].text) /\ ~output[k].cut
<1>1. PICK k \in 1..Len(output) : output[k].type = "function_call" /\ Executable(output, status, k)
  BY DEF ToolKinds
<1>2. ~Refused(output, status) /\ \A j \in 1..Len(output) : ~CutCall(output[j], status)
  BY <1>1 DEF Executable
<1>3. ~Incomplete(status)
  BY <1>1, <1>2 DEF CutCall
<1>4. status = "completed" /\ ~HasRefusal(output)
  BY <1>2, <1>3 DEF Incomplete, Convertible, Statuses, Refused
<1>5. StopReason(output, status) = "tool_use"
  BY <1>1, <1>2, <1>3 DEF StopReason
<1>6. \A j \in 1..Len(output) : output[j].type = "function_call" =>
          Whole(output[j].parts[0].text) /\ ~output[j].cut
  BY <1>2 DEF Convertible, CutCall
<1> QED BY <1>4, <1>5, <1>6

LEMMA ReasonType ==
    ASSUME NEW output, NEW status
    PROVE  StopReason(output, status) \in Reasons
  BY DEF StopReason, Reasons

LEMMA BlocksOfType ==
    ASSUME NEW output \in Seq(RealItems), NEW status, NEW hidden, NEW k \in 1..Len(output)
    PROVE  BlocksOf(output, status, k, hidden) \in Seq(Blocks(ToolKinds(output, status)))
<1> DEFINE item == output[k]
           text == item.parts[0].text
           kinds == ToolKinds(output, status)
           parts == Filled(item.parts, Given(item), LastPart)
<1>1. item \in RealItems
  OBVIOUS
<1>2. item \in Items /\ 0 \in Parts
  BY <1>1, SlotAssumption DEF Items, Parts
<1>3. text \in Seq(Pieces)
  BY <1>2, ItemParts
<1>4. {"text", "thinking"} \subseteq kinds /\ kinds \subseteq BlockKinds
  BY DEF ToolKinds, BlockKinds
<1>5. item.type = "function_call" /\ Executable(output, status, k) => "tool" \in kinds
  BY DEF ToolKinds, BlockKinds
<1>6. parts \in Seq(PartTypes)
  <2>1. Holding(item.parts, Given(item), PartTypes)
    BY <1>2, ItemParts DEF Holding, Given
  <2> HIDE DEF item
  <2> QED BY <2>1, FilledType, SlotAssumption
<1>7. \A kind \in kinds, pieces \in Seq(Pieces) : Block(kind, pieces) \in Blocks(kinds)
  BY DEF Block, Blocks
<1> HIDE DEF kinds, parts, text
<1>8. CASE item.type = "reasoning"
  <2>1. <<>> \in Seq(Blocks(kinds)) /\ <<Block("thinking", text)>> \in Seq(Blocks(kinds))
    BY <1>3, <1>4, <1>7
  <2> QED BY <1>8, <2>1 DEF BlocksOf, text, kinds
<1>9. CASE item.type = "function_call"
  <2>1. <<Block(IF Executable(output, status, k) THEN "tool" ELSE "text", text)>> \in Seq(Blocks(kinds))
    BY <1>3, <1>4, <1>5, <1>7, <1>9
  <2> QED BY <1>9, <2>1 DEF BlocksOf, text, kinds
<1>10. CASE item.type = "message"
  <2> DEFINE blocks == [n \in 1..Len(parts) |-> Block("text", parts[n].text)]
  <2>1. Len(parts) \in Nat /\ \A n \in 1..Len(parts) : parts[n] \in PartTypes
    BY <1>6
  <2>2. \A n \in 1..Len(parts) : parts[n].text \in Seq(Pieces)
    BY <2>1 DEF PartTypes
  <2>3. blocks \in [1..Len(parts) -> Blocks(kinds)]
    BY <1>4, <1>7, <2>2
  <2> HIDE DEF blocks
  <2>4. blocks \in Seq(Blocks(kinds))
    BY <2>1, <2>3, FunctionIsSeq
  <2>5. BlocksOf(output, status, k, hidden) = blocks
    BY <1>10 DEF BlocksOf, blocks, parts
  <2> QED BY <2>4, <2>5 DEF kinds
<1> QED BY <1>1, <1>8, <1>9, <1>10 DEF RealItems, ItemTypes

\* The blocks of the items, in a row.
Grouped(output, status, hidden) ==
    [k \in 1..Len(output) |-> BlocksOf(output, status, k, hidden)]

LEMMA ContentSound ==
    ASSUME NEW output \in Seq(RealItems), NEW status, NEW hidden
    PROVE  /\ Grouped(output, status, hidden) \in Seq(Seq(Blocks(ToolKinds(output, status))))
           /\ Content(output, status, hidden) \in Seq(Blocks(ToolKinds(output, status)))
           /\ Gathers(FlattenSeq(Grouped(output, status, hidden)), Content(output, status, hidden))
<1> DEFINE kinds == ToolKinds(output, status)
           seqs == Grouped(output, status, hidden)
<1>1. kinds \subseteq BlockKinds
  BY DEF ToolKinds, BlockKinds
<1>2. \A k \in 1..Len(output) : BlocksOf(output, status, k, hidden) \in Seq(Blocks(kinds))
  BY BlocksOfType
<1> HIDE DEF kinds
<1>3. seqs \in [1..Len(output) -> Seq(Blocks(kinds))] /\ Len(output) \in Nat
  BY <1>2 DEF Grouped
<1> HIDE DEF seqs
<1>4. seqs \in Seq(Seq(Blocks(kinds)))
  BY <1>3, FunctionIsSeq
<1>5. FlattenSeq(seqs) \in Seq(Blocks(kinds))
  BY <1>4, FlattenType
<1>6. /\ Coalesced(FlattenSeq(seqs)) \in Seq(Blocks(kinds))
      /\ Gathers(FlattenSeq(seqs), Coalesced(FlattenSeq(seqs)))
  BY <1>1, <1>5, CoalescedSound
<1>7. Content(output, status, hidden) = Coalesced(FlattenSeq(seqs))
  BY DEF Content, seqs, Grouped
<1> QED BY <1>4, <1>6, <1>7 DEF kinds, seqs

-----------------------------------------------------------------------------
(* The text of the response.                                                *)

\* A part has one kind, and only messages have several parts.
Tidy(item) ==
    \A c \in Parts :
        /\ item.parts[c].kind = "none" => item.parts[c].text = <<>>
        /\ item.parts[c].kind # "none" => item.type = TypeOf(item.parts[c].kind)
        /\ item.type # "message" /\ c # 0 => item.parts[c].kind = "none"

Truths == {x \in Items : Tidy(x)}

Alike(x, y) == x.type = y.type /\ x.parts = y.parts

LEMMA TidyAlike ==
    ASSUME NEW x, NEW y, Alike(x, y), Tidy(y)
    PROVE  Tidy(x)
  BY DEF Alike, Tidy

LEMMA TextOfType ==
    ASSUME NEW x \in Items
    PROVE  /\ [k \in 1..(LastPart + 1) |-> x.parts[k - 1].text] \in Seq(Seq(Pieces))
           /\ TextOf(x) \in Seq(Pieces)
<1> DEFINE texts == [k \in 1..(LastPart + 1) |-> x.parts[k - 1].text]
<1>1. \A k \in 1..(LastPart + 1) : k - 1 \in Parts
  BY SlotAssumption DEF Parts
<1>2. texts \in [1..(LastPart + 1) -> Seq(Pieces)] /\ LastPart + 1 \in Nat
  BY <1>1, ItemParts, SlotAssumption
<1> HIDE DEF texts
<1>3. texts \in Seq(Seq(Pieces))
  BY <1>2, FunctionIsSeq
<1> QED BY <1>3, FlattenType DEF TextOf, texts

LEMMA OnePartText ==
    ASSUME NEW x \in Items, \A c \in Parts : c # 0 => x.parts[c].text = <<>>
    PROVE  TextOf(x) = x.parts[0].text
<1> DEFINE t == [k \in 1..(LastPart + 1) |-> x.parts[k - 1].text]
           text == x.parts[0].text
           s == One(text)
<1>1. 0 \in Parts /\ LastPart + 1 \in Nat /\ 1 <= LastPart + 1 /\ 1 \in 1..(LastPart + 1)
  BY SlotAssumption DEF Parts
<1>2. text \in Seq(Pieces)
  BY <1>1, ItemParts
<1>3. t \in Seq(Seq(Pieces)) /\ TextOf(x) = FlattenSeq(t)
  BY TextOfType DEF TextOf
<1>4. Len(t) = LastPart + 1 /\ t[1] = text
  BY <1>1
<1>5. \A k \in 2..(LastPart + 1) : t[k] = <<>>
  <2>1. \A k \in 2..(LastPart + 1) : k \in 1..(LastPart + 1) /\ k - 1 \in Parts /\ k - 1 # 0
    BY SlotAssumption DEF Parts
  <2> QED BY <2>1
<1> HIDE DEF text
<1>6. s \in Seq(Seq(Pieces)) /\ Len(s) = 1 /\ s[1] = text /\ FlattenSeq(s) = text
  BY <1>2, FlattenOne DEF One
<1> HIDE DEF s, t
<1>7. FlattenSeq(t) = FlattenSeq(s)
  <2>1. Len(s) <= Len(t)
    BY <1>1, <1>4, <1>6
  <2>2. \A k \in 1..Len(s) : t[k] = s[k]
    <3>1. \A k \in 1..1 : k = 1
      OBVIOUS
    <3> QED BY <1>4, <1>6, <3>1
  <2>3. \A k \in (Len(s) + 1)..Len(t) : t[k] = <<>>
    BY <1>4, <1>5, <1>6
  <2> QED BY <1>3, <1>6, <2>1, <2>2, <2>3, FlattenPadded
<1> QED BY <1>3, <1>6, <1>7 DEF text

TextsOf == [part \in PartTypes |-> part.text]

LEMMA MessageText ==
    ASSUME NEW x \in Items, Tidy(x)
    PROVE  LET parts == Filled(x.parts, Given(x), LastPart)
           IN  Text([n \in 1..Len(parts) |-> Block("text", parts[n].text)]) = TextOf(x)
<1> DEFINE seqs == [k \in 1..(LastPart + 1) |->
                       IF k - 1 \in Given(x) THEN <<x.parts[k - 1]>> ELSE <<>>]
           parts == FlattenSeq(seqs)
           blocks == [n \in 1..Len(parts) |-> Block("text", parts[n].text)]
<1>1. \A k \in 1..(LastPart + 1) : k - 1 \in Parts /\ LastPart + 1 \in Nat
  BY SlotAssumption DEF Parts
<1>2. \A k \in 1..(LastPart + 1) :
          /\ x.parts[k - 1] \in PartTypes /\ x.parts[k - 1].text \in Seq(Pieces)
          /\ k - 1 \notin Given(x) => x.parts[k - 1].text = <<>>
  BY <1>1, ItemParts DEF Tidy, Given
<1>3. /\ seqs \in Seq(Seq(PartTypes)) /\ Len(seqs) = LastPart + 1
  <2>1. \A k \in 1..(LastPart + 1) : <<x.parts[k - 1]>> \in Seq(PartTypes)
    BY <1>2
  <2>2. <<>> \in Seq(PartTypes)
    BY EmptySeq
  <2>3. seqs \in [1..(LastPart + 1) -> Seq(PartTypes)]
    BY <2>1, <2>2
  <2>4. LastPart + 1 \in Nat
    BY SlotAssumption
  <2> HIDE DEF seqs
  <2> QED BY <2>3, <2>4, FunctionIsSeq
<1>4. \A part \in PartTypes : TextsOf[part] = part.text /\ TextsOf[part] \in Seq(Pieces)
  BY DEF TextsOf, PartTypes
<1>5. ASSUME NEW k \in 1..(LastPart + 1)
      PROVE  FlattenSeq(Mapped(seqs[k], TextsOf)) = x.parts[k - 1].text
  <2> DEFINE part == x.parts[k - 1]
  <2>1. part \in PartTypes /\ part.text \in Seq(Pieces)
    BY <1>2
  <2>2. CASE k - 1 \in Given(x)
    <3>1. seqs[k] = <<part>>
      BY <2>2
    <3> HIDE DEF part
    <3>2. Mapped(<<part>>, TextsOf) = <<part.text>>
      BY <1>4, <2>1 DEF Mapped
    <3>3. FlattenSeq(<<part.text>>) = part.text
      BY <2>1, FlattenOne
    <3> QED BY <3>1, <3>2, <3>3 DEF part
  <2>3. CASE ~(k - 1 \in Given(x))
    <3>1. seqs[k] = <<>> /\ part.text = <<>>
      BY <1>2, <2>3
    <3>2. Mapped(<<>>, TextsOf) = <<>>
      BY DEF Mapped
    <3> QED BY <3>1, <3>2, FlattenEmpty
  <2> QED BY <2>2, <2>3
<1> HIDE DEF seqs
<1>6. FlattenSeq(Mapped(parts, TextsOf)) = TextOf(x)
  <2>1. Maps(TextsOf, PartTypes, Seq(Pieces))
    BY <1>4 DEF Maps
  <2>2. FlattenSeq(Mapped(FlattenSeq(seqs), TextsOf))
            = FlattenSeq([k \in 1..Len(seqs) |-> FlattenSeq(Mapped(seqs[k], TextsOf))])
    BY <1>3, <2>1, FlattenMapped
  <2>3. [k \in 1..Len(seqs) |-> FlattenSeq(Mapped(seqs[k], TextsOf))]
            = [k \in 1..(LastPart + 1) |-> x.parts[k - 1].text]
    BY <1>3, <1>5
  <2> QED BY <2>2, <2>3 DEF TextOf
<1>7. parts \in Seq(PartTypes) /\ Len(parts) \in Nat
  <2>1. parts \in Seq(PartTypes)
    BY <1>3, FlattenType
  <2> HIDE DEF parts
  <2> QED BY <2>1
<1> HIDE DEF parts
<1>8. \A n \in 1..Len(parts) : parts[n] \in PartTypes /\ parts[n].text \in Seq(Pieces)
  BY <1>4, <1>7
<1>9. Mapped(blocks, PiecesOf) = Mapped(parts, TextsOf)
  <2>1. Len(blocks) = Len(parts)
    BY <1>7
  <2>2. ASSUME NEW n \in 1..Len(parts) PROVE PiecesOf[blocks[n]] = TextsOf[parts[n]]
    <3>1. blocks[n] = Block("text", parts[n].text)
      OBVIOUS
    <3> HIDE DEF blocks
    <3>2. Block("text", parts[n].text) \in Blocks(BlockKinds)
      BY <1>8 DEF Block, Blocks, BlockKinds
    <3>3. PiecesOf[Block("text", parts[n].text)] = parts[n].text
      BY <3>2 DEF PiecesOf, Block
    <3> QED BY <1>4, <1>8, <3>1, <3>3
  <2> HIDE DEF blocks
  <2> QED BY <2>1, <2>2 DEF Mapped
<1>10. parts = Filled(x.parts, Given(x), LastPart)
  BY DEF Filled, parts, seqs
<1>11. Text(blocks) = TextOf(x)
  <2> HIDE DEF blocks
  <2> QED BY <1>6, <1>9 DEF Text
<1> QED BY <1>10, <1>11

\* The blocks of an item carry its text, whatever is left out of them.
LEMMA BlocksOfText ==
    ASSUME NEW output \in Seq(RealItems), NEW status, NEW hidden, NEW k \in 1..Len(output),
           Convertible(output, status, hidden), Tidy(output[k])
    PROVE  Text(BlocksOf(output, status, k, hidden)) = TextOf(output[k])
<1> DEFINE item == output[k]
           text == item.parts[0].text
<1>1. item \in RealItems /\ 0 \in Parts
  BY SlotAssumption DEF Parts
<1>2. item \in Items /\ item.type \in ItemTypes
  BY <1>1 DEF Items, RealItems
<1>3. text \in Seq(Pieces)
  BY <1>1, <1>2, ItemParts
<1>4. item.type # "message" => TextOf(item) = text
  <2>1. item.type # "message" => \A c \in Parts : c # 0 => item.parts[c].text = <<>>
    BY DEF Tidy
  <2> QED BY <1>2, <2>1, OnePartText
<1>5. ASSUME NEW kind \in BlockKinds PROVE Text(<<Block(kind, text)>>) = text
  <2>1. Block(kind, text) \in Blocks(BlockKinds) /\ Block(kind, text).pieces = text
    BY <1>3 DEF Block, Blocks
  <2>2. Mapped(<<Block(kind, text)>>, PiecesOf) = <<text>>
    BY <2>1 DEF Mapped, PiecesOf
  <2> HIDE DEF text
  <2> QED BY <1>3, <2>2, FlattenOne DEF Text
<1>6. Text(<<>>) = <<>>
  <2>1. Mapped(<<>>, PiecesOf) = <<>>
    BY DEF Mapped
  <2> QED BY <2>1, FlattenEmpty DEF Text
<1>7. CASE item.type = "reasoning"
  <2>1. CASE hidden /\ ~item.sealed
    <3>1. text = <<>>
      BY <1>7, <2>1 DEF Convertible
    <3>2. BlocksOf(output, status, k, hidden) = <<>>
      BY <1>7, <2>1 DEF BlocksOf
    <3> QED BY <1>4, <1>6, <1>7, <3>1, <3>2
  <2>2. CASE ~(hidden /\ ~item.sealed)
    <3>1. BlocksOf(output, status, k, hidden) = <<Block("thinking", text)>>
      BY <1>7, <2>2 DEF BlocksOf
    <3> QED BY <1>4, <1>5, <1>7, <3>1 DEF BlockKinds
  <2> QED BY <2>1, <2>2
<1>8. CASE item.type = "function_call"
  <2> DEFINE kind == IF Executable(output, status, k) THEN "tool" ELSE "text"
  <2>1. BlocksOf(output, status, k, hidden) = <<Block(kind, text)>>
    BY <1>8 DEF BlocksOf
  <2>2. kind \in BlockKinds
    BY DEF BlockKinds
  <2> HIDE DEF kind
  <2> QED BY <1>4, <1>5, <1>8, <2>1, <2>2
<1>9. CASE item.type = "message"
  <2> DEFINE parts == Filled(item.parts, Given(item), LastPart)
  <2>1. BlocksOf(output, status, k, hidden) = [n \in 1..Len(parts) |-> Block("text", parts[n].text)]
    BY <1>9 DEF BlocksOf
  <2> QED BY <1>2, <2>1, MessageText
<1> QED BY <1>2, <1>7, <1>8, <1>9 DEF ItemTypes

-----------------------------------------------------------------------------
(* What an honest upstream told adds up to what it produced.                *)

TruthType == truth \in [Slots -> Truths]

\* The upstream has produced the items 0..n-1.
Used(n) ==
    /\ n \in Nat /\ n <= LastSlot + 1
    /\ \A i \in Slots : truth[i].type # "none" <=> i < n

\* The terminal event listed them, or none of them.
Told(output, n) ==
    output # <<>> =>
        /\ Len(output) = n
        /\ \A k \in 1..n : output[k] = truth[k - 1] \/ output[k] = Bare(truth[k - 1])

\* Every item has the type and the parts that the upstream gave it.
Rebuilt(output, n) ==
    /\ output \in Seq(RealItems) /\ Len(output) = n
    /\ \A k \in 1..n : Alike(output[k], truth[k - 1])

LEMMA SlotOf ==
    ASSUME NEW n, Used(n), NEW k \in 1..n
    PROVE  k - 1 \in Slots /\ k - 1 < n
  BY SlotAssumption DEF Used, Slots

\* Nothing missing at the front: they follow each other.
LEMMA FilledFront ==
    ASSUME NEW T, NEW f, NEW n \in Nat, NEW last \in Nat, n <= last + 1,
           Holding(f, 0..(n - 1), T)
    PROVE  Filled(f, 0..(n - 1), last) = [k \in 1..n |-> f[k - 1]]
<1> DEFINE t == [k \in 1..(last + 1) |-> IF k - 1 \in 0..(n - 1) THEN <<f[k - 1]>> ELSE <<>>]
           s == [k \in 1..n |-> <<f[k - 1]>>]
           h == [m \in 0..n |-> [k \in 1..m |-> f[k - 1]]]
<1>1. \A k \in 1..n : f[k - 1] \in T
  <2>1. \A k \in 1..n : k - 1 \in 0..(n - 1)
    OBVIOUS
  <2> QED BY <2>1 DEF Holding
<1>2. s \in Seq(Seq(T)) /\ Len(s) = n
  <2>1. \A k \in 1..n : <<f[k - 1]>> \in Seq(T)
    BY <1>1
  <2>2. s \in [1..n -> Seq(T)]
    BY <2>1
  <2> HIDE DEF s
  <2> QED BY <2>2, FunctionIsSeq
<1>3. t \in Seq(Seq(T)) /\ Len(t) = last + 1
  <2>1. ASSUME NEW k \in 1..(last + 1) PROVE t[k] \in Seq(T)
    <3>1. CASE k - 1 \in 0..(n - 1)
      <4>1. f[k - 1] \in T
        BY <3>1 DEF Holding
      <4> QED BY <3>1, <4>1
    <3>2. CASE ~(k - 1 \in 0..(n - 1))
      BY <3>2, EmptySeq
    <3> QED BY <3>1, <3>2
  <2>2. t \in [1..(last + 1) -> Seq(T)] /\ last + 1 \in Nat
    BY <2>1
  <2> HIDE DEF t
  <2> QED BY <2>2, FunctionIsSeq
<1>4. FlattenSeq(t) = FlattenSeq(s)
  <2>1. \A k \in 1..n : t[k] = s[k]
    <3>1. \A k \in 1..n : k \in 1..(last + 1) /\ k - 1 \in 0..(n - 1)
      OBVIOUS
    <3> QED BY <3>1
  <2>2. \A k \in (n + 1)..(last + 1) : t[k] = <<>>
    <3>1. \A k \in (n + 1)..(last + 1) : k \in 1..(last + 1) /\ ~(k - 1 \in 0..(n - 1))
      OBVIOUS
    <3> QED BY <3>1
  <2> HIDE DEF s, t
  <2> QED BY <1>2, <1>3, <2>1, <2>2, FlattenPadded
<1>5. Flattened(s, h)
  <2>1. h[0] = <<>>
    <3>1. 0 \in 0..n /\ 1..0 = {}
      OBVIOUS
    <3>2. h[0] = [k \in 1..0 |-> f[k - 1]]
      BY <3>1
    <3> QED BY <3>1, <3>2
  <2>2. ASSUME NEW m \in 1..n PROVE h[m] = h[m - 1] \o s[m]
    <3> DEFINE u == [k \in 1..(m - 1) |-> f[k - 1]]
               v == [k \in 1..m |-> f[k - 1]]
    <3>1. m - 1 \in Nat /\ m \in Nat /\ m \in 0..n /\ m - 1 \in 0..n
      OBVIOUS
    <3>2. h[m] = v /\ h[m - 1] = u /\ s[m] = <<f[m - 1]>> /\ f[m - 1] \in T
      BY <1>1, <3>1
    <3>3. \A k \in 1..m : f[k - 1] \in T
      <4>1. \A k \in 1..m : k \in 1..n
        OBVIOUS
      <4> QED BY <1>1, <4>1
    <3>4. \A k \in 1..(m - 1) : k \in 1..m
      OBVIOUS
    <3>5. v \in Seq(T) /\ Len(v) = m
      <4>1. v \in [1..m -> T]
        BY <3>3
      <4> HIDE DEF v
      <4> QED BY <3>1, <4>1, FunctionIsSeq
    <3>6. u \in Seq(T) /\ Len(u) = m - 1
      <4>1. u \in [1..(m - 1) -> T]
        BY <3>3, <3>4
      <4> HIDE DEF u
      <4> QED BY <3>1, <4>1, FunctionIsSeq
    <3> DEFINE w == Append(u, f[m - 1])
    <3>7. /\ w \in Seq(T) /\ Len(w) = m
          /\ w[m] = f[m - 1] /\ \A k \in 1..(m - 1) : w[k] = u[k]
      <4> HIDE DEF u
      <4> QED BY <3>1, <3>2, <3>6
    <3>8. ASSUME NEW k \in 1..m PROVE w[k] = v[k]
      <4>1. CASE k = m
        BY <3>7, <4>1
      <4>2. CASE k # m
        <5>1. k \in 1..(m - 1)
          BY <4>2
        <5>2. u[k] = f[k - 1] /\ v[k] = f[k - 1]
          BY <5>1
        <5> HIDE DEF u, v, w
        <5> QED BY <3>7, <5>1, <5>2
      <4> QED BY <4>1, <4>2
    <3>9. u \o <<f[m - 1]>> = w
      <4> HIDE DEF u
      <4> QED BY <3>2, <3>6, OneBehind
    <3> HIDE DEF u, v, w
    <3>10. w = v
      BY <3>5, <3>7, <3>8, SeqEqual
    <3> QED BY <3>2, <3>9, <3>10
  <2> HIDE DEF h, s
  <2> QED BY <1>2, <2>1, <2>2 DEF Flattened
<1>6. FlattenSeq(s) = h[n]
  <2> HIDE DEF h, s
  <2> QED BY <1>2, <1>5, FlattenIs
<1>7. Filled(f, 0..(n - 1), last) = FlattenSeq(t)
  BY DEF Filled
<1>8. h[n] = [k \in 1..n |-> f[k - 1]]
  OBVIOUS
<1> HIDE DEF h, s, t
<1> QED BY <1>4, <1>6, <1>7, <1>8

LEMMA MergeAlike ==
    ASSUME NEW x \in Items, NEW y \in Truths, NEW z, Alike(x, y), z = y \/ z = Bare(y)
    PROVE  Alike(Merge(x, z), y)
<1>1. x.parts \in [Parts -> PartTypes] /\ x.type = y.type /\ x.parts = y.parts
  BY ItemParts DEF Alike
<1>2. Merge(x, z).type = x.type
  BY <1>1, ItemParts DEF Merge, Items, RealItems, NoItem
<1>3. Merge(x, z).parts = [c \in Parts |-> IF z.parts[c].kind = "none" THEN x.parts[c]
                              ELSE [kind |-> z.parts[c].kind,
                                    text |-> Longer(x.parts[c].text, z.parts[c].text)]]
  BY DEF Merge, Items, RealItems, NoItem
<1>4. ASSUME NEW c \in Parts PROVE Merge(x, z).parts[c] = x.parts[c]
  <2>1. CASE z = y
    <3>1. x.parts[c] = [kind |-> x.parts[c].kind, text |-> x.parts[c].text]
      BY <1>1 DEF PartTypes
    <3>2. Longer(x.parts[c].text, z.parts[c].text) = x.parts[c].text
      BY <1>1, <2>1 DEF Longer
    <3> QED BY <1>1, <1>3, <2>1, <3>1, <3>2
  <2>2. CASE z = Bare(y)
    <3>1. z.parts[c].kind = "none"
      BY <2>2 DEF Bare, NoItem, NoPart
    <3> QED BY <1>3, <3>1
  <2> QED BY <2>1, <2>2
<1>5. Merge(x, z).parts = x.parts
  BY <1>1, <1>3, <1>4
<1> QED BY <1>1, <1>2, <1>5 DEF Alike

LEMMA HonestOutput ==
    ASSUME agg \in Aggregators, TruthType, \A i \in Slots : Alike(agg.items[i], truth[i]),
           NEW n, Used(n), Told(agg.terminal.output, n)
    PROVE  Rebuilt(Output(agg), n)
<1> DEFINE output == agg.terminal.output
           listed == [k \in 1..Len(output) |->
                         IF k - 1 \in Streamed(agg) THEN Merge(agg.items[k - 1], output[k])
                         ELSE output[k]]
           S == {i \in Streamed(agg) : ~Listed(output, i)}
           rest == Filled(agg.items, S, LastSlot)
           O == Output(agg)
<1>1. output \in Seq(RealItems) /\ agg.items \in [Slots -> Items] /\ O \in Seq(RealItems)
  BY OutputType DEF Aggregators, Terminals
<1>2. n \in Nat /\ n <= LastSlot + 1 /\ LastSlot \in Nat
  BY SlotAssumption DEF Used
<1>3. \A i \in Slots : i \in Streamed(agg) <=> i < n
  <2>1. \A i \in Slots : agg.items[i] # NoItem <=> agg.items[i].type # "none"
    BY <1>1, ItemParts
  <2> QED BY <2>1 DEF Streamed, Alike, Used
<1>4. O = listed \o rest
  BY DEF Output
<1>5. \A i \in Slots : agg.items[i] \in Items /\ truth[i] \in Truths /\ Alike(agg.items[i], truth[i])
  BY <1>1 DEF TruthType
<1>6. CASE output = <<>>
  <2>1. S = 0..(n - 1)
    <3>1. \A i \in Slots : i \in Nat /\ ~(i < 0)
      BY DEF Slots
    <3>2. S = Streamed(agg)
      BY <1>6, <3>1 DEF Listed, Streamed
    <3>3. Streamed(agg) \subseteq Slots /\ 0..(n - 1) \subseteq Slots
      BY <1>2 DEF Streamed, Slots
    <3>4. \A i \in Slots : i \in 0..(n - 1) <=> i < n
      BY <1>2 DEF Slots
    <3> QED BY <1>3, <3>2, <3>3, <3>4
  <2>2. \A i \in 0..(n - 1) : i \in Slots
    BY <1>2 DEF Slots
  <2>3. Holding(agg.items, 0..(n - 1), Items)
    BY <1>5, <2>2 DEF Holding
  <2>4. rest = [k \in 1..n |-> agg.items[k - 1]]
    <3> HIDE DEF S
    <3> QED BY <1>2, <2>1, <2>3, FilledFront
  <2>5. listed = <<>>
    <3>1. 1..Len(output) = {}
      BY <1>6
    <3> QED BY <3>1
  <2>6. rest \in Seq(Items) /\ Len(rest) = n
    <3>1. \A k \in 1..n : agg.items[k - 1] \in Items
      BY <1>5, SlotOf
    <3>2. [k \in 1..n |-> agg.items[k - 1]] \in [1..n -> Items]
      BY <3>1
    <3> HIDE DEF rest
    <3> QED BY <1>2, <2>4, <3>2, FunctionIsSeq
  <2>7. O = rest
    <3> HIDE DEF rest, listed, O
    <3> QED BY <1>4, <2>5, <2>6, ConcatEmptySeq
  <2> HIDE DEF rest, O, listed
  <2>8. \A k \in 1..n : O[k] = agg.items[k - 1]
    BY <2>4, <2>7
  <2>9. \A k \in 1..n : Alike(O[k], truth[k - 1])
    BY <1>5, <2>8, SlotOf
  <2> QED BY <1>1, <2>6, <2>7, <2>9 DEF Rebuilt, O
<1>7. CASE output # <<>>
  <2>1. Len(output) = n /\ \A k \in 1..n : output[k] = truth[k - 1] \/ output[k] = Bare(truth[k - 1])
    BY <1>7 DEF Told
  <2>2. S = {}
    BY <1>3, <2>1 DEF Listed, Streamed
  <2>3. rest = <<>>
    <3> DEFINE m == 0
    <3>1. m \in Nat /\ m <= LastSlot + 1 /\ 0..(m - 1) = {} /\ 1..m = {}
      BY <1>2
    <3> HIDE DEF m
    <3>2. Holding(agg.items, 0..(m - 1), Items)
      BY <3>1 DEF Holding
    <3>3. Filled(agg.items, 0..(m - 1), LastSlot) = [k \in 1..m |-> agg.items[k - 1]]
      BY <1>2, <3>1, <3>2, FilledFront
    <3>4. [k \in 1..m |-> agg.items[k - 1]] = <<>>
      BY <3>1
    <3> HIDE DEF S
    <3> QED BY <2>2, <3>1, <3>3, <3>4
  <2>4. \A k \in 1..n : k - 1 \in Slots /\ k - 1 \in Streamed(agg)
    BY <1>3, SlotOf
  <2> HIDE DEF output
  <2>5. listed = [k \in 1..n |-> Merge(agg.items[k - 1], output[k])]
    BY <2>1, <2>4
  <2>6. \A k \in 1..n : Alike(Merge(agg.items[k - 1], output[k]), truth[k - 1])
    BY <1>5, <2>1, <2>4, MergeAlike
  <2>7. listed \in Seq({Merge(agg.items[k - 1], output[k]) : k \in 1..n}) /\ Len(listed) = n
    <3> DEFINE X == {Merge(agg.items[k - 1], output[k]) : k \in 1..n}
    <3>1. listed \in [1..n -> X]
      BY <2>5
    <3> HIDE DEF X, listed
    <3>2. listed \in Seq(X) /\ Len(listed) = n
      BY <1>2, <3>1, FunctionIsSeq
    <3> QED BY <3>2 DEF X
  <2>8. \A k \in 1..n : Alike(listed[k], truth[k - 1])
    BY <2>5, <2>6
  <2>9. O = listed
    <3> HIDE DEF listed, rest, O
    <3> QED BY <1>4, <2>3, <2>7, ConcatEmptySeq
  <2> HIDE DEF listed, O
  <2> QED BY <1>1, <2>7, <2>8, <2>9 DEF Rebuilt, O
<1> QED BY <1>6, <1>7

LEMMA PiecesFlatten ==
    ASSUME NEW seqs \in Seq(Seq(Blocks(BlockKinds)))
    PROVE  Text(FlattenSeq(seqs)) = FlattenSeq([k \in 1..Len(seqs) |-> Text(seqs[k])])
<1> DEFINE X == Blocks(BlockKinds)
           g == PiecesOf
<1>1. Maps(g, X, Seq(Pieces))
  BY PiecesOfType DEF Maps
<1>2. seqs \in Seq(Seq(X))
  OBVIOUS
<1> HIDE DEF X, g
<1>3. FlattenSeq(Mapped(FlattenSeq(seqs), g))
          = FlattenSeq([k \in 1..Len(seqs) |-> FlattenSeq(Mapped(seqs[k], g))])
  BY <1>1, <1>2, FlattenMapped
<1> QED BY <1>3 DEF Text, g

LEMMA WholeIs ==
    ASSUME TruthType, NEW n, Used(n), NEW output, Rebuilt(output, n),
           NEW status, NEW hidden, Convertible(output, status, hidden)
    PROVE  Text(FlattenSeq(Grouped(output, status, hidden))) = WholeText
<1> DEFINE seqs == Grouped(output, status, hidden)
           s == [k \in 1..n |-> TextOf(truth[k - 1])]
           t == [k \in 1..(LastSlot + 1) |-> TextOf(truth[k - 1])]
<1>1. /\ n \in Nat /\ n <= LastSlot + 1 /\ LastSlot + 1 \in Nat
      /\ output \in Seq(RealItems) /\ Len(output) = n
  BY SlotAssumption DEF Used, Rebuilt
<1>2. \A k \in 1..(LastSlot + 1) : k - 1 \in Slots
  BY SlotAssumption DEF Slots
<1>3. \A k \in 1..(LastSlot + 1) : truth[k - 1] \in Items /\ Tidy(truth[k - 1])
  BY <1>2 DEF TruthType, Truths
<1>4. ASSUME NEW k \in 1..n PROVE Text(BlocksOf(output, status, k, hidden)) = TextOf(truth[k - 1])
  <2>1. k \in 1..(LastSlot + 1) /\ k \in 1..Len(output)
    BY <1>1
  <2>2. Alike(output[k], truth[k - 1])
    BY DEF Rebuilt
  <2>3. Tidy(output[k])
    BY <1>3, <2>1, <2>2, TidyAlike
  <2>4. Text(BlocksOf(output, status, k, hidden)) = TextOf(output[k])
    BY <1>1, <2>1, <2>3, BlocksOfText
  <2>5. TextOf(output[k]) = TextOf(truth[k - 1])
    BY <2>2 DEF TextOf, Alike
  <2> QED BY <2>4, <2>5
<1>5. seqs \in Seq(Seq(Blocks(BlockKinds))) /\ Len(seqs) = n
      /\ \A k \in 1..n : seqs[k] = BlocksOf(output, status, k, hidden)
  <2>1. ToolKinds(output, status) \subseteq BlockKinds
    BY DEF ToolKinds, BlockKinds
  <2>2. seqs \in Seq(Seq(Blocks(ToolKinds(output, status))))
    BY <1>1, ContentSound
  <2>3. Seq(Seq(Blocks(ToolKinds(output, status)))) \subseteq Seq(Seq(Blocks(BlockKinds)))
    BY <2>1, BlocksWiden, SeqWiden
  <2>4. Len(seqs) = n /\ \A k \in 1..n : seqs[k] = BlocksOf(output, status, k, hidden)
    BY <1>1 DEF Grouped
  <2> HIDE DEF seqs
  <2> QED BY <2>2, <2>3, <2>4
<1> HIDE DEF seqs
<1>6. Text(FlattenSeq(seqs)) = FlattenSeq(s)
  <2>1. Text(FlattenSeq(seqs)) = FlattenSeq([k \in 1..Len(seqs) |-> Text(seqs[k])])
    BY <1>5, PiecesFlatten
  <2>2. [k \in 1..Len(seqs) |-> Text(seqs[k])] = s
    BY <1>4, <1>5
  <2> HIDE DEF s
  <2> QED BY <2>1, <2>2
<1>7. s \in Seq(Seq(Pieces)) /\ Len(s) = n
  <2>1. \A k \in 1..n : k \in 1..(LastSlot + 1)
    BY <1>1
  <2>2. \A k \in 1..n : TextOf(truth[k - 1]) \in Seq(Pieces)
    BY <1>3, <2>1, TextOfType
  <2>3. s \in [1..n -> Seq(Pieces)]
    BY <2>2
  <2> HIDE DEF s
  <2> QED BY <1>1, <2>3, FunctionIsSeq
<1>8. t \in Seq(Seq(Pieces)) /\ Len(t) = LastSlot + 1
  <2>1. \A k \in 1..(LastSlot + 1) : TextOf(truth[k - 1]) \in Seq(Pieces)
    BY <1>3, TextOfType
  <2>2. t \in [1..(LastSlot + 1) -> Seq(Pieces)]
    BY <2>1
  <2> HIDE DEF t
  <2> QED BY <1>1, <2>2, FunctionIsSeq
<1>9. \A k \in 1..n : t[k] = s[k]
  BY <1>1
<1>10. ASSUME NEW k \in (n + 1)..(LastSlot + 1) PROVE t[k] = <<>>
  <2>1. k \in 1..(LastSlot + 1) /\ ~(k - 1 < n)
    BY <1>1
  <2>2. k - 1 \in Slots
    BY <1>2, <2>1
  <2>3. truth[k - 1].type = "none"
    BY <2>1, <2>2 DEF Used
  <2>4. truth[k - 1] = NoItem
    BY <1>3, <2>1, <2>3, ItemParts
  <2>5. \A c \in Parts : NoItem.parts[c].text = <<>>
    BY NoItemType DEF NoPart
  <2>6. 0 \in Parts /\ NoItem \in Items
    BY SlotAssumption DEF Parts, Items
  <2>7. TextOf(NoItem) = <<>>
    BY <2>5, <2>6, OnePartText
  <2> QED BY <2>1, <2>4, <2>7
<1>11. WholeText = FlattenSeq(t)
  BY DEF WholeText
<1> HIDE DEF s, t
<1>12. FlattenSeq(t) = FlattenSeq(s)
  BY <1>1, <1>7, <1>8, <1>9, <1>10, FlattenPadded
<1> QED BY <1>6, <1>11, <1>12 DEF seqs

\* What comes first in the first of them comes first.
LEMMA FlattenLeads ==
    ASSUME NEW T, NEW t \in Seq(Seq(T)), t # <<>>, t[1] # <<>>
    PROVE  FlattenSeq(t) # <<>> /\ FlattenSeq(t)[1] = t[1][1]
<1> DEFINE s == Tail(t)
           x == t[1]
           r == FlattenSeq(s)
           u == x \o r
<1>1. x \in Seq(T) /\ s \in Seq(Seq(T)) /\ Preceded(s, t, x)
  BY DEF Preceded
<1> HIDE DEF s
<1>2. FlattenSeq(t) = u
  <2> HIDE DEF x
  <2> QED BY <1>1, FlattenFirst
<1>3. r \in Seq(T)
  BY <1>1, FlattenType
<1> HIDE DEF r
<1>4. x # <<>>
  OBVIOUS
<1> HIDE DEF x
<1>5. Len(x) \in Nat /\ Len(x) # 0 /\ Len(r) \in Nat
  BY <1>1, <1>3, <1>4
<1>6. Len(u) = Len(x) + Len(r) /\ \A k \in 1..(Len(x) + Len(r)) : k <= Len(x) => u[k] = x[k]
  BY <1>1, <1>3, ConcatProperties
<1>7. Len(u) # 0 /\ 1 \in 1..(Len(x) + Len(r)) /\ 1 <= Len(x)
  BY <1>5, <1>6
<1>8. u[1] = x[1]
  BY <1>6, <1>7
<1>9. u # <<>>
  BY <1>7
<1> HIDE DEF u
<1> QED BY <1>2, <1>8, <1>9 DEF x

\* The first part of a first message becomes the first block.
LEMMA FirstIs ==
    ASSUME TruthType, NEW n, Used(n), NEW output, Rebuilt(output, n),
           NEW status, NEW hidden, truth[0].type = "message", truth[0].parts[0].kind # "none"
    PROVE  LET blocks == FlattenSeq(Grouped(output, status, hidden))
           IN  /\ blocks # <<>> /\ blocks[1].kind = "text"
               /\ blocks[1].pieces = truth[0].parts[0].text
<1> DEFINE seqs == Grouped(output, status, hidden)
           item == output[1]
           held == [k \in 1..(LastPart + 1) |->
                       IF k - 1 \in Given(item) THEN <<item.parts[k - 1]>> ELSE <<>>]
           parts == Filled(item.parts, Given(item), LastPart)
           first == BlocksOf(output, status, 1, hidden)
<1>1. /\ n \in Nat /\ output \in Seq(RealItems) /\ Len(output) = n /\ 0 \in Slots /\ 0 \in Parts
      /\ LastPart + 1 \in Nat /\ 1 \in 1..(LastPart + 1)
  BY SlotAssumption DEF Used, Rebuilt, Slots, Parts
<1>2. n # 0 /\ 1 \in 1..n
  <2>1. 0 < n
    BY <1>1 DEF Used
  <2> QED BY <1>1, <2>1
<1>3. Alike(item, truth[0])
  <2>1. 1 - 1 = 0
    OBVIOUS
  <2>2. Alike(output[1], truth[1 - 1])
    BY <1>2 DEF Rebuilt
  <2> QED BY <2>1, <2>2
<1>4. item \in RealItems /\ item \in Items
  BY <1>1, <1>2 DEF Items
<1>5. item.type = "message" /\ item.parts[0].kind # "none" /\ item.parts[0] = truth[0].parts[0]
  BY <1>3 DEF Alike
<1>6. parts = FlattenSeq(held)
  BY DEF Filled
<1>7. held \in Seq(Seq(PartTypes)) /\ Len(held) = LastPart + 1
  <2>1. \A k \in 1..(LastPart + 1) : k - 1 \in Given(item) => <<item.parts[k - 1]>> \in Seq(PartTypes)
    BY <1>4, ItemParts DEF Given
  <2>2. <<>> \in Seq(PartTypes)
    BY EmptySeq
  <2>3. held \in [1..(LastPart + 1) -> Seq(PartTypes)]
    BY <2>1, <2>2
  <2> HIDE DEF held
  <2> QED BY <1>1, <2>3, FunctionIsSeq
<1>8. held[1] = <<item.parts[0]>>
  <2>1. 1 - 1 = 0 /\ 0 \in Given(item)
    BY <1>1, <1>5 DEF Given
  <2> QED BY <1>1, <2>1
<1> HIDE DEF held
<1>9. FlattenSeq(held) # <<>> /\ FlattenSeq(held)[1] = item.parts[0] /\ FlattenSeq(held) \in Seq(PartTypes)
  <2>1. held # <<>>
    BY <1>1, <1>7
  <2>2. <<item.parts[0]>> # <<>> /\ <<item.parts[0]>>[1] = item.parts[0]
    OBVIOUS
  <2>3. held[1] # <<>> /\ held[1][1] = item.parts[0]
    BY <1>8, <2>2
  <2> HIDE DEF item
  <2> QED BY <1>7, <2>1, <2>3, FlattenLeads, FlattenType
<1>10. parts # <<>> /\ parts[1] = item.parts[0] /\ Len(parts) \in Nat /\ 1 \in 1..Len(parts)
  <2>1. parts # <<>> /\ parts[1] = item.parts[0] /\ parts \in Seq(PartTypes)
    BY <1>6, <1>9
  <2> HIDE DEF parts
  <2> QED BY <2>1
<1>11. first = [k \in 1..Len(parts) |-> Block("text", parts[k].text)]
  BY <1>5 DEF BlocksOf
<1> HIDE DEF parts
<1>12. first # <<>> /\ first[1] = Block("text", item.parts[0].text)
  <2>1. first[1] = Block("text", item.parts[0].text)
    BY <1>10, <1>11
  <2>2. DOMAIN first = 1..Len(parts) /\ 1..Len(parts) # {}
    BY <1>10, <1>11
  <2>3. DOMAIN <<>> = {}
    OBVIOUS
  <2> HIDE DEF first
  <2> QED BY <2>1, <2>2, <2>3
<1>13. seqs \in Seq(Seq(Blocks(ToolKinds(output, status)))) /\ seqs # <<>> /\ seqs[1] = first
  <2>1. seqs \in Seq(Seq(Blocks(ToolKinds(output, status))))
    BY <1>1, ContentSound
  <2>2. Len(seqs) = n /\ seqs[1] = first
    BY <1>1, <1>2 DEF Grouped
  <2> HIDE DEF seqs, first
  <2> QED BY <1>2, <2>1, <2>2
<1> HIDE DEF seqs, first
<1>14. FlattenSeq(seqs) # <<>> /\ FlattenSeq(seqs)[1] = first[1]
  BY <1>12, <1>13, FlattenLeads
<1> QED BY <1>5, <1>12, <1>14 DEF seqs, Block

-----------------------------------------------------------------------------
(* The state of a stream.                                                   *)

Progressives == [blocked : BOOLEAN, started : BOOLEAN, emitted : Seq(Pieces), frames : {<<>>}]

Reading == {"await", "chunk", "tail", "finish"}
Waiting == {"yield", "suspended", "end"}

TypeInv ==
    /\ pc \in Reading \cup Waiting \cup {"closed"}
    /\ omit \in BOOLEAN /\ honest \in BOOLEAN
    /\ agg \in Aggregators /\ prog \in Progressives
    /\ out \in Seq(Frames)
    /\ TruthType
    /\ client \in Clients

\* What has been forwarded is a beginning of the first part, and all of it
\* as long as neither other output nor a snapshot has come between.
Forwarded ==
    /\ prog.started => /\ truth[0].type = "message" /\ truth[0].parts[0].kind # "none"
                       /\ IsPrefix(prog.emitted, truth[0].parts[0].text)
    /\ ~prog.blocked /\ ~Final(agg, 0, 0) => prog.emitted = truth[0].parts[0].text

Faithful ==
    /\ \A i \in Slots : Alike(agg.items[i], truth[i])
    /\ agg.terminal.status # "none" => \E n : Used(n) /\ Told(agg.terminal.output, n)
    /\ Forwarded

CallsGood ==
    /\ agg.terminal.status = "completed"
    /\ ~HasRefusal(Output(agg))
    /\ honest => \A i \in Slots :
           truth[i].type = "function_call" =>
               Whole(truth[i].parts[0].text) /\ ~(Output(agg)[i + 1]).cut

\* A message that has been rebuilt.
Rendered(m, output, status, hidden) ==
    /\ m = [ok |-> TRUE, content |-> Content(output, status, hidden),
            stop |-> StopReason(output, status)]
    /\ status \in Statuses /\ status # "none" /\ Convertible(output, status, hidden)
    /\ output \in Seq(RealItems)

LEMMA MessageSound ==
    ASSUME TypeInv, NEW hidden \in BOOLEAN, Message(agg, hidden).ok
    PROVE  Rendered(Message(agg, hidden), Output(agg), agg.terminal.status, hidden)
<1> DEFINE output == Output(agg)
           status == agg.terminal.status
           ok == /\ status # "none"
                 /\ CallsConfirmed(agg) /\ OutputFits(agg)
                 /\ Convertible(output, status, hidden)
<1>1. output \in Seq(RealItems) /\ status \in Statuses \cup {"none"}
  BY OutputType DEF TypeInv, Aggregators, Terminals
<1>2. Message(agg, hidden) = IF ok THEN [ok |-> TRUE, content |-> Content(output, status, hidden),
                                         stop |-> StopReason(output, status)]
                             ELSE [ok |-> FALSE, content |-> <<>>, stop |-> "none"]
  BY DEF Message
<1>3. ok
  <2> HIDE DEF ok, output, status
  <2> QED BY <1>2
<1>4. Message(agg, hidden) = [ok |-> TRUE, content |-> Content(output, status, hidden),
                              stop |-> StopReason(output, status)]
  <2> HIDE DEF ok, output, status
  <2> QED BY <1>2, <1>3
<1> QED BY <1>1, <1>3, <1>4 DEF Rendered

LEMMA ContinuesHonestly ==
    ASSUME TypeInv, Faithful, prog.started, NEW hidden \in BOOLEAN, Message(agg, hidden).ok
    PROVE  Continues(prog, Message(agg, hidden).content)
<1> DEFINE output == Output(agg)
           status == agg.terminal.status
           blocks == FlattenSeq(Grouped(output, status, hidden))
           content == Content(output, status, hidden)
<1>1. Rendered(Message(agg, hidden), output, status, hidden)
  BY MessageSound
<1>2. Message(agg, hidden).content = content /\ output \in Seq(RealItems) /\ status # "none"
  BY <1>1 DEF Rendered
<1>3. PICK n : Used(n) /\ Told(agg.terminal.output, n)
  BY <1>2 DEF Faithful
<1>4. Rebuilt(output, n)
  BY <1>3, HonestOutput DEF TypeInv, Faithful
<1>5. Gathers(blocks, content) /\ content \in Seq(Blocks(ToolKinds(output, status)))
  BY <1>2, ContentSound
<1>6. /\ truth[0].type = "message" /\ truth[0].parts[0].kind # "none"
      /\ IsPrefix(prog.emitted, truth[0].parts[0].text)
      /\ prog.emitted \in Seq(Pieces)
  BY DEF Faithful, Forwarded, TypeInv, Progressives
<1>7. blocks # <<>> /\ blocks[1].kind = "text" /\ blocks[1].pieces = truth[0].parts[0].text
  BY <1>3, <1>4, <1>6, FirstIs DEF TypeInv
<1>8. truth[0].parts[0].text \in Seq(Pieces)
  <2>1. 0 \in Slots /\ 0 \in Parts
    BY SlotAssumption DEF Slots, Parts
  <2>2. truth[0] \in Items
    BY <2>1 DEF TypeInv, TruthType, Truths
  <2> QED BY <2>1, <2>2, ItemParts
<1> HIDE DEF output, status, content, blocks
<1>9. content # <<>> /\ content[1].kind = "text" /\ IsPrefix(blocks[1].pieces, content[1].pieces)
  BY <1>5, <1>7 DEF Gathers
<1>10. content[1].pieces \in Seq(Pieces)
  <2>1. content[1] \in Blocks(ToolKinds(output, status))
    BY <1>5, <1>9
  <2> QED BY <2>1 DEF Blocks
<1>11. IsPrefix(prog.emitted, content[1].pieces)
  BY <1>6, <1>7, <1>8, <1>9, <1>10, PrefixChain
<1> QED BY <1>2, <1>9, <1>11 DEF Continues

\* The last frames bring a message that is whole.
Fulfils(frames, got, tools, hidden) ==
    /\ Ends(client, frames, got, tools, hidden)
    /\ honest => got = WholeText
    /\ tools => CallsGood

LEMMA FinishGood ==
    ASSUME TypeInv, honest => Faithful, NEW hidden \in BOOLEAN, Message(agg, hidden).ok,
           Begun(client, prog), prog.started => Continues(prog, Message(agg, hidden).content)
    PROVE  \E got, tools : Fulfils(FinishFrames(prog, Message(agg, hidden), hidden), got, tools, hidden)
<1> DEFINE output == Output(agg)
           status == agg.terminal.status
           kinds == ToolKinds(output, status)
           content == Content(output, status, hidden)
           stop == StopReason(output, status)
           got == FlattenSeq(PiecesFrom(content, 1))
           tools == "tool" \in kinds
           frames == FinishFrames(prog, Message(agg, hidden), hidden)
<1>1. /\ Message(agg, hidden) = [ok |-> TRUE, content |-> content, stop |-> stop]
      /\ status \in Statuses /\ status # "none" /\ Convertible(output, status, hidden)
      /\ output \in Seq(RealItems)
  BY MessageSound DEF Rendered
<1>2. kinds \subseteq BlockKinds /\ content \in Seq(Blocks(kinds)) /\ stop \in Reasons
  <2>1. content \in Seq(Blocks(kinds))
    BY <1>1, ContentSound
  <2>2. kinds \subseteq BlockKinds
    BY DEF ToolKinds, BlockKinds
  <2> QED BY <2>1, <2>2, ReasonType
<1>3. tools => /\ stop = "tool_use"
               /\ status = "completed" /\ ~HasRefusal(output)
               /\ \A k \in 1..Len(output) : output[k].type = "function_call" =>
                      Whole(output[k].parts[0].text) /\ ~output[k].cut
  BY <1>1, ToolsAllowed
<1>4. Ends(client, frames, got, tools, hidden)
  <2>1. prog.emitted \in Seq(Pieces)
    BY DEF TypeInv, Progressives
  <2>2. prog.started => Continues(prog, content)
    BY <1>1
  <2> HIDE DEF kinds, content, stop, status, output
  <2>3. Ends(client, FinishFrames(prog, [ok |-> TRUE, content |-> content, stop |-> stop], hidden),
             FlattenSeq(PiecesFrom(content, 1)), "tool" \in kinds, hidden)
    BY <1>2, <1>3, <2>1, <2>2, FinishLeads
  <2> QED BY <1>1, <2>3
<1>5. honest => \E n : Used(n) /\ Rebuilt(output, n)
  <2> SUFFICES ASSUME honest PROVE \E n : Used(n) /\ Rebuilt(output, n)
    OBVIOUS
  <2>1. PICK n : Used(n) /\ Told(agg.terminal.output, n)
    BY <1>1 DEF Faithful
  <2>2. Rebuilt(output, n)
    BY <2>1, HonestOutput DEF TypeInv, Faithful
  <2> QED BY <2>1, <2>2
<1>6. honest => got = WholeText
  <2> SUFFICES ASSUME honest PROVE got = WholeText
    OBVIOUS
  <2>1. PICK n : Used(n) /\ Rebuilt(output, n)
    BY <1>5
  <2>2. Text(FlattenSeq(Grouped(output, status, hidden))) = WholeText
    BY <1>1, <2>1, WholeIs DEF TypeInv
  <2>3. Text(content) = Text(FlattenSeq(Grouped(output, status, hidden)))
    BY <1>1, ContentSound DEF Gathers
  <2>4. content \in Seq(Blocks(BlockKinds))
    BY <1>2, BlocksWiden
  <2> HIDE DEF content, status, output
  <2>5. got = Text(content)
    BY <2>4, TextIs
  <2> QED BY <2>2, <2>3, <2>5
<1>7. tools => CallsGood
  <2> SUFFICES ASSUME tools PROVE CallsGood
    OBVIOUS
  <2>1. ASSUME honest, NEW i \in Slots, truth[i].type = "function_call"
        PROVE  Whole(truth[i].parts[0].text) /\ ~(output[i + 1]).cut
    <3>1. PICK n : Used(n) /\ Rebuilt(output, n)
      BY <1>5, <2>1
    <3>2. i < n /\ n \in Nat /\ i \in Nat
      BY <2>1, <3>1 DEF Used, Slots
    <3>3. i + 1 \in 1..n /\ (i + 1) - 1 = i /\ Len(output) = n
      BY <3>1, <3>2 DEF Rebuilt
    <3>4. Alike(output[i + 1], truth[i])
      BY <3>1, <3>3 DEF Rebuilt
    <3> HIDE DEF tools, output, status
    <3>5. output[i + 1].type = "function_call" /\ output[i + 1].parts = truth[i].parts
      BY <2>1, <3>4 DEF Alike
    <3>6. Whole(output[i + 1].parts[0].text) /\ ~output[i + 1].cut
      BY <1>3, <3>3, <3>5
    <3> QED BY <3>5, <3>6
  <2> HIDE DEF tools
  <2> QED BY <1>3, <2>1 DEF CallsGood
<1> HIDE DEF got, tools, frames
<1>8. Fulfils(frames, got, tools, hidden)
  BY <1>4, <1>6, <1>7 DEF Fulfils
<1> QED BY <1>8 DEF frames

-----------------------------------------------------------------------------
(* The invariant.                                                           *)

Delivered(d) ==
    /\ d.stage = "stopped" /\ capture.protocol
    /\ honest => d.got = WholeText
    /\ d.tooled => CallsGood

GivenUp(d) == d.stage = "failed" /\ ~d.tooled

\* What the client will have seen when out is empty.
FlowInv ==
    /\ pc \in Reading => Begun(client, prog)
    /\ pc \in Waiting =>
           \/ /\ next \in {"chunk", "finish"}
              /\ \E d : Reaches(client, out, d, omit) /\ Begun(d, prog)
           \/ /\ next = "closed"
              /\ \E d : Reaches(client, out, d, omit) /\ GivenUp(d)
           \/ /\ next = "end"
              /\ \E d : Reaches(client, out, d, omit) /\ (Delivered(d) \/ GivenUp(d))

\* [DONE] or the end of the body ends the loop, never both; a capture that is
\* finished early is that of a body read to its end.
RecordInv ==
    /\ capture \in [protocol : BOOLEAN, readError : BOOLEAN]
    /\ stopped \in BOOLEAN /\ eof \in BOOLEAN
    /\ pc \in {"await", "chunk"} => ~eof /\ ~stopped
    /\ pc = "tail" => eof /\ ~stopped
    /\ pc = "finish" => stopped = ~eof
    /\ pc \in Reading => record = NoRecord /\ ~capture.readError
    /\ pc \in Waiting =>
           /\ next = "chunk" => ~eof /\ ~stopped
           /\ next \in {"finish", "end"} => stopped = ~eof
           /\ next \in {"chunk", "finish", "closed"} => record = NoRecord
           /\ next \in {"chunk", "finish", "end"} => ~capture.readError
           /\ next = "end" => record = IF stopped THEN NoRecord ELSE Recorded(TRUE, capture)

ClosedInv ==
    pc = "closed" =>
        /\ EndsTruthfully
        /\ client.stage = "stopped" /\ honest => client.got = WholeText
        /\ client.tooled => CallsGood

ResponsesInv == TypeInv /\ (honest => Faithful) /\ FlowInv /\ RecordInv /\ ClosedInv

-----------------------------------------------------------------------------
(* What the aggregator becomes is an aggregator.                            *)

LEMMA KindTypes ==
    \A kind \in Kinds : TypeOf(kind) \in ItemTypes /\ kind # "none"
  BY DEF Kinds, TypeOf, ItemTypes

LEMMA WithTextType ==
    ASSUME NEW x \in Items, NEW c \in Parts, NEW kind \in Kinds, NEW text \in Seq(Pieces)
    PROVE  /\ WithText(x, c, kind, text) \in RealItems
           /\ WithText(x, c, kind, text).type = TypeOf(kind)
           /\ WithText(x, c, kind, text).parts
                  = [x.parts EXCEPT ![c] = [kind |-> kind, text |-> text]]
<1> DEFINE part == [kind |-> kind, text |-> text]
           parts == [x.parts EXCEPT ![c] = part]
<1>1. part \in PartTypes /\ x.parts \in [Parts -> PartTypes] /\ TypeOf(kind) \in ItemTypes
  BY ItemParts, KindTypes DEF PartTypes
<1> HIDE DEF part
<1>2. parts \in [Parts -> PartTypes]
  BY <1>1
<1> DEFINE R == [type : ItemTypes \cup {"none"}, parts : [Parts -> PartTypes],
                 named : BOOLEAN, sealed : BOOLEAN, cut : BOOLEAN]
<1>0. x \in R
  <2>1. CASE x \in RealItems
    BY <2>1 DEF RealItems
  <2>2. CASE x = NoItem
    <3> DEFINE p == NoItem.parts
    <3>1. p \in [Parts -> PartTypes]
      BY NoItemType
    <3>2. NoItem = [type |-> "none", parts |-> p,
                    named |-> FALSE, sealed |-> FALSE, cut |-> FALSE]
      BY DEF NoItem
    <3> HIDE DEF p
    <3> QED BY <2>2, <3>1, <3>2
  <2> QED BY <2>1, <2>2 DEF Items
<1>3. WithText(x, c, kind, text) = [x EXCEPT !.type = TypeOf(kind), !.parts = parts]
  BY <1>0 DEF WithText, part
<1> HIDE DEF parts
<1>4. [x EXCEPT !.type = TypeOf(kind), !.parts = parts] \in RealItems
  BY <1>0, <1>1, <1>2 DEF RealItems
<1>5. /\ [x EXCEPT !.type = TypeOf(kind), !.parts = parts].type = TypeOf(kind)
      /\ [x EXCEPT !.type = TypeOf(kind), !.parts = parts].parts = parts
  BY <1>0
<1> QED BY <1>3, <1>4, <1>5 DEF parts, part

LEMMA NewTypes ==
    /\ NewAggregator \in Aggregators
    /\ NewProgressive \in Progressives
    /\ NoTruth \in [Slots -> Truths]
<1>1. NoItem \in Items /\ Tidy(NoItem)
  BY NoItemType DEF Items, Tidy, NoPart
<1>2. NoTerminal \in Terminals
  BY EmptySeq DEF NoTerminal, Terminals
<1>3. NewAggregator \in Aggregators
  BY <1>1, <1>2 DEF NewAggregator, Aggregators
<1>4. NewProgressive \in Progressives
  BY EmptySeq DEF NewProgressive, Progressives
<1> QED BY <1>1, <1>3, <1>4 DEF NoTruth, Truths

LEMMA AggregatorWith ==
    ASSUME NEW a \in Aggregators, NEW i \in Slots, NEW x \in Items,
           NEW final \in SUBSET (Slots \X Parts)
    PROVE  [a EXCEPT !.items[i] = x, !.final = final] \in Aggregators
  BY DEF Aggregators

LEMMA AddDeltaType ==
    ASSUME NEW a \in Aggregators, NEW i \in Slots, NEW c \in Parts, NEW kind \in Kinds,
           NEW piece \in Pieces
    PROVE  /\ AddDelta(a, i, c, kind, piece) \in Aggregators
           /\ AddDelta(a, i, c, kind, piece).terminal = a.terminal
           /\ AddDelta(a, i, c, kind, piece).failed = a.failed
           /\ AddDelta(a, i, c, kind, piece).final = a.final
           /\ ~Final(a, i, c) =>
                  AddDelta(a, i, c, kind, piece).items
                      = [a.items EXCEPT ![i] = WithText(a.items[i], c, kind,
                                                   Append(a.items[i].parts[c].text, piece))]
<1> DEFINE x == WithText(a.items[i], c, kind, Append(a.items[i].parts[c].text, piece))
<1>1. a.items[i] \in Items
  BY DEF Aggregators
<1>2. Append(a.items[i].parts[c].text, piece) \in Seq(Pieces)
  <2>1. a.items[i].parts[c].text \in Seq(Pieces)
    BY <1>1, ItemParts
  <2> QED BY <2>1
<1>3. x \in Items
  BY <1>1, <1>2, WithTextType DEF Items
<1> HIDE DEF x
<1>4. /\ [a EXCEPT !.items[i] = x] \in Aggregators
      /\ [a EXCEPT !.items[i] = x].terminal = a.terminal
      /\ [a EXCEPT !.items[i] = x].failed = a.failed
      /\ [a EXCEPT !.items[i] = x].final = a.final
      /\ [a EXCEPT !.items[i] = x].items = [a.items EXCEPT ![i] = x]
  BY <1>3 DEF Aggregators
<1>5. AddDelta(a, i, c, kind, piece) = IF Final(a, i, c) THEN a ELSE [a EXCEPT !.items[i] = x]
  BY DEF AddDelta, x
<1> QED BY <1>4, <1>5 DEF x

LEMMA AddDoneType ==
    ASSUME NEW a \in Aggregators, NEW i \in Slots, NEW c \in Parts, NEW kind \in Kinds,
           NEW text \in Seq(Pieces), ~AddDone(a, i, c, kind, text).failed
    PROVE  /\ AddDone(a, i, c, kind, text) \in Aggregators
           /\ AddDone(a, i, c, kind, text).terminal = a.terminal
           /\ a.final \subseteq AddDone(a, i, c, kind, text).final
           /\ kind # "arguments" => Final(AddDone(a, i, c, kind, text), i, c)
           /\ AddDone(a, i, c, kind, text).items
                  = [a.items EXCEPT ![i] = WithText(a.items[i], c, kind, text)]
<1> DEFINE x == WithText(a.items[i], c, kind, text)
           final == IF kind = "arguments" THEN a.final ELSE a.final \cup {<<i, c>>}
           b == [a EXCEPT !.items[i] = x, !.final = final]
<1>1. a.items[i] \in Items
  BY DEF Aggregators
<1>2. x \in Items
  BY <1>1, WithTextType DEF Items
<1> HIDE DEF x
<1>3. AddDone(a, i, c, kind, text) = b
  <2>1. AddDone(a, i, c, kind, text) = IF ~IsPrefix(a.items[i].parts[c].text, text)
                                       THEN [a EXCEPT !.failed = TRUE] ELSE b
    BY DEF AddDone, x, Aggregators
  <2>2. [a EXCEPT !.failed = TRUE].failed
    BY DEF Aggregators
  <2> QED BY <2>1, <2>2
<1>4. final \in SUBSET (Slots \X Parts) /\ a.final \subseteq final
      /\ (kind # "arguments" => <<i, c>> \in final)
  BY DEF Aggregators
<1> HIDE DEF final
<1>5. b \in Aggregators
  BY <1>2, <1>4, AggregatorWith
<1>6. b.terminal = a.terminal /\ b.final = final /\ b.items = [a.items EXCEPT ![i] = x]
  BY DEF Aggregators
<1> QED BY <1>3, <1>4, <1>5, <1>6 DEF Final, x

LEMMA AddItemType ==
    ASSUME NEW a \in Aggregators, NEW i \in Slots, NEW snapshot \in RealItems,
           ~AddItem(a, i, snapshot).failed
    PROVE  /\ AddItem(a, i, snapshot) \in Aggregators
           /\ AddItem(a, i, snapshot).terminal = a.terminal
           /\ a.final \subseteq AddItem(a, i, snapshot).final
           /\ \A c \in Parts : /\ snapshot.parts[c].kind \in Kinds \ {"arguments"}
                               /\ snapshot.parts[c].text # <<>>
                               => Final(AddItem(a, i, snapshot), i, c)
           /\ AddItem(a, i, snapshot).items
                  = [a.items EXCEPT ![i] = IF a.items[i] = NoItem THEN snapshot
                                           ELSE Merge(a.items[i], snapshot)]
<1> DEFINE x == IF a.items[i] = NoItem THEN snapshot ELSE Merge(a.items[i], snapshot)
           closed == {<<i, c>> : c \in {d \in Parts :
                                  /\ snapshot.parts[d].kind \in Kinds \ {"arguments"}
                                  /\ snapshot.parts[d].text # <<>>}}
           final == a.final \cup closed
           b == [a EXCEPT !.items[i] = x, !.final = final]
<1>1. a.items[i] \in Items
  BY DEF Aggregators
<1>2. x \in Items
  BY <1>1, MergeType, ItemParts DEF Items
<1>3. AddItem(a, i, snapshot) = b
  <2>1. AddItem(a, i, snapshot) = IF a.items[i] # NoItem /\ ~Fit(a.items[i], snapshot)
                                  THEN [a EXCEPT !.failed = TRUE] ELSE b
    BY DEF AddItem, Aggregators
  <2>2. [a EXCEPT !.failed = TRUE].failed
    BY DEF Aggregators
  <2> HIDE DEF b
  <2> QED BY <2>1, <2>2
<1>4. closed \subseteq Slots \X Parts
  OBVIOUS
<1>5. \A c \in Parts : /\ snapshot.parts[c].kind \in Kinds \ {"arguments"}
                       /\ snapshot.parts[c].text # <<>>
                       => <<i, c>> \in closed
  OBVIOUS
<1> HIDE DEF x, closed
<1>6. final \in SUBSET (Slots \X Parts) /\ a.final \subseteq final
  BY <1>4 DEF Aggregators
<1> HIDE DEF final
<1>7. b \in Aggregators
  BY <1>2, <1>6, AggregatorWith
<1>8. b.terminal = a.terminal /\ b.final = final /\ b.items = [a.items EXCEPT ![i] = x]
  BY DEF Aggregators
<1>9. closed \subseteq final
  BY DEF final
<1> HIDE DEF b
<1> QED BY <1>3, <1>5, <1>6, <1>7, <1>8, <1>9 DEF Final, x

-----------------------------------------------------------------------------
(* What is forwarded.                                                       *)

\* What the progressive state holds after an event is on its way.
Advances(c, p, omitted) ==
    /\ [p EXCEPT !.frames = <<>>] \in Progressives
    /\ p.frames \in Seq(Frames)
    /\ \E d : Reaches(c, p.frames, d, omitted) /\ Begun(d, [p EXCEPT !.frames = <<>>])

\* Nothing forwarded.
Stays(p, q) ==
    /\ q \in Progressives
    /\ q.started = p.started /\ q.emitted = p.emitted
    /\ p.blocked => q.blocked

LEMMA StaysAdvances ==
    ASSUME NEW c, NEW p, NEW q, Begun(c, p), Stays(p, q), NEW omitted
    PROVE  Advances(c, q, omitted)
<1>1. [q EXCEPT !.frames = <<>>] = q /\ q.frames = <<>>
  BY DEF Stays, Progressives
<1>2. Begun(c, q)
  BY DEF Begun, Stays
<1>3. c \in Clients
  BY DEF Begun
<1>4. Reaches(c, <<>>, c, omitted)
  BY <1>3, ReachNil
<1>5. <<>> \in Seq(Frames)
  BY EmptySeq
<1>6. q \in Progressives
  BY DEF Stays
<1> QED BY <1>1, <1>2, <1>4, <1>5, <1>6 DEF Advances

LEMMA SeesTypeStays ==
    ASSUME NEW p \in Progressives, NEW type
    PROVE  /\ Stays(p, SeesType(p, type))
           /\ type # "message" /\ ~p.started => SeesType(p, type).blocked
  BY DEF Stays, SeesType, Progressives

LEMMA SeesTextStays ==
    ASSUME NEW p \in Progressives, NEW i, NEW c, NEW piece, p.blocked \/ ~FirstPart(i, c)
    PROVE  Stays(p, SeesText(p, i, c, piece)) /\ SeesText(p, i, c, piece).blocked
  BY DEF Stays, SeesText, Progressives

TextStart == Frame("start", "text", 0, <<>>)
TextDelta(piece) == Frame("delta", "text", 0, <<piece>>)

LEMMA TextFrameTypes ==
    ASSUME NEW piece \in Pieces
    PROVE  StartFrame \in Frames /\ TextStart \in Frames /\ TextDelta(piece) \in Frames
<1>1. <<>> \in Seq(Pieces) /\ <<piece>> \in Seq(Pieces)
  OBVIOUS
<1> QED BY <1>1 DEF StartFrame, TextStart, TextDelta, Frame, Frames, BlockKinds

LEMMA SeesTextSends ==
    ASSUME NEW c \in Clients, NEW p \in Progressives, NEW piece \in Pieces, NEW omitted \in BOOLEAN,
           NEW i, NEW part, ~(p.blocked \/ ~FirstPart(i, part)), Begun(c, p)
    PROVE  /\ Advances(c, SeesText(p, i, part, piece), omitted)
           /\ SeesText(p, i, part, piece).started /\ ~SeesText(p, i, part, piece).blocked
           /\ SeesText(p, i, part, piece).emitted = Append(p.emitted, piece)
<1> DEFINE q == SeesText(p, i, part, piece)
           before == IF p.started THEN <<>> ELSE <<StartFrame, TextStart>>
           emitted == Append(p.emitted, piece)
           still == [p EXCEPT !.started = TRUE, !.emitted = emitted]
<1>1. p.emitted \in Seq(Pieces) /\ p.frames = <<>>
  BY DEF Progressives
<1>2. emitted \in Seq(Pieces) /\ emitted = p.emitted \o <<piece>>
  BY <1>1
<1>3. /\ q.frames = before \o <<TextDelta(piece)>>
      /\ [q EXCEPT !.frames = <<>>] = still
      /\ q.started /\ ~q.blocked /\ q.emitted = emitted
  BY <1>1 DEF SeesText, Progressives, StartFrame, TextStart, TextDelta
<1> HIDE DEF q, emitted
<1>4. still \in Progressives /\ still.started /\ still.emitted = emitted
  BY <1>2 DEF Progressives
<1> HIDE DEF still
<1>5. StartFrame \in Frames /\ TextStart \in Frames /\ TextDelta(piece) \in Frames
  BY TextFrameTypes
<1>6. before \in Seq(Frames) /\ \E d : Reaches(c, before, d, omitted)
                                       /\ During(d, "text", 1, p.emitted, FALSE)
  <2>1. CASE p.started
    <3>1. before = <<>> /\ before \in Seq(Frames)
      BY <2>1
    <3>2. Reaches(c, <<>>, c, omitted)
      BY ReachNil
    <3> QED BY <2>1, <3>1, <3>2 DEF Begun
  <2>2. CASE ~p.started
    <3> DEFINE nil == <<>>
               one == Append(nil, StartFrame)
               two == Append(one, TextStart)
               d1 == After(c, StartFrame, omitted)
               d2 == After(d1, TextStart, omitted)
    <3>1. before = two
      BY <2>2
    <3>2. /\ c.stage = "before" /\ c.open = "none" /\ c.blocks = 0 /\ c.got = <<>> /\ ~c.tooled
          /\ p.emitted = <<>>
      BY <2>2 DEF Begun
    <3>3. Reaches(c, nil, c, omitted) /\ nil \in Seq(Frames)
      BY ReachNil, EmptySeq
    <3> HIDE DEF nil
    <3>4. Allowed(c, StartFrame)
      BY <3>2 DEF Allowed, StartFrame, Frame
    <3>5. d1 \in Clients /\ one \in Seq(Frames) /\ Reaches(c, one, d1, omitted)
      BY <1>5, <3>3, <3>4, ReachPush
    <3>6. d1 = [c EXCEPT !.stage = "message"]
      BY DEF After, StartFrame, Frame
    <3>7. /\ d1.stage = "message" /\ d1.open = "none" /\ d1.blocks = 0 /\ d1.got = <<>> /\ ~d1.tooled
      BY <3>2, <3>6 DEF Clients
    <3> HIDE DEF d1, one
    <3>8. Allowed(d1, TextStart)
      BY <3>7 DEF Allowed, TextStart, Frame, BlockKinds
    <3>9. d2 \in Clients /\ two \in Seq(Frames) /\ Reaches(c, two, d2, omitted)
      BY <1>5, <3>5, <3>8, ReachPush
    <3>10. d2 = [d1 EXCEPT !.open = "text", !.blocks = @ + 1, !.tooled = @ \/ FALSE]
      BY DEF After, TextStart, Frame
    <3>11. /\ d2.stage = "message" /\ d2.open = "text" /\ d2.blocks = 1 /\ d2.got = <<>> /\ ~d2.tooled
      BY <3>5, <3>7, <3>10 DEF Clients
    <3> HIDE DEF d2, two
    <3>12. During(d2, "text", 1, p.emitted, FALSE)
      BY <3>2, <3>9, <3>11 DEF During
    <3> QED BY <3>1, <3>9, <3>12
  <2> QED BY <2>1, <2>2
<1> HIDE DEF before
<1>7. PICK d : Reaches(c, before, d, omitted) /\ During(d, "text", 1, p.emitted, FALSE)
  BY <1>6
<1>8. d \in Clients /\ d.stage = "message" /\ d.open = "text" /\ d.blocks = 1 /\ d.got = p.emitted
      /\ ~d.tooled
  BY <1>7 DEF During
<1>9. Allowed(d, TextDelta(piece))
  BY <1>8 DEF Allowed, TextDelta, Frame
<1> DEFINE e == After(d, TextDelta(piece), omitted)
           frames == Append(before, TextDelta(piece))
<1>10. e \in Clients /\ frames \in Seq(Frames) /\ Reaches(c, frames, e, omitted)
  BY <1>5, <1>6, <1>7, <1>8, <1>9, ReachPush
<1>11. e = [d EXCEPT !.got = @ \o <<piece>>]
  BY DEF After, TextDelta, Frame
<1>12. /\ e.stage = "message" /\ e.open = "text" /\ e.blocks = 1 /\ e.got = emitted /\ ~e.tooled
  BY <1>2, <1>8, <1>11 DEF Clients
<1>13. before \o <<TextDelta(piece)>> = frames
  BY <1>5, <1>6, OneBehind
<1> HIDE DEF e, frames
<1>14. Begun(e, still)
  BY <1>4, <1>10, <1>12 DEF Begun, During
<1>15. Advances(c, q, omitted)
  BY <1>3, <1>4, <1>10, <1>13, <1>14 DEF Advances
<1> QED BY <1>3, <1>15 DEF q, emitted

\* An error, told to a client that has seen nothing that it must not.
LEMMA ErrorReaches ==
    ASSUME NEW c, NEW p, Begun(c, p), NEW omitted \in BOOLEAN
    PROVE  /\ <<ErrorFrame>> \in Seq(Frames)
           /\ \E d : Reaches(c, <<ErrorFrame>>, d, omitted) /\ GivenUp(d)
<1> DEFINE d == After(c, ErrorFrame, omitted)
<1>1. c \in Clients /\ c.stage \in {"before", "message"} /\ ~c.tooled
  BY DEF Begun, During
<1>2. ErrorFrame \in Frames /\ ErrorFrame.type = "error"
  BY EmptySeq DEF ErrorFrame, Frame, Frames
<1>3. Allowed(c, ErrorFrame)
  BY <1>1, <1>2 DEF Allowed
<1>4. Reaches(c, <<>>, c, omitted) /\ <<>> \in Seq(Frames)
  BY <1>1, ReachNil, EmptySeq
<1>5. d \in Clients /\ Append(<<>>, ErrorFrame) \in Seq(Frames)
      /\ Reaches(c, Append(<<>>, ErrorFrame), d, omitted)
  BY <1>1, <1>2, <1>3, <1>4, ReachPush
<1>6. Append(<<>>, ErrorFrame) = <<ErrorFrame>>
  OBVIOUS
<1>7. d = [c EXCEPT !.stage = "failed"]
  BY <1>2 DEF After
<1>8. GivenUp(d)
  BY <1>1, <1>7 DEF GivenUp, Clients
<1> HIDE DEF d
<1> QED BY <1>5, <1>6, <1>8

-----------------------------------------------------------------------------
(* The steps around the events.                                             *)

LEMMA FaithfulKept ==
    ASSUME Faithful, UNCHANGED <<agg, prog, truth>>
    PROVE  Faithful'
  BY DEF Faithful, Used, Told, Forwarded, Bare, Alike, Final

LEMMA MessageKept ==
    ASSUME UNCHANGED <<agg, truth, honest>>
    PROVE  WholeText' = WholeText /\ (CallsGood => CallsGood')
  BY DEF WholeText, CallsGood

LEMMA TruthKept ==
    ASSUME TruthType, UNCHANGED truth
    PROVE  TruthType'
  BY DEF TruthType

LEMMA Forgotten ==
    ASSUME Forget
    PROVE  /\ agg' \in Aggregators /\ prog' \in Progressives /\ TruthType' /\ honest' \in BOOLEAN
           /\ Faithful'
<1>1. agg' = NewAggregator /\ prog' = NewProgressive /\ truth' = NoTruth /\ honest' = TRUE
  BY DEF Forget
<1>2. 0 \in Slots /\ 0 \in Parts
  BY SlotAssumption DEF Slots, Parts
<1>3. \A i \in Slots : Alike(NewAggregator.items[i], NoTruth[i])
  BY DEF Alike, NewAggregator, NoTruth
<1>4. NewAggregator.terminal.status = "none"
  BY DEF NewAggregator, NoTerminal
<1>5. ~NewProgressive.started /\ NewProgressive.emitted = <<>>
  BY DEF NewProgressive
<1>6. NoTruth[0].parts[0].text = <<>>
  BY <1>2, NoItemType DEF NoTruth, NoPart
<1>7. Faithful'
  BY <1>1, <1>3, <1>4, <1>5, <1>6 DEF Faithful, Forwarded
<1> QED BY <1>1, <1>7, NewTypes DEF TruthType

LEMMA FailStep ==
    ASSUME ResponsesInv, pc \in Reading, YieldErrorAndReturn, Forget,
           UNCHANGED <<omit, stopped, eof, record, client, gone>>,
           capture' \in [protocol : BOOLEAN, readError : BOOLEAN]
    PROVE  ResponsesInv'
<1>1. pc' = "yield" /\ next' = "closed" /\ out' = <<ErrorFrame>>
  BY DEF YieldErrorAndReturn, Yield
<1>2. Begun(client, prog) /\ omit \in BOOLEAN /\ client \in Clients
  BY DEF ResponsesInv, FlowInv, TypeInv
<1>3. <<ErrorFrame>> \in Seq(Frames)
      /\ \E d : Reaches(client, <<ErrorFrame>>, d, omit) /\ GivenUp(d)
  BY <1>2, ErrorReaches
<1>4. TypeInv'
  BY <1>1, <1>2, <1>3, Forgotten DEF TypeInv, Waiting
<1>5. FlowInv'
  BY <1>1, <1>3 DEF FlowInv, Reading, Waiting, GivenUp
<1>6. RecordInv'
  <2>1. record = NoRecord /\ stopped \in BOOLEAN /\ eof \in BOOLEAN
    BY DEF ResponsesInv, RecordInv
  <2> QED BY <1>1, <2>1 DEF RecordInv, Reading, Waiting
<1>7. ClosedInv'
  BY <1>1 DEF ClosedInv
<1> QED BY <1>4, <1>5, <1>6, <1>7, Forgotten DEF ResponsesInv

LEMMA QuietStep ==
    ASSUME ResponsesInv, Chunk \/ ChunkEnds \/ Eof \/ Done
    PROVE  ResponsesInv'
<1>1. /\ UNCHANGED <<omit, out, agg, prog, truth, honest, capture, record, client, gone>>
      /\ pc \in Reading /\ pc' \in Reading
  BY DEF Chunk, ChunkEnds, Eof, Done, converterVars, upstreamVars, captureVars, clientVars, Reading
<1>2. TypeInv'
  BY <1>1, TruthKept DEF ResponsesInv, TypeInv
<1>3. honest' => Faithful'
  BY <1>1, FaithfulKept DEF ResponsesInv
<1>4. FlowInv'
  <2>1. Begun(client, prog) /\ pc' \notin Waiting
    BY <1>1 DEF ResponsesInv, FlowInv, Reading, Waiting
  <2> QED BY <1>1, <2>1 DEF FlowInv
<1>5. RecordInv'
  <2>1. /\ capture \in [protocol : BOOLEAN, readError : BOOLEAN]
        /\ stopped \in BOOLEAN /\ eof \in BOOLEAN
        /\ pc \in {"await", "chunk"} => ~eof /\ ~stopped
        /\ pc = "tail" => eof /\ ~stopped
        /\ record = NoRecord /\ ~capture.readError
    BY <1>1 DEF ResponsesInv, RecordInv
  <2>2. /\ pc' \in {"await", "chunk"} => ~eof' /\ ~stopped'
        /\ pc' = "tail" => eof' /\ ~stopped'
        /\ pc' = "finish" => stopped' = ~eof'
        /\ stopped' \in BOOLEAN /\ eof' \in BOOLEAN
    <3>1. CASE Chunk
      BY <2>1, <3>1 DEF Chunk
    <3>2. CASE ChunkEnds
      BY <2>1, <3>2 DEF ChunkEnds
    <3>3. CASE Eof
      BY <2>1, <3>3 DEF Eof
    <3>4. CASE Done
      BY <2>1, <3>4 DEF Done
    <3> QED BY <3>1, <3>2, <3>3, <3>4
  <2>3. pc' \notin Waiting
    BY <1>1 DEF Reading, Waiting
  <2> QED BY <1>1, <2>1, <2>2, <2>3 DEF RecordInv
<1>6. ClosedInv'
  BY <1>1 DEF ClosedInv, Reading
<1> QED BY <1>2, <1>3, <1>4, <1>5, <1>6 DEF ResponsesInv

\* After an event that both have taken.
Taken(a, p, produced, still) ==
    /\ a \in Aggregators /\ produced \in [Slots -> Truths] /\ still \in BOOLEAN
    /\ Advances(client, p, omit)

LEMMA ProcessNext ==
    ASSUME ResponsesInv, pc \in {"chunk", "tail"}, NEW a, NEW p, NEW produced, NEW still,
           Process(a, p, produced, still),
           ~a.failed => Taken(a, p, produced, still) /\ (still => Faithful')
    PROVE  ResponsesInv'
<1>1. UNCHANGED <<omit, stopped, eof, capture, record, client, gone>> /\ pc \in Reading
  BY DEF Process, captureVars, clientVars, Reading
<1>2. CASE a.failed
  <2>1. YieldErrorAndReturn /\ Forget
    BY <1>2 DEF Process
  <2>2. capture' \in [protocol : BOOLEAN, readError : BOOLEAN]
    BY <1>1 DEF ResponsesInv, RecordInv
  <2> QED BY <1>1, <2>1, <2>2, FailStep
<1>3. CASE ~a.failed
  <2> DEFINE there == IF pc = "chunk" THEN "chunk" ELSE "finish"
             q == [p EXCEPT !.frames = <<>>]
  <2>1. /\ agg' = a /\ prog' = q /\ truth' = produced /\ honest' = still
        /\ out' = p.frames /\ next' = there
        /\ pc' = IF p.frames = <<>> THEN there ELSE "yield"
    BY <1>3 DEF Process, Yield
  <2>2. /\ a \in Aggregators /\ produced \in [Slots -> Truths] /\ still \in BOOLEAN
        /\ q \in Progressives /\ p.frames \in Seq(Frames)
    BY <1>3 DEF Taken, Advances
  <2>3. PICK d : Reaches(client, p.frames, d, omit) /\ Begun(d, q)
    BY <1>3 DEF Taken, Advances
  <2> HIDE DEF q
  <2>4. there \in {"chunk", "finish"}
    OBVIOUS
  <2>5. TypeInv'
    <3>1. pc' \in Reading \cup Waiting
      BY <2>1 DEF Reading, Waiting
    <3>2. omit \in BOOLEAN /\ client \in Clients
      BY DEF ResponsesInv, TypeInv
    <3> QED BY <1>1, <2>1, <2>2, <3>1, <3>2 DEF TypeInv, TruthType
  <2>6. honest' => Faithful'
    BY <1>3, <2>1
  <2>7. FlowInv'
    <3>1. CASE p.frames = <<>>
      <4>1. d = client
        BY <2>3, <3>1, ReachEmpty
      <4>2. pc' \in Reading /\ pc' \notin Waiting
        BY <2>1, <3>1 DEF Reading, Waiting
      <4> QED BY <1>1, <2>1, <2>3, <4>1, <4>2 DEF FlowInv
    <3>2. CASE p.frames # <<>>
      <4>1. pc' = "yield" /\ pc' \notin Reading
        BY <2>1, <3>2 DEF Reading
      <4>2. Reaches(client, out, d, omit)' /\ Begun(d, prog')
        BY <1>1, <2>1, <2>3
      <4>3. next' \in {"chunk", "finish"}
        BY <2>1, <2>4
      <4>4. \E e : Reaches(client', out', e, omit') /\ Begun(e, prog')
        BY <4>2
      <4> QED BY <4>1, <4>3, <4>4 DEF FlowInv
    <3> QED BY <3>1, <3>2
  <2>8. RecordInv'
    <3>1. /\ capture \in [protocol : BOOLEAN, readError : BOOLEAN]
          /\ stopped \in BOOLEAN /\ eof \in BOOLEAN
          /\ pc = "chunk" => ~eof /\ ~stopped
          /\ pc = "tail" => eof /\ ~stopped
          /\ record = NoRecord /\ ~capture.readError
      BY <1>1 DEF ResponsesInv, RecordInv
    <3> QED BY <1>1, <2>1, <3>1 DEF RecordInv, Reading, Waiting
  <2>9. ClosedInv'
    BY <2>1 DEF ClosedInv
  <2> QED BY <2>5, <2>6, <2>7, <2>8, <2>9 DEF ResponsesInv
<1> QED BY <1>2, <1>3

\* What a client that has not been left has seen.
LEMMA Seen ==
    ASSUME ResponsesInv, pc # "closed"
    PROVE  /\ client.stage = "stopped" => pc \in Waiting /\ next = "end" /\ Delivered(client)
           /\ client.tooled => pc \in Waiting /\ next = "end" /\ CallsGood
<1>1. client \in Clients /\ out \in Seq(Frames) /\ omit \in BOOLEAN /\ pc \in Reading \cup Waiting
  BY DEF ResponsesInv, TypeInv
<1>2. \A c, p : Begun(c, p) => c.stage # "stopped" /\ ~c.tooled
  BY DEF Begun, During
<1>3. CASE pc \in Reading
  BY <1>2, <1>3 DEF ResponsesInv, FlowInv
<1>4. CASE pc \in Waiting
  <2>1. ASSUME NEW d, Reaches(client, out, d, omit)
        PROVE  (client.stage = "stopped" => d = client) /\ (client.tooled => d.tooled)
    BY <1>1, <2>1, ReachEnded, ReachTooled
  <2>2. CASE /\ next \in {"chunk", "finish"}
             /\ \E d : Reaches(client, out, d, omit) /\ Begun(d, prog)
    BY <1>2, <2>1, <2>2
  <2>3. CASE /\ next = "closed"
             /\ \E d : Reaches(client, out, d, omit) /\ GivenUp(d)
    BY <2>1, <2>3 DEF GivenUp
  <2>4. CASE /\ next = "end"
             /\ \E d : Reaches(client, out, d, omit) /\ (Delivered(d) \/ GivenUp(d))
    <3>1. PICK d : Reaches(client, out, d, omit) /\ (Delivered(d) \/ GivenUp(d))
      BY <2>4
    <3>2. client.stage = "stopped" => Delivered(client)
      BY <2>1, <3>1 DEF GivenUp
    <3>3. client.tooled => CallsGood
      BY <2>1, <3>1 DEF GivenUp, Delivered
    <3> QED BY <1>4, <2>4, <3>2, <3>3
  <2> QED BY <1>4, <2>2, <2>3, <2>4 DEF ResponsesInv, FlowInv
<1> QED BY <1>1, <1>3, <1>4

-----------------------------------------------------------------------------
(* The end of a stream.                                                     *)

LEMMA MalformedStep ==
    ASSUME ResponsesInv, Malformed \/ ReadError
    PROVE  ResponsesInv'
<1>1. pc \in Reading /\ YieldErrorAndReturn /\ Forget
      /\ UNCHANGED <<omit, stopped, eof, record, client, gone>>
  BY DEF Malformed, ReadError, captureVars, clientVars, Reading
<1>2. capture' \in [protocol : BOOLEAN, readError : BOOLEAN]
  BY DEF ResponsesInv, RecordInv, Malformed, ReadError, captureVars
<1> QED BY <1>1, <1>2, FailStep

LEMMA FinishStep ==
    ASSUME ResponsesInv, Finish
    PROVE  ResponsesInv'
<1> DEFINE message == Message(agg, omit')
           ok == message.ok /\ (prog.started => Continues(prog, message.content))
           frames == LastFrames(ok, message, omit')
<1>1. /\ pc = "finish" /\ omit' \in BOOLEAN
      /\ capture' = [capture EXCEPT !.protocol = ok]
      /\ record' = IF ShouldMarkComplete THEN Recorded(TRUE, capture') ELSE record
      /\ out' = frames /\ next' = "end" /\ pc' \in {"end", "yield"}
      /\ UNCHANGED <<stopped, eof, agg, prog, truth, honest, client, gone>>
  BY DEF Finish, Yield, converterVars, upstreamVars, clientVars
<1>2. /\ Begun(client, prog) /\ TypeInv /\ (honest => Faithful) /\ client \in Clients
      /\ capture \in [protocol : BOOLEAN, readError : BOOLEAN]
  BY <1>1 DEF ResponsesInv, FlowInv, RecordInv, TypeInv, Reading
<1>3. ok \in BOOLEAN
  <2>1. message.ok \in BOOLEAN
    BY DEF Message
  <2>2. Continues(prog, message.content) \in BOOLEAN
    BY DEF Continues
  <2> HIDE DEF message
  <2> QED BY <2>1, <2>2
<1>4. /\ WholeText' = WholeText /\ (CallsGood => CallsGood')
      /\ TruthType' /\ (honest' => Faithful')
  BY <1>1, <1>2, MessageKept, TruthKept, FaithfulKept DEF TypeInv
<1>5. /\ frames \in Seq(Frames)
      /\ \E d : Reaches(client, frames, d, omit') /\ (Delivered(d)' \/ GivenUp(d))
  <2>1. CASE ok
    <3>1. frames = FinishFrames(prog, message, omit')
      BY <2>1 DEF LastFrames
    <3>2. message.ok /\ (prog.started => Continues(prog, message.content))
      BY <2>1
    <3> HIDE DEF frames
    <3>3. PICK got, tools : Fulfils(FinishFrames(prog, message, omit'), got, tools, omit')
      BY <1>1, <1>2, <3>2, FinishGood
    <3>4. PICK d : Reaches(client, frames, d, omit') /\ Arrived(d, got, tools)
      BY <3>1, <3>3 DEF Fulfils, Ends
    <3>5. frames \in Seq(Frames)
      BY <3>1, <3>3 DEF Fulfils, Ends
    <3>6. /\ d.stage = "stopped" /\ (honest => d.got = WholeText) /\ (d.tooled => CallsGood)
      BY <3>3, <3>4 DEF Arrived, Fulfils
    <3>7. capture'.protocol
      BY <1>1, <1>2, <2>1
    <3> HIDE DEF ok, message
    <3>8. Delivered(d)'
      BY <1>1, <1>4, <3>6, <3>7 DEF Delivered
    <3> QED BY <3>4, <3>5, <3>8
  <2>2. CASE ~ok
    <3>1. frames = <<ErrorFrame>>
      BY <2>2 DEF LastFrames
    <3> HIDE DEF frames, ok, message
    <3> QED BY <1>1, <1>2, <3>1, ErrorReaches
  <2> QED BY <2>1, <2>2
<1> HIDE DEF frames
<1>6. TypeInv'
  BY <1>1, <1>2, <1>4, <1>5 DEF TypeInv, Waiting
<1>7. FlowInv'
  <2>1. pc' \notin Reading /\ next' = "end"
    BY <1>1 DEF Reading
  <2>2. \E d : Reaches(client', out', d, omit') /\ (Delivered(d)' \/ GivenUp(d)')
    BY <1>1, <1>5 DEF GivenUp
  <2> QED BY <2>1, <2>2 DEF FlowInv
<1>8. RecordInv'
  <2>1. stopped \in BOOLEAN /\ eof \in BOOLEAN /\ stopped = ~eof /\ record = NoRecord /\ ~capture.readError
    BY <1>1 DEF ResponsesInv, RecordInv, Reading
  <2>2. capture' \in [protocol : BOOLEAN, readError : BOOLEAN] /\ ~capture'.readError
    <3> HIDE DEF ok
    <3> QED BY <1>1, <1>2, <1>3, <2>1
  <2>3. record' = IF stopped' THEN NoRecord ELSE Recorded(TRUE, capture')
    BY <1>1, <2>1 DEF ShouldMarkComplete
  <2>4. pc' \notin Reading /\ next' = "end" /\ stopped' = ~eof' /\ stopped' \in BOOLEAN /\ eof' \in BOOLEAN
    BY <1>1, <2>1 DEF Reading
  <2> QED BY <2>2, <2>3, <2>4 DEF RecordInv, Reading
<1>9. ClosedInv'
  BY <1>1 DEF ClosedInv
<1> QED BY <1>4, <1>6, <1>7, <1>8, <1>9 DEF ResponsesInv

LEMMA ReceiveStep ==
    ASSUME ResponsesInv, Receive
    PROVE  ResponsesInv'
<1>1. /\ pc \in Waiting /\ pc' = "suspended" /\ out # <<>>
      /\ client' = Shown(client, Head(out), omit) /\ out' = Tail(out)
      /\ UNCHANGED <<next, omit, stopped, eof, gone, agg, prog, truth, honest, capture, record>>
  BY DEF Receive, Waiting, converterVars, upstreamVars, captureVars
<1>2. client \in Clients /\ out \in Seq(Frames) /\ omit \in BOOLEAN
  BY DEF ResponsesInv, TypeInv
<1>3. ASSUME NEW d, Reaches(client, out, d, omit)
      PROVE  client' \in Clients /\ Reaches(client', out', d, omit')
  BY <1>1, <1>2, <1>3, ReachTake
<1>4. client' \in Clients
  BY <1>1, <1>3 DEF ResponsesInv, FlowInv
<1>5. out' \in Seq(Frames)
  BY <1>1, <1>2
<1>6. TypeInv'
  BY <1>1, <1>4, <1>5, TruthKept DEF ResponsesInv, TypeInv, Waiting
<1>7. honest' => Faithful'
  BY <1>1, FaithfulKept DEF ResponsesInv
<1>8. FlowInv'
  <2>1. \A d : Begun(d, prog)' <=> Begun(d, prog)
    BY <1>1
  <2>2. \A d : Delivered(d) => Delivered(d)'
    BY <1>1, MessageKept DEF Delivered
  <2>3. \A d : GivenUp(d)' <=> GivenUp(d)
    BY DEF GivenUp
  <2>4. \/ /\ next \in {"chunk", "finish"}
           /\ \E d : Reaches(client, out, d, omit) /\ Begun(d, prog)
        \/ /\ next = "closed"
           /\ \E d : Reaches(client, out, d, omit) /\ GivenUp(d)
        \/ /\ next = "end"
           /\ \E d : Reaches(client, out, d, omit) /\ (Delivered(d) \/ GivenUp(d))
    BY <1>1 DEF ResponsesInv, FlowInv
  <2>5. \/ /\ next' \in {"chunk", "finish"}
           /\ \E d : Reaches(client', out', d, omit') /\ Begun(d, prog)
        \/ /\ next' = "closed"
           /\ \E d : Reaches(client', out', d, omit') /\ GivenUp(d)
        \/ /\ next' = "end"
           /\ \E d : Reaches(client', out', d, omit') /\ (Delivered(d) \/ GivenUp(d))
    BY <1>1, <1>3, <2>4
  <2>6. \/ /\ next' \in {"chunk", "finish"}
           /\ \E d : Reaches(client', out', d, omit') /\ Begun(d, prog)'
        \/ /\ next' = "closed"
           /\ \E d : Reaches(client', out', d, omit') /\ GivenUp(d)'
        \/ /\ next' = "end"
           /\ \E d : Reaches(client', out', d, omit') /\ (Delivered(d)' \/ GivenUp(d)')
    BY <2>1, <2>2, <2>3, <2>5
  <2>7. pc' \notin Reading
    BY <1>1 DEF Reading
  <2> QED BY <2>6, <2>7 DEF FlowInv
<1>9. RecordInv'
  <2>1. pc' \notin Reading /\ pc' \in Waiting
    BY <1>1 DEF Reading, Waiting
  <2> QED BY <1>1, <2>1 DEF ResponsesInv, RecordInv, Reading
<1>10. ClosedInv'
  BY <1>1 DEF ClosedInv
<1> QED BY <1>6, <1>7, <1>8, <1>9, <1>10 DEF ResponsesInv

\* The generator returns or is dropped.
LEMMA CloseStep ==
    ASSUME ResponsesInv, pc \in {"await"} \cup Waiting, Close,
           UNCHANGED <<omit, stopped, eof, capture, client>>,
           \/ UNCHANGED <<agg, prog, truth, honest>>
           \/ Forget /\ (pc \in Waiting => next # "end"),
           \/ gone'
           \/ pc \in Waiting /\ out = <<>> /\ next \in {"closed", "end"} /\ gone' = gone
    PROVE  ResponsesInv'
<1>1. /\ pc' = "closed" /\ next' = "closed" /\ out' = <<>>
      /\ record' = IF record = NoRecord THEN Recorded(FALSE, capture) ELSE record
  BY DEF Close
<1>2. /\ TypeInv /\ client \in Clients /\ omit \in BOOLEAN /\ pc # "closed"
  BY DEF ResponsesInv, TypeInv, Waiting
<1>3. /\ agg' \in Aggregators /\ prog' \in Progressives /\ TruthType' /\ honest' \in BOOLEAN
      /\ (honest' => Faithful')
  <2>1. CASE Forget
    BY <2>1, Forgotten
  <2>2. CASE UNCHANGED <<agg, prog, truth, honest>>
    BY <2>2, TruthKept, FaithfulKept DEF ResponsesInv, TypeInv
  <2> QED BY <2>1, <2>2
<1>4. TypeInv'
  BY <1>1, <1>2, <1>3, EmptySeq DEF TypeInv
<1>5. FlowInv'
  BY <1>1 DEF FlowInv, Reading, Waiting
<1>6. RecordInv'
  BY <1>1 DEF ResponsesInv, RecordInv, Reading, Waiting
<1>7. /\ client.stage = "stopped" =>
             pc \in Waiting /\ next = "end" /\ capture.protocol /\ (honest => client.got = WholeText)
      /\ client.tooled => pc \in Waiting /\ next = "end" /\ CallsGood
  BY <1>2, Seen DEF Delivered
<1>8. (client.stage = "stopped" \/ client.tooled) => UNCHANGED <<agg, truth, honest>>
  BY <1>7
<1>9. client'.stage = "stopped" /\ honest' => client'.got = WholeText'
  BY <1>7, <1>8, MessageKept
<1>10. client'.tooled => CallsGood'
  BY <1>7, <1>8, MessageKept
<1>11. NeverSilent'
  <2> SUFFICES ASSUME ~gone' PROVE client.stage \in {"stopped", "failed"}
    BY DEF NeverSilent
  <2>1. pc \in Waiting /\ out = <<>> /\ next \in {"closed", "end"}
    OBVIOUS
  <2>2. PICK d : Reaches(client, out, d, omit) /\ (Delivered(d) \/ GivenUp(d))
    BY <2>1 DEF ResponsesInv, FlowInv
  <2>3. d = client
    BY <2>1, <2>2, ReachEmpty
  <2> QED BY <2>2, <2>3 DEF Delivered, GivenUp
<1>12. CaptureTruth'
  <2>1. /\ Recorded(FALSE, capture).complete = FALSE
        /\ Recorded(FALSE, capture).protocol = capture.protocol
        /\ Recorded(FALSE, capture).cause = IF capture.readError THEN "read_error" ELSE "body_cancelled"
        /\ Recorded(TRUE, capture).complete = TRUE
        /\ Recorded(TRUE, capture).protocol = capture.protocol
        /\ Recorded(TRUE, capture).cause = "none"
    BY DEF Recorded, ResponsesInv, RecordInv
  <2>2. NoRecord.complete = FALSE
    BY DEF NoRecord
  <2>3. /\ stopped \in BOOLEAN /\ eof \in BOOLEAN
        /\ capture \in [protocol : BOOLEAN, readError : BOOLEAN]
    BY DEF ResponsesInv, RecordInv
  <2>4. CASE pc \in Waiting /\ next = "end"
    <3>1. stopped = ~eof /\ ~capture.readError
          /\ record = IF stopped THEN NoRecord ELSE Recorded(TRUE, capture)
      BY <2>4 DEF ResponsesInv, RecordInv
    <3>2. record' = IF stopped THEN Recorded(FALSE, capture) ELSE Recorded(TRUE, capture)
      BY <1>1, <2>1, <2>2, <3>1
    <3>3. /\ record'.complete = eof /\ record'.protocol = capture.protocol
          /\ record'.cause # "read_error"
      BY <2>1, <2>3, <3>1, <3>2
    <3> QED BY <1>7, <2>3, <3>1, <3>3 DEF CaptureTruth
  <2>5. CASE ~(pc \in Waiting /\ next = "end")
    <3>1. record = NoRecord
      BY <2>5 DEF ResponsesInv, RecordInv, FlowInv, Reading, Waiting
    <3>2. record' = Recorded(FALSE, capture) /\ client.stage # "stopped"
      BY <1>1, <1>7, <2>5, <3>1
    <3> QED BY <2>1, <2>3, <3>2 DEF CaptureTruth
  <2> QED BY <2>4, <2>5
<1>13. ClosedInv'
  BY <1>9, <1>10, <1>11, <1>12 DEF ClosedInv, EndsTruthfully
<1> QED BY <1>3, <1>4, <1>5, <1>6, <1>13 DEF ResponsesInv

LEMMA ResumeStep ==
    ASSUME ResponsesInv, Resume
    PROVE  ResponsesInv'
<1>1. /\ pc \in Waiting /\ out = <<>>
      /\ UNCHANGED <<omit, stopped, eof, capture, agg, prog, truth, honest, client, gone>>
  BY DEF Resume, Waiting, converterVars, upstreamVars, clientVars
<1>2. CASE next \in {"closed", "end"}
  <2>1. Close
    BY <1>2 DEF Resume
  <2> QED BY <1>1, <1>2, <2>1, CloseStep
<1>3. CASE next \notin {"closed", "end"}
  <2>1. pc' = next /\ UNCHANGED <<next, out, record>>
    BY <1>3 DEF Resume
  <2>2. next \in {"chunk", "finish"} /\ \E d : Reaches(client, out, d, omit) /\ Begun(d, prog)
    BY <1>1, <1>3 DEF ResponsesInv, FlowInv
  <2>3. Begun(client, prog)
    BY <1>1, <2>2, ReachEmpty
  <2>4. pc' \in Reading /\ pc' \notin Waiting /\ pc' \in {"chunk", "finish"}
    BY <2>1, <2>2 DEF Reading, Waiting
  <2>5. TypeInv'
    BY <1>1, <2>1, <2>4, TruthKept DEF ResponsesInv, TypeInv
  <2>6. honest' => Faithful'
    BY <1>1, FaithfulKept DEF ResponsesInv
  <2>7. FlowInv'
    BY <1>1, <2>3, <2>4 DEF FlowInv
  <2>8. RecordInv'
    BY <1>1, <2>1, <2>2, <2>4 DEF ResponsesInv, RecordInv
  <2>9. ClosedInv'
    BY <2>4 DEF ClosedInv
  <2> QED BY <2>5, <2>6, <2>7, <2>8, <2>9 DEF ResponsesInv
<1> QED BY <1>2, <1>3

LEMMA GoneStep ==
    ASSUME ResponsesInv, ClientGone
    PROVE  ResponsesInv'
<1>1. /\ pc \in {"await"} \cup Waiting /\ gone' /\ Close
      /\ UNCHANGED <<omit, stopped, eof, capture, client>>
  BY DEF ClientGone, Waiting
<1>2. \/ UNCHANGED <<agg, prog, truth, honest>>
      \/ Forget /\ (pc \in Waiting => next # "end")
  BY DEF ClientGone, converterVars, upstreamVars
<1> QED BY <1>1, <1>2, CloseStep

-----------------------------------------------------------------------------
(* The events.                                                              *)

\* The item after one more piece of the part.
MoreOf(y, i, c, kind, piece) ==
    /\ y \in Truths /\ piece \in Pieces /\ y \in RealItems
    /\ y.type = TypeOf(kind) /\ truth[i].type \in {"none", TypeOf(kind)}
    /\ y.parts = [truth[i].parts EXCEPT
                     ![c] = [kind |-> kind, text |-> Append(truth[i].parts[c].text, piece)]]
    /\ y.parts[c].text = Append(truth[i].parts[c].text, piece)
    /\ y.parts[c].kind = kind
    /\ Last(y.parts[c].text) = piece
    /\ y.parts[c].text # <<>>

LEMMA NatureIs ==
    ASSUME TruthType, NEW i \in Slots, NEW type \in ItemTypes, NEW x \in Nature(i, type),
           truth[i].type \in {"none", type}
    PROVE  x \in RealItems /\ x.type = type /\ x.parts = truth[i].parts /\ x \in Truths
<1>1. truth[i] \in Items /\ Tidy(truth[i])
  BY DEF TruthType, Truths
<1>2. CASE truth[i].type # "none"
  <2>1. x = truth[i] /\ x.type = type
    BY <1>2 DEF Nature
  <2>2. x \in RealItems
    BY <1>1, <1>2, <2>1, ItemParts
  <2> QED BY <1>1, <2>1, <2>2 DEF Truths
<1>3. CASE truth[i].type = "none"
  <2>1. truth[i] = NoItem
    BY <1>1, <1>3, ItemParts
  <2>2. PICK fate \in BOOLEAN : x = Fresh(type, fate)
    BY <1>3 DEF Nature
  <2> DEFINE sealed == fate /\ type = "reasoning"
             cut == fate /\ type = "function_call"
  <2>5. sealed \in BOOLEAN /\ cut \in BOOLEAN
    OBVIOUS
  <2> DEFINE parts == NoItem.parts
  <2>6. /\ x = [type |-> type, parts |-> parts, named |-> (type = "function_call"),
                sealed |-> sealed, cut |-> cut]
    BY <2>2 DEF NoItem, Fresh
  <2> HIDE DEF sealed, cut
  <2>7. parts \in [Parts -> PartTypes] /\ \A c \in Parts : parts[c] = NoPart
    BY NoItemType
  <2>8. truth[i].parts = parts
    BY <2>1
  <2> HIDE DEF parts
  <2>9. x \in RealItems /\ x.type = type /\ x.parts = parts
    BY <2>5, <2>6, <2>7 DEF RealItems
  <2>10. Tidy(x)
    BY <2>7, <2>9 DEF Tidy, NoPart
  <2> QED BY <2>8, <2>9, <2>10 DEF Truths, Items
<1> QED BY <1>2, <1>3

LEMMA OneMoreIs ==
    ASSUME TruthType, NEW i \in Slots, NEW c \in Parts, NEW kind \in Kinds,
           NEW y \in OneMore(i, c, kind)
    PROVE  \E piece : MoreOf(y, i, c, kind, piece)
<1>1. PICK x \in Nature(i, TypeOf(kind)) : y = Grown(x, i, c, kind) /\ MayBe(i, c, kind)
  BY DEF OneMore
<1>2. /\ truth[i].type \in {"none", TypeOf(kind)}
      /\ truth[i].parts[c].kind \in {"none", kind}
      /\ TypeOf(kind) # "message" => c = 0
  BY <1>1 DEF MayBe
<1>3. x \in RealItems /\ x.type = TypeOf(kind) /\ x.parts = truth[i].parts /\ x \in Items
  BY <1>1, <1>2, KindTypes, NatureIs DEF Items
<1>4. truth[i] \in Items /\ Tidy(truth[i])
  BY DEF TruthType, Truths
<1> DEFINE before == truth[i].parts[c].text
           piece == <<i, c, Len(before) + 1>>
           text == Append(before, piece)
           part == [kind |-> kind, text |-> text]
           parts == truth[i].parts
<1>5. before \in Seq(Pieces) /\ parts \in [Parts -> PartTypes]
  BY <1>4, ItemParts
<1>6. piece \in Pieces
  <2>1. Len(before) + 1 \in Nat
    BY <1>5
  <2> QED BY <2>1 DEF Pieces
<1>7. y = WithText(x, c, kind, text)
  BY <1>1, <1>3 DEF Grown
<1> HIDE DEF piece
<1>8. text \in Seq(Pieces) /\ Last(text) = piece /\ text # <<>>
  <2>1. text \in Seq(Pieces) /\ text # <<>> /\ Len(text) = Len(before) + 1 /\ text[Len(before) + 1] = piece
    BY <1>5, <1>6
  <2> HIDE DEF text
  <2> QED BY <2>1 DEF Last
<1> HIDE DEF text
<1>9. /\ y \in RealItems /\ y.type = TypeOf(kind) /\ y.parts = [parts EXCEPT ![c] = part]
  BY <1>3, <1>7, <1>8, WithTextType
<1>10. y.parts[c] = part /\ \A e \in Parts : e # c => y.parts[e] = parts[e]
  BY <1>5, <1>9
<1>11. Tidy(y)
  <2> SUFFICES ASSUME NEW e \in Parts
               PROVE  /\ y.parts[e].kind = "none" => y.parts[e].text = <<>>
                      /\ y.parts[e].kind # "none" => y.type = TypeOf(y.parts[e].kind)
                      /\ y.type # "message" /\ e # 0 => y.parts[e].kind = "none"
    BY DEF Tidy
  <2>1. CASE e = c
    <3>1. y.parts[e].kind = kind /\ kind # "none"
      BY <1>10, <2>1, KindTypes
    <3> QED BY <1>2, <1>9, <2>1, <3>1
  <2>2. CASE e # c
    <3>1. y.parts[e] = truth[i].parts[e]
      BY <1>10, <2>2
    <3>2. /\ truth[i].parts[e].kind = "none" => truth[i].parts[e].text = <<>>
          /\ truth[i].parts[e].kind # "none" => truth[i].type = TypeOf(truth[i].parts[e].kind)
          /\ truth[i].type # "message" /\ e # 0 => truth[i].parts[e].kind = "none"
      BY <1>4 DEF Tidy
    <3>3. truth[i].parts[e].kind # "none" => TypeOf(truth[i].parts[e].kind) \in ItemTypes
      BY <1>4, ItemParts, KindTypes
    <3>4. truth[i].parts[e].kind # "none" => truth[i].type = TypeOf(kind)
      BY <1>2, <3>2, <3>3 DEF ItemTypes
    <3> QED BY <1>2, <1>9, <3>1, <3>2, <3>4
  <2> QED BY <2>1, <2>2
<1>12. MoreOf(y, i, c, kind, piece)
  <2>1. part.text = text /\ part.kind = kind
    OBVIOUS
  <2>2. y \in Truths
    BY <1>9, <1>11 DEF Truths, Items
  <2>3. part = [kind |-> kind, text |-> Append(truth[i].parts[c].text, piece)]
        /\ text = Append(truth[i].parts[c].text, piece)
    BY DEF text
  <2> HIDE DEF part
  <2> QED BY <1>2, <1>6, <1>8, <1>9, <1>10, <2>1, <2>2, <2>3 DEF MoreOf
<1> QED BY <1>12

LEMMA TruthWith ==
    ASSUME TruthType, NEW i \in Slots, NEW y \in Truths
    PROVE  [truth EXCEPT ![i] = y] \in [Slots -> Truths]
  BY DEF TruthType

\* The state after an event that changes one item.
Changes(i, x, y) ==
    /\ agg'.items = [agg.items EXCEPT ![i] = x]
    /\ agg'.terminal = agg.terminal
    /\ agg.final \subseteq agg'.final
    /\ truth' = [truth EXCEPT ![i] = y]

LEMMA ChangedFaithful ==
    ASSUME TypeInv, Faithful, agg.terminal = NoTerminal, NEW i \in Slots, NEW x, NEW y,
           Changes(i, x, y), Alike(x, y), Forwarded'
    PROVE  Faithful'
<1>1. \A j \in Slots : Alike(agg'.items[j], truth'[j])
  <2> SUFFICES ASSUME NEW j \in Slots PROVE Alike(agg'.items[j], truth'[j])
    OBVIOUS
  <2>1. agg.items \in [Slots -> Items] /\ truth \in [Slots -> Truths]
    BY DEF TypeInv, Aggregators, TruthType
  <2>2. CASE j = i
    BY <2>1, <2>2 DEF Changes
  <2>3. CASE j # i
    <3>1. agg'.items[j] = agg.items[j] /\ truth'[j] = truth[j]
      BY <2>1, <2>3 DEF Changes
    <3> QED BY <3>1 DEF Faithful
  <2> QED BY <2>2, <2>3
<1>2. agg'.terminal.status = "none"
  BY DEF Changes, NoTerminal
<1>3. \A j \in Slots : Alike(agg.items[j], truth[j])'
  BY <1>1
<1>4. (agg.terminal.status # "none" => \E n : Used(n) /\ Told(agg.terminal.output, n))'
  BY <1>2
<1> QED BY <1>3, <1>4 DEF Faithful

\* Nothing is forwarded, and the first part is as it was.
LEMMA ForwardedKept ==
    ASSUME TypeInv, Forwarded, NEW i \in Slots, NEW x, NEW y, Changes(i, x, y),
           Stays(prog, prog'),
           i = 0 => /\ y.parts[0] = truth[0].parts[0]
                    /\ truth[0].type = "message" => y.type = "message"
    PROVE  Forwarded'
<1>1. truth \in [Slots -> Truths] /\ 0 \in Slots
  BY SlotAssumption DEF TypeInv, TruthType, Slots
<1>2. truth'[0].parts[0] = truth[0].parts[0]
      /\ (truth[0].type = "message" => truth'[0].type = "message")
  <2>1. CASE i = 0
    BY <1>1, <2>1 DEF Changes
  <2>2. CASE i # 0
    BY <1>1, <2>2 DEF Changes
  <2> QED BY <2>1, <2>2
<1>3. prog'.started = prog.started /\ prog'.emitted = prog.emitted /\ (prog.blocked => prog'.blocked)
  BY DEF Stays
<1>4. prog'.blocked \in BOOLEAN /\ prog.blocked \in BOOLEAN
  BY DEF Stays, TypeInv, Progressives
<1>5. Final(agg, 0, 0) => Final(agg', 0, 0)
  BY DEF Changes, Final
<1> QED BY <1>2, <1>3, <1>4, <1>5 DEF Forwarded

\* The first part grows by a piece that is not forwarded.
LEMMA ForwardedLess ==
    ASSUME TypeInv, Forwarded, NEW x, NEW y, NEW kind \in Kinds, NEW piece,
           Changes(0, x, y), Stays(prog, prog'), MoreOf(y, 0, 0, kind, piece),
           prog'.blocked \/ Final(agg', 0, 0)
    PROVE  Forwarded'
<1>1. truth \in [Slots -> Truths] /\ 0 \in Slots /\ 0 \in Parts
  BY SlotAssumption DEF TypeInv, TruthType, Slots, Parts
<1>2. truth'[0] = y
  BY <1>1 DEF Changes
<1>3. truth[0].parts[0].text \in Seq(Pieces) /\ prog.emitted \in Seq(Pieces)
  <2>1. truth[0] \in Items
    BY <1>1 DEF Truths
  <2> QED BY <1>1, <2>1, ItemParts DEF TypeInv, Progressives
<1>4. /\ piece \in Pieces /\ y.type = TypeOf(kind) /\ truth[0].type \in {"none", TypeOf(kind)}
      /\ y.parts[0].text = Append(truth[0].parts[0].text, piece) /\ y.parts[0].kind # "none"
  BY KindTypes DEF MoreOf
<1> DEFINE s == truth[0].parts[0].text
           t == y.parts[0].text
<1>5. IsPrefix(prog.emitted, s) => IsPrefix(prog.emitted, t)
  <2>1. s \in Seq(Pieces) /\ t = Append(s, piece) /\ <<piece>> \in Seq(Pieces)
    BY <1>3, <1>4
  <2> HIDE DEF s, t
  <2>2. t = s \o <<piece>> /\ t \in Seq(Pieces)
    BY <1>4, <2>1
  <2>3. IsPrefix(s, t)
    BY <2>1, <2>2, PrefixConcat
  <2> QED BY <1>3, <2>1, <2>2, <2>3, PrefixChain
<1>6. prog'.started = prog.started /\ prog'.emitted = prog.emitted
  BY DEF Stays
<1>7. prog.started => y.type = "message"
  BY <1>4 DEF Forwarded
<1> QED BY <1>2, <1>4, <1>5, <1>6, <1>7 DEF Forwarded

\* The first part grows by a piece that is forwarded.
LEMMA ForwardedOn ==
    ASSUME TypeInv, Forwarded, NEW x, NEW y, NEW kind \in Kinds, NEW piece,
           Changes(0, x, y), MoreOf(y, 0, 0, kind, piece), TypeOf(kind) = "message",
           ~prog.blocked, ~Final(agg, 0, 0), prog'.emitted = Append(prog.emitted, piece)
    PROVE  Forwarded'
<1>1. truth \in [Slots -> Truths] /\ 0 \in Slots /\ 0 \in Parts
  BY SlotAssumption DEF TypeInv, TruthType, Slots, Parts
<1>2. truth'[0] = y
  BY <1>1 DEF Changes
<1>3. y.type = "message" /\ y.parts[0].kind # "none"
  BY KindTypes DEF MoreOf
<1>4. prog'.emitted = y.parts[0].text
  BY DEF Forwarded, MoreOf
<1>5. y.parts[0].text \in Seq(Pieces)
  BY <1>1, ItemParts DEF MoreOf, Truths
<1>6. IsPrefix(prog'.emitted, y.parts[0].text)
  BY <1>4, <1>5, PrefixSelf
<1> QED BY <1>2, <1>3, <1>4, <1>6 DEF Forwarded

LEMMA StaysCleared ==
    ASSUME NEW p, NEW q, Stays(p, q)
    PROVE  [q EXCEPT !.frames = <<>>] = q
<1>1. q \in Progressives
  BY DEF Stays
<1> QED BY <1>1 DEF Progressives

LEMMA GrownAlike ==
    ASSUME TypeInv, NEW i \in Slots, NEW c \in Parts, NEW kind \in Kinds, NEW piece, NEW y,
           Alike(agg.items[i], truth[i]), MoreOf(y, i, c, kind, piece)
    PROVE  /\ Append(agg.items[i].parts[c].text, piece) = y.parts[c].text
           /\ Alike(WithText(agg.items[i], c, kind, y.parts[c].text), y)
<1>1. agg.items[i] \in Items /\ agg.items[i].parts = truth[i].parts
  BY DEF TypeInv, Aggregators, Alike
<1>2. y.parts[c].text = Append(truth[i].parts[c].text, piece) /\ y.type = TypeOf(kind)
  BY DEF MoreOf
<1>3. y.parts[c].text \in Seq(Pieces)
  BY ItemParts DEF MoreOf, Truths
<1> DEFINE text == y.parts[c].text
<1>4. y.parts = [truth[i].parts EXCEPT ![c] = [kind |-> kind, text |-> text]]
  BY <1>2 DEF MoreOf
<1>5. text \in Seq(Pieces)
  BY <1>3
<1> DEFINE before == agg.items[i]
<1> HIDE DEF text, before
<1>6. /\ WithText(before, c, kind, text).type = TypeOf(kind)
      /\ WithText(before, c, kind, text).parts
             = [before.parts EXCEPT ![c] = [kind |-> kind, text |-> text]]
  <2>1. before \in Items
    BY <1>1 DEF before
  <2> QED BY <1>5, <2>1, WithTextType
<1>7. Alike(WithText(agg.items[i], c, kind, text), y)
  BY <1>1, <1>2, <1>4, <1>6 DEF Alike, before
<1> QED BY <1>1, <1>2, <1>7 DEF text

\* Nothing but a terminal event is taken from an upstream that contradicted itself.
LEMMA ProducingIs ==
    ASSUME ResponsesInv, Producing
    PROVE  /\ pc \in {"chunk", "tail"} /\ pc \in Reading /\ agg.terminal = NoTerminal /\ honest
           /\ TypeInv /\ Faithful /\ Forwarded /\ Begun(client, prog)
           /\ agg \in Aggregators /\ prog \in Progressives /\ TruthType
  BY DEF ResponsesInv, Producing, Open, Reading, Faithful, FlowInv, TypeInv

LEMMA ItemStep ==
    ASSUME ResponsesInv, Producing, NEW i \in Slots, NEW y \in Truths,
           NEW a, NEW p, NEW produced, produced = [truth EXCEPT ![i] = y], NEW still \in BOOLEAN,
           Process(a, p, produced, still),
           ~a.failed => /\ a \in Aggregators /\ Advances(client, p, omit)
                        /\ still => \E x : Alike(x, y) /\ Changes(i, x, y) /\ Forwarded'
    PROVE  ResponsesInv'
<1>1. produced \in [Slots -> Truths]
  BY ProducingIs, TruthWith
<1>2. ~a.failed /\ still => Faithful'
  BY ProducingIs, ChangedFaithful
<1>3. ~a.failed => Taken(a, p, produced, still) /\ (still => Faithful')
  BY <1>1, <1>2 DEF Taken
<1> QED BY <1>3, ProducingIs, ProcessNext

LEMMA ProcessTaken ==
    ASSUME NEW a, NEW p, NEW produced, NEW still, Process(a, p, produced, still), ~a.failed
    PROVE  agg' = a /\ prog' = [p EXCEPT !.frames = <<>>] /\ truth' = produced
  BY DEF Process

LEMMA DeltaStep ==
    ASSUME ResponsesInv, NEW i \in Slots, NEW c \in Parts, NEW kind \in Kinds, Delta(i, c, kind)
    PROVE  ResponsesInv'
<1>1. Producing
  BY DEF Delta
<1>2. PICK y \in OneMore(i, c, kind) :
          LET piece == Last(y.parts[c].text)
          IN  Process(AddDelta(agg, i, c, kind, piece), Sees(i, c, kind, piece),
                      [truth EXCEPT ![i] = y], ~Final(agg, i, c))
  BY DEF Delta
<1>3. PICK piece : MoreOf(y, i, c, kind, piece)
  BY <1>1, ProducingIs, OneMoreIs
<1>4. Last(y.parts[c].text) = piece /\ piece \in Pieces /\ y \in Truths
  BY <1>3 DEF MoreOf
<1> DEFINE a == AddDelta(agg, i, c, kind, piece)
           p == Sees(i, c, kind, piece)
           produced == [truth EXCEPT ![i] = y]
           still == ~Final(agg, i, c)
<1>5. Process(a, p, produced, still)
  BY <1>2, <1>4
<1>6. /\ a \in Aggregators /\ a.terminal = agg.terminal /\ a.final = agg.final
      /\ still => a.items = [agg.items EXCEPT
                                ![i] = WithText(agg.items[i], c, kind,
                                                Append(agg.items[i].parts[c].text, piece))]
  BY <1>1, <1>4, ProducingIs, AddDeltaType
<1>7. still \in BOOLEAN
  OBVIOUS
<1> DEFINE forwards == TypeOf(kind) = "message" /\ FirstPart(i, c) /\ ~prog.blocked
<1>8. /\ TypeOf(kind) = "message" => p = SeesText(prog, i, c, piece)
      /\ TypeOf(kind) # "message" => p = SeesType(prog, TypeOf(kind))
  BY DEF Sees
<1>9. /\ ~forwards => Stays(prog, p)
      /\ forwards => /\ Advances(client, p, omit) /\ p.emitted = Append(prog.emitted, piece)
  <2>1. omit \in BOOLEAN /\ client \in Clients
    BY DEF ResponsesInv, TypeInv
  <2>2. forwards => Advances(client, p, omit) /\ p.emitted = Append(prog.emitted, piece)
    BY <1>1, <1>4, <1>8, <2>1, ProducingIs, SeesTextSends
  <2>3. TypeOf(kind) # "message" => Stays(prog, p)
    BY <1>1, <1>8, ProducingIs, SeesTypeStays
  <2>4. TypeOf(kind) = "message" /\ ~forwards => Stays(prog, p)
    BY <1>1, <1>8, ProducingIs, SeesTextStays
  <2> QED BY <2>2, <2>3, <2>4
<1>10. Advances(client, p, omit)
  BY <1>1, <1>9, ProducingIs, StaysAdvances
<1>11. ~a.failed /\ still => \E x : Alike(x, y) /\ Changes(i, x, y) /\ Forwarded'
  <2> SUFFICES ASSUME ~a.failed, still
               PROVE  \E x : Alike(x, y) /\ Changes(i, x, y) /\ Forwarded'
    OBVIOUS
  <2>1. agg' = a /\ prog' = [p EXCEPT !.frames = <<>>] /\ truth' = produced
    <3> HIDE DEF a, p, produced, still
    <3> QED BY <1>5, ProcessTaken
  <2> DEFINE x == WithText(agg.items[i], c, kind, y.parts[c].text)
  <2>2. Alike(agg.items[i], truth[i])
    BY <1>1, ProducingIs DEF Faithful
  <2>3. Append(agg.items[i].parts[c].text, piece) = y.parts[c].text /\ Alike(x, y)
    BY <1>1, <1>3, <2>2, ProducingIs, GrownAlike
  <2>4. Changes(i, x, y)
    <3>1. a.items = [agg.items EXCEPT ![i] = x]
      BY <1>6, <2>3
    <3> HIDE DEF a, x
    <3> QED BY <1>6, <2>1, <3>1 DEF Changes
  <2> HIDE DEF a, p, produced, x
  <2>5. Forwarded'
    <3>1. CASE forwards
      <4>1. i = 0 /\ c = 0 /\ ~prog.blocked /\ TypeOf(kind) = "message"
        BY <3>1 DEF FirstPart
      <4>2. prog'.emitted = Append(prog.emitted, piece)
        <5>1. [p EXCEPT !.frames = <<>>] \in Progressives
          BY <1>10 DEF Advances
        <5>2. [p EXCEPT !.frames = <<>>].emitted = p.emitted
          OBVIOUS
        <5> QED BY <1>9, <2>1, <3>1, <5>2
      <4>3. Changes(0, x, y) /\ MoreOf(y, 0, 0, kind, piece) /\ ~Final(agg, 0, 0)
        BY <1>3, <2>4, <4>1
      <4> QED BY <1>1, <4>1, <4>2, <4>3, ProducingIs, ForwardedOn
    <3>2. CASE ~forwards
      <4>1. Stays(prog, prog')
        BY <1>9, <2>1, <3>2, StaysCleared
      <4>2. CASE i # 0 \/ c # 0
        <5>1. i = 0 => y.parts[0] = truth[0].parts[0]
          BY <1>1, <1>3, <4>2, ItemParts, ProducingIs, SlotAssumption
             DEF MoreOf, TruthType, Truths, Parts
        <5>2. i = 0 => (truth[0].type = "message" => y.type = "message")
          BY <1>3 DEF MoreOf
        <5> QED BY <1>1, <2>4, <4>1, <5>1, <5>2, ProducingIs, ForwardedKept
      <4>3. CASE i = 0 /\ c = 0
        <5>1. prog'.blocked
          <6>1. CASE TypeOf(kind) = "message"
            <7>1. prog.blocked
              BY <3>2, <4>3, <6>1 DEF FirstPart
            <7> QED BY <4>1, <7>1 DEF Stays
          <6>2. CASE TypeOf(kind) # "message"
            <7>1. ~prog.started
              BY <1>1, <1>3, <4>3, <6>2, ProducingIs DEF Forwarded, MoreOf
            <7>2. p.blocked
              BY <1>1, <1>8, <6>2, <7>1, ProducingIs, SeesTypeStays
            <7> QED BY <1>9, <2>1, <3>2, <7>2, StaysCleared
          <6> QED BY <6>1, <6>2
        <5>2. Changes(0, x, y) /\ MoreOf(y, 0, 0, kind, piece)
          BY <1>3, <2>4, <4>3
        <5> QED BY <1>1, <4>1, <5>1, <5>2, ProducingIs, ForwardedLess
      <4> QED BY <4>2, <4>3
    <3> QED BY <3>1, <3>2
  <2> QED BY <2>3, <2>4, <2>5 DEF x
<1> HIDE DEF a, p, produced, still
<1>12. ~a.failed => /\ a \in Aggregators /\ Advances(client, p, omit)
                    /\ still => \E x : Alike(x, y) /\ Changes(i, x, y) /\ Forwarded'
  BY <1>6, <1>10, <1>11
<1>13. produced = [truth EXCEPT ![i] = y]
  BY DEF produced
<1> QED BY <1>1, <1>4, <1>5, <1>7, <1>12, <1>13, ItemStep

\* A snapshot tells of a piece; the text that is forwarded cannot follow it.
LEMMA SnapshotForwarded ==
    ASSUME ResponsesInv, Producing, NEW i \in Slots, NEW c \in Parts, NEW kind \in Kinds,
           NEW piece, NEW x, NEW y, MoreOf(y, i, c, kind, piece), Changes(i, x, y),
           prog' = SeesType(prog, TypeOf(kind)), kind # "arguments" => Final(agg', i, c)
    PROVE  Forwarded'
<1>1. Stays(prog, prog')
  BY ProducingIs, SeesTypeStays
<1>2. CASE i # 0 \/ c # 0
  <2>1. i = 0 => y.parts[0] = truth[0].parts[0]
    BY <1>2, ItemParts, ProducingIs, SlotAssumption DEF MoreOf, TruthType, Truths, Parts
  <2>2. i = 0 => (truth[0].type = "message" => y.type = "message")
    BY DEF MoreOf
  <2> QED BY <1>1, <2>1, <2>2, ProducingIs, ForwardedKept
<1>3. CASE i = 0 /\ c = 0
  <2>1. kind = "arguments" => prog'.blocked
    <3> SUFFICES ASSUME kind = "arguments" PROVE prog'.blocked
      OBVIOUS
    <3>1. TypeOf(kind) = "function_call"
      BY DEF TypeOf
    <3>2. ~prog.started
      BY <1>3, <3>1, ProducingIs DEF Forwarded, MoreOf
    <3> QED BY <3>1, <3>2, ProducingIs, SeesTypeStays
  <2>2. Changes(0, x, y) /\ MoreOf(y, 0, 0, kind, piece) /\ (prog'.blocked \/ Final(agg', 0, 0))
    BY <1>3, <2>1
  <2> QED BY <1>1, <2>2, ProducingIs, ForwardedLess
<1> QED BY <1>2, <1>3

LEMMA WrongType ==
    ASSUME NEW i \in Slots, NEW c \in Parts
    PROVE  Wrong(i, c) \in Seq(Pieces)
<1>1. <<i, c, 0>> \in Pieces
  BY DEF Pieces
<1> DEFINE piece == <<i, c, 0>>
<1> HIDE DEF piece
<1>2. <<piece>> \in Seq(Pieces)
  BY <1>1 DEF piece
<1> QED BY <1>2 DEF Wrong, piece

LEMMA SeenType ==
    ASSUME ResponsesInv, Producing, NEW type
    PROVE  /\ Stays(prog, SeesType(prog, type)) /\ Advances(client, SeesType(prog, type), omit)
           /\ [SeesType(prog, type) EXCEPT !.frames = <<>>] = SeesType(prog, type)
<1>1. Stays(prog, SeesType(prog, type))
  BY ProducingIs, SeesTypeStays
<1> QED BY <1>1, ProducingIs, StaysAdvances, StaysCleared

LEMMA TruthOf ==
    ASSUME ResponsesInv, Producing, NEW i \in Slots
    PROVE  /\ truth = [truth EXCEPT ![i] = truth[i]] /\ truth[i] \in Truths /\ truth[i] \in Items
           /\ Tidy(truth[i]) /\ Alike(agg.items[i], truth[i]) /\ agg.items[i] \in Items
<1>1. truth \in [Slots -> Truths] /\ agg.items \in [Slots -> Items]
  BY ProducingIs DEF TruthType, Aggregators
<1>2. \A j \in Slots : Alike(agg.items[j], truth[j])
  BY ProducingIs DEF Faithful
<1> QED BY <1>1, <1>2 DEF Truths

LEMMA PartDoneStep ==
    ASSUME ResponsesInv, NEW i \in Slots, NEW c \in Parts, NEW kind \in Kinds,
           PartDone(i, c, kind)
    PROVE  ResponsesInv'
<1>1. Producing
  BY DEF PartDone
<1> DEFINE p == SeesType(prog, TypeOf(kind))
           told(y, text, produced, still) ==
               /\ y \in Truths /\ text \in Seq(Pieces) /\ still \in BOOLEAN
               /\ produced = [truth EXCEPT ![i] = y]
               /\ Process(AddDone(agg, i, c, kind, text), p, produced, still)
               /\ still => Alike(WithText(agg.items[i], c, kind, text), y)
               /\ \/ y = truth[i]
                  \/ \E piece : MoreOf(y, i, c, kind, piece)
<1>2. \E y, text, produced, still : told(y, text, produced, still)
  <2>1. CASE truth[i].parts[c].kind = kind
              /\ \E text \in {truth[i].parts[c].text, Wrong(i, c)} :
                     Process(AddDone(agg, i, c, kind, text), p, truth, text # Wrong(i, c))
    <3>1. PICK text \in {truth[i].parts[c].text, Wrong(i, c)} :
              Process(AddDone(agg, i, c, kind, text), p, truth, text # Wrong(i, c))
      BY <2>1
    <3>2. text \in Seq(Pieces)
      BY <1>1, TruthOf, ItemParts, WrongType
    <3> DEFINE still == text # Wrong(i, c)
               before == agg.items[i]
               y == truth[i]
    <3>3. still => Alike(WithText(before, c, kind, text), y)
      <4> SUFFICES ASSUME still PROVE Alike(WithText(before, c, kind, text), y)
        OBVIOUS
      <4>1. text = y.parts[c].text /\ y.parts[c].kind = kind
        BY <2>1
      <4>2. before \in Items /\ y \in Items /\ Tidy(y) /\ Alike(before, y)
        BY <1>1, TruthOf
      <4> HIDE DEF before, y
      <4>3. /\ WithText(before, c, kind, text).type = TypeOf(kind)
            /\ WithText(before, c, kind, text).parts
                   = [before.parts EXCEPT ![c] = [kind |-> kind, text |-> text]]
        BY <3>2, <4>2, WithTextType
      <4>4. y.type = TypeOf(kind)
        BY <4>1, <4>2, KindTypes DEF Tidy
      <4>5. y.parts \in [Parts -> PartTypes] /\ before.parts = y.parts
        BY <4>2, ItemParts DEF Alike
      <4>6. y.parts[c] = [kind |-> kind, text |-> text]
        <5>1. y.parts[c] \in PartTypes
          BY <4>5
        <5> QED BY <4>1, <5>1 DEF PartTypes
      <4>7. [y.parts EXCEPT ![c] = [kind |-> kind, text |-> text]] = y.parts
        BY <4>5, <4>6
      <4> QED BY <4>3, <4>4, <4>5, <4>7 DEF Alike
    <3>4. Process(AddDone(agg, i, c, kind, text), p, truth, still)
      BY <3>1
    <3>5. still \in BOOLEAN
      OBVIOUS
    <3>6. truth = [truth EXCEPT ![i] = truth[i]] /\ truth[i] \in Truths
      BY <1>1, TruthOf
    <3> HIDE DEF p, still
    <3>7. told(truth[i], text, truth, still)
      BY <3>2, <3>3, <3>4, <3>5, <3>6
    <3> QED BY <3>7
  <2>2. CASE \E y \in OneMore(i, c, kind) :
                 Process(AddDone(agg, i, c, kind, y.parts[c].text), p,
                         [truth EXCEPT ![i] = y], ~Final(agg, i, c))
    <3>1. PICK y \in OneMore(i, c, kind) :
              Process(AddDone(agg, i, c, kind, y.parts[c].text), p,
                      [truth EXCEPT ![i] = y], ~Final(agg, i, c))
      BY <2>2
    <3>2. PICK piece : MoreOf(y, i, c, kind, piece)
      BY <1>1, ProducingIs, OneMoreIs
    <3>3. Alike(WithText(agg.items[i], c, kind, y.parts[c].text), y)
      BY <1>1, <3>2, TruthOf, ProducingIs, GrownAlike
    <3>4. y \in Truths /\ y.parts[c].text \in Seq(Pieces)
      BY <3>2, ItemParts DEF MoreOf, Truths
    <3> DEFINE still == ~Final(agg, i, c)
               text == y.parts[c].text
               produced == [truth EXCEPT ![i] = y]
    <3>5. still \in BOOLEAN /\ produced = [truth EXCEPT ![i] = y]
          /\ Process(AddDone(agg, i, c, kind, text), p, produced, still)
      BY <3>1
    <3>6. text \in Seq(Pieces) /\ Alike(WithText(agg.items[i], c, kind, text), y)
      BY <3>3, <3>4
    <3> HIDE DEF still, text, produced, p
    <3>7. told(y, text, produced, still)
      BY <3>2, <3>4, <3>5, <3>6
    <3> QED BY <3>7
  <2> QED BY <2>1, <2>2 DEF PartDone
<1>3. PICK y, text, produced, still : told(y, text, produced, still)
  BY <1>2
<1> DEFINE a == AddDone(agg, i, c, kind, text)
<1>4. Stays(prog, p) /\ Advances(client, p, omit) /\ [p EXCEPT !.frames = <<>>] = p
  BY <1>1, SeenType
<1>5. ~a.failed => /\ a \in Aggregators /\ a.terminal = agg.terminal /\ agg.final \subseteq a.final
                   /\ kind # "arguments" => Final(a, i, c)
                   /\ a.items = [agg.items EXCEPT ![i] = WithText(agg.items[i], c, kind, text)]
  BY <1>1, <1>3, ProducingIs, AddDoneType
<1> DEFINE x == WithText(agg.items[i], c, kind, text)
<1>6. /\ y \in Truths /\ still \in BOOLEAN /\ produced = [truth EXCEPT ![i] = y]
      /\ Process(a, p, produced, still)
      /\ still => Alike(x, y)
  BY <1>3
<1>7. y = truth[i] \/ \E piece : MoreOf(y, i, c, kind, piece)
  BY <1>3
<1>8. ~a.failed /\ still => Alike(x, y) /\ Changes(i, x, y) /\ Forwarded'
  <2> SUFFICES ASSUME ~a.failed, still
               PROVE  Alike(x, y) /\ Changes(i, x, y) /\ Forwarded'
    OBVIOUS
  <2> HIDE DEF told, a, p, x
  <2>1. agg' = a /\ prog' = p /\ truth' = produced
    <3>1. Process(a, p, produced, still)
      BY <1>6
    <3>2. agg' = a /\ prog' = [p EXCEPT !.frames = <<>>] /\ truth' = produced
      BY <3>1, ProcessTaken
    <3> QED BY <1>4, <3>2
  <2>2. Changes(i, x, y)
    <3>1. ~a.failed => a.items = [agg.items EXCEPT ![i] = x]
      BY <1>5 DEF x
    <3> QED BY <1>5, <1>6, <2>1, <3>1 DEF Changes
  <2>3. CASE y = truth[i]
    <3>1. i = 0 => /\ y.parts[0] = truth[0].parts[0]
                   /\ truth[0].type = "message" => y.type = "message"
      BY <2>3
    <3> QED BY <1>1, <1>4, <1>6, <2>1, <2>2, <3>1, ProducingIs, ForwardedKept
  <2>4. CASE \E piece : MoreOf(y, i, c, kind, piece)
    <3>1. PICK piece : MoreOf(y, i, c, kind, piece)
      BY <2>4
    <3>2. prog' = SeesType(prog, TypeOf(kind))
      BY <2>1 DEF p
    <3>3. kind # "arguments" => Final(agg', i, c)
      BY <1>5, <2>1
    <3> QED BY <1>1, <1>6, <2>2, <3>1, <3>2, <3>3, SnapshotForwarded
  <2> QED BY <1>7, <2>3, <2>4
<1> HIDE DEF told, a, p, x
<1>9. ~a.failed => /\ a \in Aggregators /\ Advances(client, p, omit)
                   /\ still => \E z : Alike(z, y) /\ Changes(i, z, y) /\ Forwarded'
  BY <1>4, <1>5, <1>8
<1> QED BY <1>1, <1>6, <1>9, ItemStep

LEMMA MoreMerges ==
    ASSUME NEW before \in RealItems, NEW i \in Slots, TruthType, Alike(before, truth[i]),
           NEW c \in Parts, NEW kind \in Kinds, NEW piece, NEW y, MoreOf(y, i, c, kind, piece)
    PROVE  Alike(Merge(before, y), y)
<1>1. truth[i] \in Items /\ before \in Items /\ y \in RealItems /\ y \in Items
  BY DEF TruthType, Truths, Items, MoreOf
<1> DEFINE s == truth[i].parts[c].text
<1>2. y.type = TypeOf(kind) /\ TypeOf(kind) \in ItemTypes /\ before.type \in ItemTypes
      /\ before.type = truth[i].type
  BY KindTypes DEF MoreOf, RealItems, Alike
<1>3. before.type = y.type
  BY <1>2 DEF MoreOf, ItemTypes
<1>4. /\ before.parts = truth[i].parts /\ before.parts \in [Parts -> PartTypes]
      /\ y.parts \in [Parts -> PartTypes]
  BY <1>1, ItemParts DEF Alike
<1>5. Merge(before, y).parts
          = [d \in Parts |->
                IF y.parts[d].kind = "none" THEN before.parts[d]
                ELSE [kind |-> y.parts[d].kind,
                      text |-> Longer(before.parts[d].text, y.parts[d].text)]]
  BY DEF Merge, RealItems
<1>6. ASSUME NEW d \in Parts PROVE Merge(before, y).parts[d] = y.parts[d]
  <2> DEFINE r == before.parts[d]
             q == y.parts[d]
  <2>1. r \in PartTypes /\ q \in PartTypes
    BY <1>4
  <2>2. Merge(before, y).parts[d]
            = IF q.kind = "none" THEN r ELSE [kind |-> q.kind, text |-> Longer(r.text, q.text)]
    BY <1>5
  <2>3. CASE d # c
    <3>1. q = r
      BY <1>4, <2>3 DEF MoreOf
    <3>2. Longer(r.text, q.text) = q.text
      BY <3>1 DEF Longer
    <3> HIDE DEF q, r
    <3>3. [kind |-> q.kind, text |-> q.text] = q
      BY <2>1 DEF PartTypes
    <3> QED BY <2>2, <3>1, <3>2, <3>3 DEF q
  <2>4. CASE d = c
    <3>1. r.text \in Seq(Pieces) /\ piece \in Pieces /\ q.text = Append(r.text, piece) /\ q.kind # "none"
      BY <1>1, <1>4, <2>4, ItemParts, KindTypes DEF MoreOf
    <3> HIDE DEF q, r
    <3>2. Len(q.text) > Len(r.text)
      BY <3>1
    <3>3. Longer(r.text, q.text) = q.text
      BY <3>2 DEF Longer
    <3>4. [kind |-> q.kind, text |-> q.text] = q
      BY <2>1 DEF PartTypes
    <3> QED BY <2>2, <3>1, <3>3, <3>4 DEF q
  <2> QED BY <2>3, <2>4
<1>7. Merge(before, y).parts = y.parts
  <2>1. Merge(before, y) \in RealItems
    BY <1>1, MergeType
  <2>2. Merge(before, y).parts \in [Parts -> PartTypes]
    BY <2>1 DEF RealItems
  <2> QED BY <1>4, <1>6, <2>2
<1>8. Merge(before, y).type = before.type
  BY <1>1, MergeType
<1> QED BY <1>3, <1>7, <1>8 DEF Alike

LEMMA SnapshotTypes ==
    ASSUME NEW i \in Slots, NEW x \in RealItems
    PROVE  Bare(x) \in RealItems /\ Garbled(x, i) \in RealItems
<1>2. x.type \in ItemTypes /\ x.parts \in [Parts -> PartTypes] /\ 0 \in Parts
  BY SlotAssumption DEF RealItems, Parts
<1>3. Bare(x) \in RealItems
  <2> DEFINE parts == NoItem.parts
  <2>1. parts \in [Parts -> PartTypes]
    BY NoItemType
  <2> DEFINE z == Bare(x)
  <2>2. z = Bare(x)
    OBVIOUS
  <2> HIDE DEF z
  <2>3. z = [type |-> x.type, parts |-> parts, named |-> FALSE, sealed |-> FALSE, cut |-> FALSE]
    BY <2>2 DEF Bare, NoItem
  <2> HIDE DEF parts
  <2> QED BY <1>2, <2>1, <2>2, <2>3 DEF RealItems
<1> DEFINE before == x.parts[0].kind
           kind == IF before # "none" THEN before
                   ELSE IF x.type = "message" THEN "text"
                   ELSE IF x.type = "reasoning" THEN "reasoning"
                   ELSE "arguments"
           text == Wrong(i, 0)
           part == [kind |-> kind, text |-> text]
<1>4. before \in Kinds \cup {"none"}
  <2>1. x.parts[0] \in PartTypes
    BY <1>2
  <2> QED BY <2>1 DEF PartTypes
<1>5. kind \in Kinds
  BY <1>4 DEF Kinds
<1>6. text \in Seq(Pieces)
  BY <1>2, WrongType
<1>7. Garbled(x, i) = [x EXCEPT !.parts = [x.parts EXCEPT ![0] = part]]
  <2>1. Garbled(x, i) = [x EXCEPT !.parts[0] = part]
    BY DEF Garbled
  <2>2. [x EXCEPT !.parts[0] = part] = [x EXCEPT !.parts = [x.parts EXCEPT ![0] = part]]
    BY DEF RealItems
  <2> QED BY <2>1, <2>2
<1> HIDE DEF kind, text, before
<1>8. part \in PartTypes
  BY <1>5, <1>6 DEF PartTypes
<1> HIDE DEF part
<1>9. [x.parts EXCEPT ![0] = part] \in [Parts -> PartTypes]
  BY <1>2, <1>8
<1>10. Garbled(x, i) \in RealItems
  BY <1>7, <1>9 DEF RealItems
<1> QED BY <1>3, <1>10

LEMMA ItemAddedStep ==
    ASSUME ResponsesInv, NEW i \in Slots, NEW type \in ItemTypes, ItemAdded(i, type)
    PROVE  ResponsesInv'
<1>1. Producing /\ truth[i].type = "none"
  BY DEF ItemAdded
<1> DEFINE bare(item) == [item EXCEPT !.sealed = FALSE, !.cut = FALSE]
           p == SeesType(prog, type)
<1>2. PICK y \in Nature(i, type) :
          Process(AddItem(agg, i, bare(y)), p, [truth EXCEPT ![i] = y], TRUE)
  BY DEF ItemAdded
<1>3. /\ y \in RealItems /\ y.type = type /\ y.parts = truth[i].parts /\ y \in Truths
  BY <1>1, ProducingIs, NatureIs
<1> DEFINE x == bare(y)
           a == AddItem(agg, i, x)
           produced == [truth EXCEPT ![i] = y]
<1>4. x \in RealItems /\ x.type = y.type /\ x.parts = y.parts
  BY <1>3 DEF RealItems
<1>5. agg.items[i] = NoItem
  <2>1. agg.items[i].type = "none" /\ agg.items[i] \in Items
    BY <1>1, TruthOf DEF Alike
  <2> QED BY <2>1, ItemParts
<1> HIDE DEF x
<1>6. ~a.failed => /\ a \in Aggregators /\ a.terminal = agg.terminal /\ agg.final \subseteq a.final
                   /\ a.items = [agg.items EXCEPT ![i] = x]
  BY <1>1, <1>4, <1>5, ProducingIs, AddItemType
<1>7. Stays(prog, p) /\ Advances(client, p, omit) /\ [p EXCEPT !.frames = <<>>] = p
  BY <1>1, SeenType
<1>8. Process(a, p, produced, TRUE)
  BY <1>2 DEF x
<1> HIDE DEF p, a
<1>9. ~a.failed => Alike(x, y) /\ Changes(i, x, y) /\ Forwarded'
  <2> SUFFICES ASSUME ~a.failed PROVE Alike(x, y) /\ Changes(i, x, y) /\ Forwarded'
    OBVIOUS
  <2>1. agg' = a /\ prog' = p /\ truth' = produced
    <3>1. agg' = a /\ prog' = [p EXCEPT !.frames = <<>>] /\ truth' = produced
      BY <1>8, ProcessTaken
    <3> QED BY <1>7, <3>1
  <2>2. Changes(i, x, y)
    BY <1>6, <2>1 DEF Changes
  <2>3. i = 0 => /\ y.parts[0] = truth[0].parts[0]
                 /\ truth[0].type = "message" => y.type = "message"
    BY <1>1, <1>3
  <2>4. Forwarded'
    BY <1>1, <1>7, <2>1, <2>2, <2>3, ProducingIs, ForwardedKept
  <2> QED BY <1>4, <2>2, <2>4 DEF Alike
<1>10. ~a.failed => /\ a \in Aggregators /\ Advances(client, p, omit)
                    /\ TRUE => \E z : Alike(z, y) /\ Changes(i, z, y) /\ Forwarded'
  BY <1>6, <1>7, <1>9
<1> QED BY <1>1, <1>3, <1>8, <1>10, ItemStep

\* An item that is done: what the snapshot says of it, and what it is.
ItemTold(i, y, snapshot, still) ==
    /\ y \in Truths /\ snapshot \in RealItems /\ still \in BOOLEAN
    /\ Process(AddItem(agg, i, snapshot), SeesType(prog, y.type), [truth EXCEPT ![i] = y], still)
    /\ still => \/ agg.items[i] = NoItem /\ Alike(snapshot, y)
                \/ agg.items[i] # NoItem /\ Alike(Merge(agg.items[i], snapshot), y)
    /\ \/ y = truth[i]
       \/ \E kind \in Kinds : \E piece : MoreOf(y, i, 0, kind, piece) /\ snapshot = y

LEMMA ItemDoneTells ==
    ASSUME ResponsesInv, NEW i \in Slots, ItemDone(i)
    PROVE  Producing /\ \E y, snapshot, still : ItemTold(i, y, snapshot, still)
<1>1. Producing
  BY DEF ItemDone
<1>2. CASE /\ Complete(i)
           /\ \E snapshot \in {truth[i], Bare(truth[i]), Garbled(truth[i], i)} :
                  Process(AddItem(agg, i, snapshot), SeesType(prog, truth[i].type),
                          truth, snapshot # Garbled(truth[i], i))
  <2>1. PICK snapshot \in {truth[i], Bare(truth[i]), Garbled(truth[i], i)} :
            Process(AddItem(agg, i, snapshot), SeesType(prog, truth[i].type),
                    truth, snapshot # Garbled(truth[i], i))
    BY <1>2
  <2> DEFINE y == truth[i]
             before == agg.items[i]
             still == snapshot # Garbled(y, i)
  <2>2. y \in Truths /\ y \in Items /\ truth = [truth EXCEPT ![i] = y]
        /\ Alike(before, y) /\ before \in Items
    BY <1>1, TruthOf
  <2>3. y.type # "none"
    BY <1>2 DEF Complete
  <2>4. still \in BOOLEAN /\ Process(AddItem(agg, i, snapshot), SeesType(prog, y.type), truth, still)
    BY <2>1
  <2>5. snapshot \in {y, Bare(y), Garbled(y, i)}
    BY <2>1
  <2> DEFINE produced == [truth EXCEPT ![i] = y]
  <2>6. truth = produced
    BY <2>2
  <2>7. y = truth[i]
    OBVIOUS
  <2> HIDE DEF y, produced
  <2>8. snapshot \in RealItems
    <3>1. y \in RealItems
      BY <2>2, <2>3, ItemParts
    <3> QED BY <2>5, <3>1, SnapshotTypes
  <2>9. before # NoItem
    <3>1. before.type = y.type
      BY <2>2 DEF Alike
    <3> QED BY <2>2, <2>3, <3>1, ItemParts
  <2>10. still => Alike(Merge(before, snapshot), y)
    <3> SUFFICES ASSUME still PROVE Alike(Merge(before, snapshot), y)
      OBVIOUS
    <3>1. snapshot = y \/ snapshot = Bare(y)
      BY <2>5
    <3> HIDE DEF before
    <3> QED BY <2>2, <3>1, MergeAlike
  <2>11. Process(AddItem(agg, i, snapshot), SeesType(prog, y.type), produced, still)
    BY <2>4, <2>6
  <2> HIDE DEF still
  <2>12. ItemTold(i, y, snapshot, still)
    BY <2>2, <2>4, <2>7, <2>8, <2>9, <2>10, <2>11 DEF ItemTold, produced
  <2> QED BY <1>1, <2>12
<1>3. CASE \E kind \in Kinds : \E y \in OneMore(i, 0, kind) :
               /\ Contiguous(Given(y))
               /\ Process(AddItem(agg, i, y), SeesType(prog, y.type),
                          [truth EXCEPT ![i] = y], ~Final(agg, i, 0))
  <2>1. PICK kind \in Kinds : \E y \in OneMore(i, 0, kind) :
            Process(AddItem(agg, i, y), SeesType(prog, y.type),
                    [truth EXCEPT ![i] = y], ~Final(agg, i, 0))
    BY <1>3
  <2>2. PICK y \in OneMore(i, 0, kind) :
            Process(AddItem(agg, i, y), SeesType(prog, y.type),
                    [truth EXCEPT ![i] = y], ~Final(agg, i, 0))
    BY <2>1
  <2>3. 0 \in Parts
    BY SlotAssumption DEF Parts
  <2>4. PICK piece : MoreOf(y, i, 0, kind, piece)
    BY <1>1, <2>3, ProducingIs, OneMoreIs
  <2> DEFINE before == agg.items[i]
             still == ~Final(agg, i, 0)
  <2>5. before # NoItem => Alike(Merge(before, y), y)
    <3> SUFFICES ASSUME before # NoItem PROVE Alike(Merge(before, y), y)
      OBVIOUS
    <3>1. Alike(before, truth[i]) /\ before \in RealItems
      BY <1>1, TruthOf, ItemParts
    <3> HIDE DEF before
    <3> QED BY <1>1, <2>3, <2>4, <3>1, ProducingIs, MoreMerges
  <2>6. Alike(y, y)
    BY DEF Alike
  <2>7. Process(AddItem(agg, i, y), SeesType(prog, y.type), [truth EXCEPT ![i] = y], still)
        /\ still \in BOOLEAN
    BY <2>2
  <2>8. y \in Truths /\ y \in RealItems
    BY <2>4 DEF MoreOf
  <2> HIDE DEF still
  <2>9. ItemTold(i, y, y, still)
    BY <2>4, <2>5, <2>6, <2>7, <2>8 DEF ItemTold
  <2> QED BY <1>1, <2>9
<1> QED BY <1>2, <1>3 DEF ItemDone

LEMMA ItemDoneStep ==
    ASSUME ResponsesInv, NEW i \in Slots, ItemDone(i)
    PROVE  ResponsesInv'
<1>1. Producing
  BY ItemDoneTells
<1>2. PICK y, snapshot, still : ItemTold(i, y, snapshot, still)
  BY ItemDoneTells
<1> DEFINE a == AddItem(agg, i, snapshot)
           p == SeesType(prog, y.type)
           produced == [truth EXCEPT ![i] = y]
           x == IF agg.items[i] = NoItem THEN snapshot ELSE Merge(agg.items[i], snapshot)
<1>3. /\ y \in Truths /\ snapshot \in RealItems /\ still \in BOOLEAN
      /\ Process(a, p, produced, still)
      /\ y = truth[i] \/ \E kind \in Kinds : \E piece : MoreOf(y, i, 0, kind, piece) /\ snapshot = y
  BY <1>2 DEF ItemTold
<1>4. still => Alike(x, y)
  BY <1>2 DEF ItemTold
<1>5. ~a.failed => /\ a \in Aggregators /\ a.terminal = agg.terminal /\ agg.final \subseteq a.final
                   /\ \A c \in Parts : /\ snapshot.parts[c].kind \in Kinds \ {"arguments"}
                                       /\ snapshot.parts[c].text # <<>>
                                       => Final(a, i, c)
                   /\ a.items = [agg.items EXCEPT ![i] = x]
  BY <1>1, <1>3, ProducingIs, AddItemType
<1>6. Stays(prog, p) /\ Advances(client, p, omit) /\ [p EXCEPT !.frames = <<>>] = p
  BY <1>1, SeenType
<1>7. p = SeesType(prog, y.type) /\ produced = [truth EXCEPT ![i] = y]
  OBVIOUS
<1> HIDE DEF a, p, x, produced
<1>8. ~a.failed /\ still => Alike(x, y) /\ Changes(i, x, y) /\ Forwarded'
  <2> SUFFICES ASSUME ~a.failed, still
               PROVE  Alike(x, y) /\ Changes(i, x, y) /\ Forwarded'
    OBVIOUS
  <2>1. agg' = a /\ prog' = p /\ truth' = produced
    <3>1. Process(a, p, produced, still)
      BY <1>3
    <3>2. agg' = a /\ prog' = [p EXCEPT !.frames = <<>>] /\ truth' = produced
      BY <3>1, ProcessTaken
    <3> QED BY <1>6, <3>2
  <2>2. Changes(i, x, y)
    BY <1>5, <1>7, <2>1 DEF Changes
  <2>3. CASE y = truth[i]
    <3>1. i = 0 => /\ y.parts[0] = truth[0].parts[0]
                   /\ truth[0].type = "message" => y.type = "message"
      BY <2>3
    <3> QED BY <1>1, <1>3, <1>4, <1>6, <2>1, <2>2, <3>1, ProducingIs, ForwardedKept
  <2>4. CASE \E kind \in Kinds : \E piece : MoreOf(y, i, 0, kind, piece) /\ snapshot = y
    <3>0. PICK kind \in Kinds : \E piece : MoreOf(y, i, 0, kind, piece) /\ snapshot = y
      BY <2>4
    <3>1. PICK piece : MoreOf(y, i, 0, kind, piece) /\ snapshot = y
      BY <3>0
    <3>2. y.type = TypeOf(kind) /\ y.parts[0].kind = kind /\ y.parts[0].text # <<>>
      BY <3>1 DEF MoreOf
    <3>3. prog' = SeesType(prog, TypeOf(kind))
      BY <1>7, <2>1, <3>2
    <3>4. 0 \in Parts
      BY SlotAssumption DEF Parts
    <3>5. kind # "arguments" => Final(agg', i, 0)
      BY <1>5, <2>1, <3>1, <3>2, <3>4
    <3> QED BY <1>1, <1>4, <2>2, <3>1, <3>3, <3>4, <3>5, SnapshotForwarded
  <2> QED BY <1>3, <2>3, <2>4
<1>9. ~a.failed => /\ a \in Aggregators /\ Advances(client, p, omit)
                   /\ still => \E z : Alike(z, y) /\ Changes(i, z, y) /\ Forwarded'
  BY <1>5, <1>6, <1>8
<1>10. /\ y \in Truths /\ still \in BOOLEAN /\ produced = [truth EXCEPT ![i] = y]
       /\ Process(a, p, produced, still)
  BY <1>3, <1>7
<1> QED BY <1>1, <1>9, <1>10, ItemStep

LEMMA ContiguousIs ==
    ASSUME NEW last \in Nat, NEW S, S \subseteq 0..last, Contiguous(S)
    PROVE  \E n \in Nat : n <= last + 1 /\ S = 0..(n - 1) /\ Cardinality(S) = n
<1> DEFINE T == {k \in Nat : k \notin S}
<1>1. T \subseteq Nat /\ last + 1 \in T
  OBVIOUS
<1>2. PICK n \in T : \A k \in T : n <= k
  <2> HIDE DEF T
  <2> QED BY <1>1, LeastNatural
<1>3. n \in Nat /\ n <= last + 1 /\ n \notin S
  BY <1>1, <1>2
<1>4. ASSUME NEW k \in S PROVE k < n
  <2>1. k \in Nat /\ 0..k \subseteq S
    BY DEF Contiguous
  <2>2. ~(n <= k)
    BY <1>3, <2>1
  <2> QED BY <1>3, <2>1, <2>2
<1>5. ASSUME NEW k \in Nat, k < n PROVE k \in S
  <2>1. ~(n <= k)
    BY <1>3, <1>5
  <2> QED BY <1>2, <1>5, <2>1
<1>6. S = 0..(n - 1)
  <2>1. S \subseteq Nat
    OBVIOUS
  <2>2. \A k \in S : k \in 0..(n - 1)
    BY <1>3, <1>4, <2>1
  <2>3. \A k \in 0..(n - 1) : k \in S
    BY <1>3, <1>5
  <2> QED BY <2>2, <2>3
<1>7. Cardinality(0..(n - 1)) = n
  <2>1. n - 1 \in Int /\ 0 \in Int
    BY <1>3
  <2>2. Cardinality(0..(n - 1)) = IF 0 > n - 1 THEN 0 ELSE (n - 1) - 0 + 1
    BY <2>1, FS_Interval
  <2> QED BY <1>3, <2>2
<1> QED BY <1>3, <1>6, <1>7

LEMMA SubSeqIs ==
    ASSUME NEW T, NEW s \in Seq(T), NEW m \in 0..Len(s)
    PROVE  /\ SubSeq(s, 1, m) \in Seq(T) /\ Len(SubSeq(s, 1, m)) = m
           /\ \A k \in 1..m : SubSeq(s, 1, m)[k] = s[k]
  OBVIOUS

\* A terminal event: how it ends, what it lists, and whether that is the truth.
TerminalTold(status, output, still) ==
    /\ Process(AddTerminal(agg, [status |-> status, output |-> output]), prog, truth, still)
    /\ output \in Seq(RealItems) /\ still \in BOOLEAN
    /\ still => honest /\ \E n : Used(n) /\ Told(output, n)

LEMMA TerminalTells ==
    ASSUME ResponsesInv, NEW status \in Statuses, Terminal(status)
    PROVE  Open /\ \E output, still : TerminalTold(status, output, still)
<1> DEFINE used == {i \in Slots : truth[i].type # "none"}
           n == Cardinality(used)
           full == [k \in 1..n |-> truth[k - 1]]
           bare == [k \in 1..Len(full) |-> Bare(full[k])]
           garbled == [k \in 1..Len(full) |-> Garbled(full[k], k - 1)]
<1>1. Open /\ Contiguous(used)
  BY DEF Terminal
<1>2. PICK output \in {full, bare, garbled}, listed \in 0..Len(full) :
          Process(AddTerminal(agg, [status |-> status, output |-> SubSeq(output, 1, listed)]),
                  prog, truth,
                  /\ honest /\ listed \in {0, Len(full)}
                  /\ \A k \in 1..listed : output[k] # Garbled(full[k], k - 1))
  BY DEF Terminal
<1> DEFINE still == /\ honest /\ listed \in {0, Len(full)}
                    /\ \A k \in 1..listed : output[k] # Garbled(full[k], k - 1)
<1>3. still \in BOOLEAN
  OBVIOUS
<1>4. truth \in [Slots -> Truths] /\ Truths \subseteq Items
  BY DEF ResponsesInv, TypeInv, TruthType, Truths
<1>5. used \subseteq 0..LastSlot /\ LastSlot \in Nat
  BY SlotAssumption DEF Slots
<1> HIDE DEF used
<1>6. n \in Nat /\ n <= LastSlot + 1 /\ used = 0..(n - 1)
  <2>1. Contiguous(used)
    BY <1>1
  <2>2. PICK m \in Nat : m <= LastSlot + 1 /\ used = 0..(m - 1) /\ Cardinality(used) = m
    BY <1>5, <2>1, ContiguousIs
  <2> QED BY <2>2
<1> HIDE DEF n
<1>7. Used(n)
  <2> SUFFICES ASSUME NEW i \in Slots PROVE truth[i].type # "none" <=> i < n
    BY <1>6 DEF Used
  <2>1. i \in Nat /\ (truth[i].type # "none" <=> i \in used)
    BY DEF used, Slots
  <2> QED BY <1>6, <2>1
<1>8. Len(full) = n /\ \A k \in 1..n : full[k] = truth[k - 1]
  BY <1>6
<1>9. \A k \in 1..n : full[k] \in RealItems /\ k - 1 \in Slots
  <2> SUFFICES ASSUME NEW k \in 1..n PROVE full[k] \in RealItems /\ k - 1 \in Slots
    OBVIOUS
  <2>1. k - 1 \in Slots /\ k - 1 < n
    BY <1>7, SlotOf
  <2>2. truth[k - 1].type # "none" /\ truth[k - 1] \in Items
    BY <1>4, <1>7, <2>1 DEF Used
  <2> QED BY <1>8, <2>1, <2>2, ItemParts
<1> HIDE DEF full
<1>10. /\ Len(output) = n /\ output \in Seq(RealItems)
       /\ \A k \in 1..n : output[k] \in {full[k], Bare(full[k]), Garbled(full[k], k - 1)}
  <2>1. \A k \in 1..n : Bare(full[k]) \in RealItems /\ Garbled(full[k], k - 1) \in RealItems
    BY <1>9, SnapshotTypes
  <2>2. full \in [1..n -> RealItems]
    BY <1>9 DEF full
  <2>3. bare \in [1..n -> RealItems] /\ \A k \in 1..n : bare[k] = Bare(full[k])
    BY <1>8, <2>1
  <2>4. garbled \in [1..n -> RealItems] /\ \A k \in 1..n : garbled[k] = Garbled(full[k], k - 1)
    BY <1>8, <2>1
  <2> HIDE DEF bare, garbled
  <2>5. output \in [1..n -> RealItems]
    BY <2>2, <2>3, <2>4
  <2>6. output \in Seq(RealItems) /\ Len(output) = n
    BY <1>6, <2>5, FunctionIsSeq
  <2> QED BY <2>3, <2>4, <2>6
<1> DEFINE shown == SubSeq(output, 1, listed)
<1>11. listed \in 0..Len(output) /\ listed \in Nat
  BY <1>8, <1>10
<1>12. /\ shown \in Seq(RealItems) /\ Len(shown) = listed
       /\ \A k \in 1..listed : shown[k] = output[k]
  BY <1>10, <1>11, SubSeqIs
<1>13. Process(AddTerminal(agg, [status |-> status, output |-> shown]), prog, truth, still)
  BY <1>2
<1> HIDE DEF shown
<1>14. still => Told(shown, n)
  <2> SUFFICES ASSUME still, shown # <<>> PROVE Told(shown, n)
    BY DEF Told
  <2>1. listed # 0
    BY <1>12
  <2>2. listed = n
    BY <1>8, <2>1
  <2>3. \A k \in 1..n : shown[k] = truth[k - 1] \/ shown[k] = Bare(truth[k - 1])
    <3> SUFFICES ASSUME NEW k \in 1..n
                 PROVE  shown[k] = truth[k - 1] \/ shown[k] = Bare(truth[k - 1])
      OBVIOUS
    <3>1. shown[k] = output[k] /\ output[k] # Garbled(full[k], k - 1)
      BY <1>12, <2>2
    <3>2. output[k] \in {full[k], Bare(full[k]), Garbled(full[k], k - 1)}
      BY <1>10
    <3> QED BY <1>8, <3>1, <3>2
  <2> QED BY <1>12, <2>2, <2>3 DEF Told
<1>15. still => honest
  OBVIOUS
<1> HIDE DEF still
<1>16. TerminalTold(status, shown, still)
  BY <1>3, <1>7, <1>12, <1>13, <1>14, <1>15 DEF TerminalTold
<1> QED BY <1>1, <1>16

LEMMA TerminalStep ==
    ASSUME ResponsesInv, NEW status \in Statuses, Terminal(status)
    PROVE  ResponsesInv'
<1>1. Open
  BY TerminalTells
<1>2. PICK output, still : TerminalTold(status, output, still)
  BY TerminalTells
<1> DEFINE terminal == [status |-> status, output |-> output]
           a == AddTerminal(agg, terminal)
<1>3. Process(a, prog, truth, still) /\ output \in Seq(RealItems) /\ still \in BOOLEAN
  BY <1>2 DEF TerminalTold
<1>4. still => honest /\ \E n : Used(n) /\ Told(output, n)
  BY <1>2 DEF TerminalTold
<1>5. /\ pc \in {"chunk", "tail"} /\ Begun(client, prog) /\ agg \in Aggregators
      /\ prog \in Progressives /\ truth \in [Slots -> Truths] /\ (honest => Faithful)
  BY <1>1 DEF ResponsesInv, TypeInv, TruthType, FlowInv, Open, Reading
<1>6. terminal \in Terminals /\ terminal.output = output
  BY <1>3 DEF Terminals
<1> HIDE DEF terminal
<1>7. a = [agg EXCEPT !.terminal = terminal]
  BY DEF AddTerminal
<1> HIDE DEF a
<1>8. a \in Aggregators /\ a.items = agg.items /\ a.final = agg.final /\ a.terminal = terminal
  BY <1>5, <1>6, <1>7 DEF Aggregators
<1>9. Stays(prog, prog)
  BY <1>5 DEF Stays
<1>10. Advances(client, prog, omit) /\ [prog EXCEPT !.frames = <<>>] = prog
  BY <1>5, <1>9, StaysAdvances, StaysCleared
<1>11. ~a.failed /\ still => Faithful'
  <2> SUFFICES ASSUME ~a.failed, still PROVE Faithful'
    OBVIOUS
  <2>1. agg' = a /\ prog' = [prog EXCEPT !.frames = <<>>] /\ truth' = truth
    BY <1>3, ProcessTaken
  <2>2. prog' = prog /\ agg'.items = agg.items /\ agg'.final = agg.final
        /\ agg'.terminal.output = output
    BY <1>6, <1>8, <1>10, <2>1
  <2>3. PICK n : Used(n) /\ Told(output, n)
    BY <1>4
  <2>4. Used(n)' /\ Told(output, n)'
    BY <2>1, <2>3 DEF Used, Told
  <2>5. Used(n)' /\ Told(agg.terminal.output, n)'
    BY <2>2, <2>4 DEF Told
  <2>6. Faithful
    BY <1>4, <1>5
  <2>7. \A i \in Slots : Alike(agg'.items[i], truth'[i])
    BY <2>1, <2>2, <2>6 DEF Faithful
  <2>8. Forwarded'
    BY <2>1, <2>2, <2>6 DEF Faithful, Forwarded, Final
  <2> QED BY <2>5, <2>7, <2>8 DEF Faithful
<1>12. ~a.failed => Taken(a, prog, truth, still) /\ (still => Faithful')
  BY <1>3, <1>5, <1>8, <1>10, <1>11 DEF Taken
<1> QED BY <1>3, <1>5, <1>12, ProcessNext

-----------------------------------------------------------------------------
(* The whole exchange.                                                      *)

LEMMA ResponsesInit ==
    ASSUME Init
    PROVE  ResponsesInv
<1> USE DEF Init
<1>1. NewClient \in Clients /\ Begun(NewClient, NewProgressive)
  <2>1. <<>> \in Seq(Pieces)
    OBVIOUS
  <2>2. NewClient \in Clients
    BY <2>1 DEF NewClient, Clients, Stages, BlockKinds, Reasons
  <2> QED BY <2>2 DEF Begun, NewClient, NewProgressive
<1>2. TypeInv
  <2>1. <<>> \in Seq(Frames)
    OBVIOUS
  <2> QED BY <1>1, <2>1, NewTypes DEF TypeInv, TruthType, Reading
<1>3. Faithful
  <2>1. 0 \in Slots /\ 0 \in Parts
    BY SlotAssumption DEF Slots, Parts
  <2>2. \A i \in Slots : agg.items[i] = NoItem /\ truth[i] = NoItem
    BY DEF NewAggregator, NoTruth
  <2>3. \A i \in Slots : Alike(agg.items[i], truth[i])
    BY <2>2 DEF Alike
  <2>4. truth[0].parts[0] = NoPart
    BY <2>1, <2>2, NoItemType
  <2>5. Forwarded
    BY <2>4 DEF Forwarded, NewProgressive, NoPart
  <2>6. agg.terminal.status = "none"
    BY DEF NewAggregator, NoTerminal
  <2> QED BY <2>3, <2>5, <2>6 DEF Faithful
<1>4. FlowInv
  BY <1>1 DEF FlowInv, Waiting
<1>5. RecordInv
  BY DEF RecordInv, Waiting
<1>6. ClosedInv
  BY DEF ClosedInv
<1> QED BY <1>2, <1>3, <1>4, <1>5, <1>6 DEF ResponsesInv

LEMMA ResponsesStutter ==
    ASSUME ResponsesInv, UNCHANGED vars
    PROVE  ResponsesInv'
<1>1. UNCHANGED <<pc, next, omit, agg, prog, out, truth, honest, stopped, eof, capture,
                  record, client, gone>>
  BY DEF vars
<1>2. TypeInv'
  BY <1>1, TruthKept DEF ResponsesInv, TypeInv
<1>3. honest' => Faithful'
  BY <1>1, FaithfulKept DEF ResponsesInv
<1>4. WholeText' = WholeText /\ (CallsGood => CallsGood')
  BY <1>1, MessageKept
<1>5. \A d : (Begun(d, prog)' <=> Begun(d, prog)) /\ (GivenUp(d)' <=> GivenUp(d))
             /\ (Delivered(d) => Delivered(d)')
  BY <1>1, <1>4 DEF GivenUp, Delivered
<1>6. FlowInv'
  <2>1. \A d : Reaches(client, out, d, omit)' <=> Reaches(client, out, d, omit)
    BY <1>1
  <2>2. Begun(client, prog)' <=> Begun(client, prog)
    BY <1>1
  <2>3. pc' = pc /\ next' = next
    BY <1>1
  <2>4. FlowInv
    BY DEF ResponsesInv
  <2> QED BY <1>5, <2>1, <2>2, <2>3, <2>4 DEF FlowInv
<1>7. RecordInv'
  BY <1>1 DEF ResponsesInv, RecordInv
<1>8. ClosedInv'
  <2>1. EndsTruthfully' <=> EndsTruthfully
    BY <1>1 DEF EndsTruthfully, CaptureTruth, NeverSilent
  <2> QED BY <1>1, <1>4, <2>1 DEF ResponsesInv, ClosedInv
<1> QED BY <1>2, <1>3, <1>6, <1>7, <1>8 DEF ResponsesInv

LEMMA EventStep ==
    ASSUME ResponsesInv, Event
    PROVE  ResponsesInv'
<1>1. CASE \E i \in Slots, c \in Parts, kind \in Kinds : Delta(i, c, kind) \/ PartDone(i, c, kind)
  BY <1>1, DeltaStep, PartDoneStep
<1>2. CASE \E i \in Slots, type \in {"message", "reasoning", "function_call"} : ItemAdded(i, type)
  <2>1. PICK i \in Slots, type \in ItemTypes : ItemAdded(i, type)
    BY <1>2 DEF ItemTypes
  <2> QED BY <2>1, ItemAddedStep
<1>3. CASE \E i \in Slots : ItemDone(i)
  BY <1>3, ItemDoneStep
<1>4. CASE \E status \in Statuses : Terminal(status)
  BY <1>4, TerminalStep
<1> QED BY <1>1, <1>2, <1>3, <1>4 DEF Event

LEMMA ResponsesNext ==
    ASSUME ResponsesInv, [Next]_vars
    PROVE  ResponsesInv'
<1>1. CASE Chunk \/ ChunkEnds \/ Eof \/ Done
  BY <1>1, QuietStep
<1>2. CASE Malformed \/ ReadError
  BY <1>2, MalformedStep
<1>3. CASE Event
  BY <1>3, EventStep
<1>4. CASE Finish
  BY <1>4, FinishStep
<1>5. CASE Receive
  BY <1>5, ReceiveStep
<1>6. CASE Resume
  BY <1>6, ResumeStep
<1>7. CASE ClientGone
  BY <1>7, GoneStep
<1>8. CASE UNCHANGED vars
  BY <1>8, ResponsesStutter
<1> QED BY <1>1, <1>2, <1>3, <1>4, <1>5, <1>6, <1>7, <1>8 DEF Next

\* The inductive invariant: the aggregator holds what an honest upstream has
\* produced, the forwarded text is a beginning of it, and the frames on their
\* way lead the client along the protocol to the end they promise.
THEOREM ResponsesInvariant == Spec => []ResponsesInv
<1>1. Init => ResponsesInv
  BY ResponsesInit
<1>2. ResponsesInv /\ [Next]_vars => ResponsesInv'
  BY ResponsesNext
<1> QED BY <1>1, <1>2, PTL DEF Spec

\* A message that stops has delivered every piece of the response of an
\* honest upstream, once and in the order of its items and parts, in whatever
\* order and by whichever events the pieces arrived.
THEOREM OutputIsFaithful == Spec => []Fidelity
<1>1. ResponsesInv => Fidelity
  <2> SUFFICES ASSUME ResponsesInv PROVE Fidelity
    OBVIOUS
  <2>1. CASE pc = "closed"
    BY <2>1 DEF ResponsesInv, ClosedInv, Fidelity
  <2>2. CASE pc # "closed"
    BY <2>2, Seen DEF Delivered, Fidelity
  <2> QED BY <2>1, <2>2
<1> QED BY <1>1, ResponsesInvariant, PTL

\* Text that was forwarded before the response was complete is a beginning of
\* the message it becomes, if the events of an honest upstream make one.
THEOREM ForwardedAgrees == Spec => []ProgressiveAgrees
<1>1. ResponsesInv => ProgressiveAgrees
  BY ContinuesHonestly DEF ResponsesInv, ProgressiveAgrees
<1> QED BY <1>1, ResponsesInvariant, PTL

\* A client is handed calls to execute only from a complete response that
\* refuses nothing, and, of an honest upstream, none that is cut short.
THEOREM CallsAreExecutable == Spec => []ToolsExecutable
<1>1. ResponsesInv => ToolsExecutable
  <2> SUFFICES ASSUME ResponsesInv PROVE ToolsExecutable
    OBVIOUS
  <2>1. client.tooled => CallsGood
    <3>1. CASE pc = "closed"
      BY <3>1 DEF ResponsesInv, ClosedInv
    <3>2. CASE pc # "closed"
      BY <3>2, Seen
    <3> QED BY <3>1, <3>2
  <2> QED BY <2>1 DEF CallsGood, ToolsExecutable
<1> QED BY <1>1, ResponsesInvariant, PTL

\* The audit record and the last frame say truthfully how the exchange ended,
\* on each of the ways out of the generator.
THEOREM EndsAreTold == Spec => []EndsTruthfully
<1>1. ResponsesInv => EndsTruthfully
  <2> SUFFICES ASSUME ResponsesInv PROVE EndsTruthfully
    OBVIOUS
  <2>1. CASE pc = "closed"
    BY <2>1 DEF ResponsesInv, ClosedInv
  <2>2. CASE pc # "closed"
    BY <2>2 DEF EndsTruthfully, CaptureTruth, NeverSilent
  <2> QED BY <2>1, <2>2
<1> QED BY <1>1, ResponsesInvariant, PTL

LEMMA ReceiveAllowed ==
    ASSUME ResponsesInv, Receive
    PROVE  /\ client \in Clients /\ Head(out) \in Frames /\ Allowed(client, Head(out))
           /\ client' = After(client, Head(out), omit)
<1>1. pc \in Waiting /\ out # <<>> /\ client' = Shown(client, Head(out), omit)
  BY DEF Receive, Waiting
<1>2. client \in Clients /\ out \in Seq(Frames) /\ omit \in BOOLEAN
  BY DEF ResponsesInv, TypeInv
<1>3. Head(out) \in Frames
  BY <1>1, <1>2
<1>4. PICK d : Reaches(client, out, d, omit)
  BY <1>1 DEF ResponsesInv, FlowInv
<1>5. /\ Allowed(client, Head(out))
      /\ Shown(client, Head(out), omit) = After(client, Head(out), omit)
  BY <1>1, <1>2, <1>4, ReachTake
<1> QED BY <1>1, <1>2, <1>3, <1>5

\* What the protocol allows to come next is a step of it.
LEMMA AllowedIsWire ==
    ASSUME client \in Clients, NEW f \in Frames, Allowed(client, f), NEW omitted,
           client' = After(client, f, omitted)
    PROVE  [Wire!WireNext]_(Wire!wireVars)
<1> USE DEF Allowed, After, Clients
<1>1. CASE f.type = "message_start"
  BY <1>1 DEF Wire!WireNext, Wire!MessageStart
<1>2. CASE f.type = "start"
  <2>1. Wire!BlockStart(f.kind) /\ f.kind \in {"text", "thinking", "tool"}
    BY <1>2 DEF Wire!BlockStart, BlockKinds
  <2> QED BY <2>1 DEF Wire!WireNext
<1>3. CASE f.type = "delta"
  BY <1>3 DEF Wire!wireVars
<1>4. CASE f.type = "signature"
  BY <1>4 DEF Wire!WireNext, Wire!Sign
<1>5. CASE f.type = "stop"
  BY <1>5 DEF Wire!WireNext, Wire!BlockStop
<1>6. CASE f.type = "message_delta"
  <2>1. Wire!MessageDelta(f.kind) /\ f.kind \in Wire!StopReasons
    BY <1>6 DEF Wire!MessageDelta, Wire!StopReasons, Reasons
  <2> QED BY <2>1 DEF Wire!WireNext
<1>7. CASE f.type = "message_stop"
  BY <1>7 DEF Wire!WireNext, Wire!MessageStop
<1>8. CASE f.type = "error"
  BY <1>8 DEF Wire!WireNext, Wire!Error
<1> QED BY <1>1, <1>2, <1>3, <1>4, <1>5, <1>6, <1>7, <1>8 DEF Frames

\* Only a frame that arrives changes what the client has seen.
LEMMA ClientWaits ==
    ASSUME [Next]_vars, ~Receive
    PROVE  client' = client
<1>1. ASSUME NEW a, NEW p, NEW produced, NEW still, Process(a, p, produced, still)
      PROVE  client' = client
  BY <1>1 DEF Process, clientVars
<1>2. Event => client' = client
  <2>1. \A i, c, kind : Delta(i, c, kind) => client' = client
    BY <1>1 DEF Delta
  <2>2. \A i, c, kind : PartDone(i, c, kind) => client' = client
    BY <1>1 DEF PartDone
  <2>3. \A i, type : ItemAdded(i, type) => client' = client
    BY <1>1 DEF ItemAdded
  <2>4. \A i : ItemDone(i) => client' = client
    BY <1>1 DEF ItemDone
  <2>5. \A status : Terminal(status) => client' = client
    BY <1>1 DEF Terminal
  <2> QED BY <2>1, <2>2, <2>3, <2>4, <2>5 DEF Event
<1> QED BY <1>2 DEF Next, vars, clientVars, Chunk, ChunkEnds, Malformed, ReadError, Eof, Done,
         Finish, Resume, ClientGone

\* What a client sees of any stream of events, however it is cut up, ends or
\* breaks, is a prefix of a well-formed Anthropic message.
THEOREM StreamIsWire == Spec => ImplementsWire
<1>1. Init => Wire!WireInit
  BY DEF Init, NewClient, Wire!WireInit
<1>2. ResponsesInv /\ [Next]_vars => [Wire!WireNext]_(Wire!wireVars)
  <2> SUFFICES ASSUME ResponsesInv, [Next]_vars PROVE [Wire!WireNext]_(Wire!wireVars)
    OBVIOUS
  <2>1. CASE Receive
    BY <2>1, ReceiveAllowed, AllowedIsWire
  <2>2. CASE ~Receive
    BY <2>2, ClientWaits DEF Wire!wireVars
  <2> QED BY <2>1, <2>2
<1> QED BY <1>1, <1>2, ResponsesInvariant, PTL DEF Spec, ImplementsWire, Wire!WireSpec
=============================================================================
