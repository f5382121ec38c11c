-------------------------- MODULE ChatStream_proofs --------------------------
(***************************************************************************)
(* What a client of a streamed Chat Completions answer sees, for any tool  *)
(* calls, fragments, members and number of pieces: a well-formed Anthropic *)
(* stream, the output in its order and complete, calls to execute only     *)
(* when they are whole, and a truthful end.                                *)
(*                                                                         *)
(* The argument is about frames on their way.  A path leads a client from  *)
(* what it has seen over the frames it is still to be sent, each of which  *)
(* the protocol allows, to a client that agrees with the converter; every  *)
(* operator of the converter makes the path longer, and every frame that   *)
(* is delivered makes it shorter.  Beside it, the pieces of output are     *)
(* counted: those told, those in the open reasoning, those deferred.       *)
(***************************************************************************)
EXTENDS ChatStream, SequenceTheorems, WellFoundedInduction, TLAPS

-----------------------------------------------------------------------------
(* Types.                                                                   *)

Kinds   == {"text", "thinking", "tool"}
Reasons == {"end_turn", "max_tokens", "tool_use", "refusal"}
Stages  == {"before", "message", "ending", "stopped", "failed"}

Frames ==
    [type : {"message_start", "start", "delta", "signature", "stop",
             "message_delta", "message_stop", "error"},
     kind : Kinds \cup Reasons \cup Signatures \cup {"encoded"},
     index : Nat, pieces : Seq(Nat)]

Clients ==
    [stage : Stages, open : Kinds \cup {"none", "signed"}, blocks : Nat,
     stop : Reasons \cup {"none"}, tooled : BOOLEAN, got : Seq(Nat), foreign : BOOLEAN]

Tools == [id : Ids \cup {"", Generated}, named : BOOLEAN,
          args : {"", "{", "{}", "bad"}, piece : Nat]

Items == [kind : Kinds, pieces : Seq(Nat), signature : Signatures, index : Indices]

FinishReasons == {"", "stop", "length", "tool_calls", "content_filter", "other"}

Converters ==
    [omit : BOOLEAN, started : BOOLEAN, next : Nat,
     open : {"none", "text", "thinking"}, at : Nat,
     replay : Seq(Nat), signature : Signatures,
     tools : [Indices -> Tools], deferred : Seq(Items), deferring : BOOLEAN,
     reason : FinishReasons, refused : BOOLEAN, semantic : BOOLEAN,
     frames : Seq(Frames), failed : BOOLEAN]

-----------------------------------------------------------------------------
(* Paths over the frames on their way.                                      *)

\* The protocol lets this frame come next.
Allowed(c, f) ==
    CASE f.type = "message_start" -> c.stage = "before"
      [] f.type = "start"         -> c.stage = "message" /\ c.open = "none"
                                     /\ f.index = c.blocks /\ f.kind \in Kinds
      [] f.type = "delta"         -> c.stage = "message"
                                     /\ f.index + 1 = c.blocks /\ f.kind = c.open
      [] f.type = "signature"     -> c.stage = "message" /\ c.open = "thinking"
                                     /\ f.index + 1 = c.blocks
      [] f.type = "stop"          -> c.stage = "message" /\ c.open \in {"text", "signed", "tool"}
                                     /\ f.index + 1 = c.blocks
      [] f.type = "message_delta" -> c.stage = "message" /\ c.open = "none"
                                     /\ f.kind \in Reasons /\ (c.tooled => f.kind = "tool_use")
      [] f.type = "message_stop"  -> c.stage = "ending"
      [] f.type = "error"         -> c.stage \in {"before", "message"} /\ ~c.tooled

Extends(got, more) ==
    Len(got) <= Len(more) /\ \A i \in 1..Len(got) : got[i] = more[i]

\* w: what the client has seen before each frame, and at the end.
IsPath(w, c, frames, d, omitted) ==
    /\ w \in [1..(Len(frames) + 1) -> Clients]
    /\ w[1] = c /\ w[Len(frames) + 1] = d
    /\ \A k \in 1..Len(frames) :
           /\ Allowed(w[k], frames[k])
           /\ w[k + 1] = After(w[k], frames[k], omitted)
    /\ \A k \in 1..(Len(frames) + 1) : Extends(w[k].got, d.got)

Reaches(c, frames, d, omitted) == \E w : IsPath(w, c, frames, d, omitted)

LEMMA Concatenated ==
    ASSUME NEW s \in Seq(Nat), NEW t \in Seq(Nat)
    PROVE  /\ s \o t \in Seq(Nat) /\ Len(s \o t) = Len(s) + Len(t)
           /\ \A i \in 1..Len(s) : (s \o t)[i] = s[i]
           /\ \A i \in (Len(s) + 1)..(Len(s) + Len(t)) : (s \o t)[i] = t[i - Len(s)]
           /\ Extends(s, s) /\ Extends(s, s \o t)
<1>1. Len(s) \in Nat /\ Len(t) \in Nat
  OBVIOUS
<1>2. s \o t \in Seq(Nat) /\ Len(s \o t) = Len(s) + Len(t)
  BY ConcatProperties
<1>3. \A i \in 1..Len(s) : (s \o t)[i] = s[i]
  BY <1>1, ConcatProperties
<1>4. \A i \in (Len(s) + 1)..(Len(s) + Len(t)) : (s \o t)[i] = t[i - Len(s)]
  BY <1>1, ConcatProperties
<1> QED BY <1>1, <1>2, <1>3, <1>4 DEF Extends

LEMMA AfterAllowed ==
    ASSUME NEW c \in Clients, NEW f \in Frames, NEW omitted \in BOOLEAN, Allowed(c, f)
    PROVE  /\ Fits(c, f) /\ Shown(c, f, omitted) = After(c, f, omitted)
           /\ After(c, f, omitted) \in Clients
           /\ Extends(c.got, After(c, f, omitted).got)
<1>1. Fits(c, f)
  BY DEF Fits, Allowed, Frames, Kinds, Reasons, Signatures
<1> DEFINE e == After(c, f, omitted)
<1>2. /\ c.stage \in Stages /\ c.open \in Kinds \cup {"none", "signed"} /\ c.blocks \in Nat
      /\ c.stop \in Reasons \cup {"none"} /\ c.tooled \in BOOLEAN /\ c.got \in Seq(Nat)
      /\ c.foreign \in BOOLEAN /\ f.index \in Nat /\ f.pieces \in Seq(Nat)
  BY DEF Clients, Frames
<1>3. Extends(c.got, c.got) /\ Extends(c.got, c.got \o f.pieces) /\ c.got \o f.pieces \in Seq(Nat)
  BY <1>2, Concatenated
<1>4. e \in Clients /\ Extends(c.got, e.got)
  <2>1. CASE f.type = "message_start"
    BY <1>2, <1>3, <2>1 DEF After, Clients, Stages
  <2>2. CASE f.type = "start"
    <3>1. f.kind \in Kinds
      BY <2>2 DEF Allowed
    <3> DEFINE tooled == c.tooled \/ f.kind = "tool"
    <3>2. tooled \in BOOLEAN /\ c.blocks + 1 \in Nat
      BY <1>2
    <3>3. e = [c EXCEPT !.open = f.kind, !.blocks = c.blocks + 1, !.tooled = tooled]
      BY <2>2 DEF After
    <3> HIDE DEF tooled, e
    <3> QED BY <1>2, <1>3, <3>1, <3>2, <3>3 DEF Clients
  <2>3. CASE f.type = "delta"
    BY <1>2, <1>3, <2>3 DEF After, Clients
  <2>4. CASE f.type = "signature"
    <3>1. (c.foreign \/ f.kind = "router") \in BOOLEAN
      OBVIOUS
    <3> QED BY <1>2, <1>3, <2>4, <3>1 DEF After, Clients
  <2>5. CASE f.type = "stop"
    BY <1>2, <1>3, <2>5 DEF After, Clients
  <2>6. CASE f.type = "message_delta"
    BY <1>2, <1>3, <2>6 DEF After, Clients, Allowed, Stages
  <2>7. CASE f.type = "message_stop"
    BY <1>2, <1>3, <2>7 DEF After, Clients, Stages
  <2>8. CASE f.type = "error"
    BY <1>2, <1>3, <2>8 DEF After, Clients, Stages
  <2> QED BY <2>1, <2>2, <2>3, <2>4, <2>5, <2>6, <2>7, <2>8 DEF Frames
<1> QED BY <1>1, <1>4 DEF Shown

LEMMA ReachNil ==
    ASSUME NEW c \in Clients, NEW omitted
    PROVE  Reaches(c, <<>>, c, omitted)
<1> DEFINE w == [k \in 1..1 |-> c]
<1>1. IsPath(w, c, <<>>, c, omitted)
  BY DEF IsPath, Extends, Clients
<1> QED BY <1>1 DEF Reaches

LEMMA ReachEmpty ==
    ASSUME NEW c, NEW d, NEW omitted, Reaches(c, <<>>, d, omitted)
    PROVE  d = c
  BY DEF Reaches, IsPath

\* One more frame behind the others.
LEMMA ReachPush ==
    ASSUME NEW c, NEW d \in Clients, NEW frames \in Seq(Frames), NEW f \in Frames,
           NEW omitted \in BOOLEAN, Reaches(c, frames, d, omitted), Allowed(d, f)
    PROVE  /\ After(d, f, omitted) \in Clients
           /\ Append(frames, f) \in Seq(Frames)
           /\ Reaches(c, Append(frames, f), After(d, f, omitted), omitted)
<1> DEFINE n == Len(frames)
           e == After(d, f, omitted)
           more == Append(frames, f)
<1>1. PICK w : IsPath(w, c, frames, d, omitted)
  BY DEF Reaches
<1> DEFINE v == [k \in 1..(n + 2) |-> IF k = n + 2 THEN e ELSE w[k]]
<1>2. e \in Clients /\ Extends(d.got, e.got)
  BY AfterAllowed
<1>3. n \in Nat /\ Len(more) = n + 1 /\ more \in Seq(Frames)
      /\ more[n + 1] = f /\ \A k \in 1..n : more[k] = frames[k]
  OBVIOUS
<1>4. /\ w \in [1..(n + 1) -> Clients] /\ w[1] = c /\ w[n + 1] = d
      /\ \A k \in 1..n : Allowed(w[k], frames[k]) /\ w[k + 1] = After(w[k], frames[k], omitted)
      /\ \A k \in 1..(n + 1) : Extends(w[k].got, d.got)
  BY <1>1 DEF IsPath
<1> HIDE DEF e, more, n
<1>5. v \in [1..(Len(more) + 1) -> Clients] /\ v[1] = c /\ v[Len(more) + 1] = e
  BY <1>2, <1>3, <1>4
<1>6. \A k \in 1..Len(more) : Allowed(v[k], more[k]) /\ v[k + 1] = After(v[k], more[k], omitted)
  BY <1>3, <1>4 DEF e
<1>7. \A k \in 1..(Len(more) + 1) : Extends(v[k].got, e.got)
  <2>1. e.got \in Seq(Nat) /\ d.got \in Seq(Nat)
    BY <1>2 DEF Clients
  <2>2. ASSUME NEW k \in 1..(n + 1) PROVE Extends(w[k].got, e.got)
    <3>1. w[k].got \in Seq(Nat) /\ Extends(w[k].got, d.got)
      BY <1>4 DEF Clients
    <3> QED BY <2>1, <3>1, <1>2 DEF Extends
  <2>3. Extends(e.got, e.got)
    BY <2>1 DEF Extends
  <2> QED BY <1>3, <2>2, <2>3
<1>8. IsPath(v, c, more, e, omitted)
  BY <1>5, <1>6, <1>7 DEF IsPath
<1> QED BY <1>2, <1>3, <1>8 DEF Reaches, e, more

\* The client takes the first of them.
LEMMA ReachTake ==
    ASSUME NEW c \in Clients, NEW d, NEW frames \in Seq(Frames), frames # <<>>,
           NEW omitted \in BOOLEAN, Reaches(c, frames, d, omitted)
    PROVE  /\ Allowed(c, Head(frames))
           /\ Shown(c, Head(frames), omitted) = After(c, Head(frames), omitted)
           /\ Shown(c, Head(frames), omitted) \in Clients
           /\ Reaches(Shown(c, Head(frames), omitted), Tail(frames), d, omitted)
<1> DEFINE n == Len(frames)
           rest == Tail(frames)
<1>1. PICK w : IsPath(w, c, frames, d, omitted)
  BY DEF Reaches
<1> DEFINE v == [k \in 1..n |-> w[k + 1]]
<1>2. n \in Nat \ {0} /\ Len(rest) = n - 1 /\ Head(frames) = frames[1] /\ frames[1] \in Frames
      /\ \A k \in 1..(n - 1) : rest[k] = frames[k + 1]
  OBVIOUS
<1>3. /\ w \in [1..(n + 1) -> Clients] /\ w[1] = c /\ w[n + 1] = d
      /\ \A k \in 1..n : Allowed(w[k], frames[k]) /\ w[k + 1] = After(w[k], frames[k], omitted)
      /\ \A k \in 1..(n + 1) : Extends(w[k].got, d.got)
  BY <1>1 DEF IsPath
<1> HIDE DEF n, rest
<1>4. Allowed(c, frames[1]) /\ w[2] = After(c, frames[1], omitted)
  BY <1>2, <1>3
<1>5. Shown(c, frames[1], omitted) = w[2] /\ w[2] \in Clients
  BY <1>2, <1>4, AfterAllowed
<1>6. IsPath(v, w[2], rest, d, omitted)
  BY <1>2, <1>3 DEF IsPath
<1> QED BY <1>2, <1>4, <1>5, <1>6 DEF Reaches, rest

LEMMA ReachExtends ==
    ASSUME NEW c, NEW d, NEW frames \in Seq(Frames), NEW omitted, Reaches(c, frames, d, omitted)
    PROVE  Extends(c.got, d.got) /\ d \in Clients
<1>1. PICK w : IsPath(w, c, frames, d, omitted)
  BY DEF Reaches
<1>2. 1 \in 1..(Len(frames) + 1) /\ Len(frames) + 1 \in 1..(Len(frames) + 1)
  OBVIOUS
<1> QED BY <1>1, <1>2 DEF IsPath

\* A message that has ended has nothing on its way.
LEMMA ReachEnded ==
    ASSUME NEW c \in Clients, NEW d, NEW frames \in Seq(Frames), NEW omitted \in BOOLEAN,
           Reaches(c, frames, d, omitted), c.stage \in {"stopped", "failed"}
    PROVE  frames = <<>> /\ d = c
<1>1. CASE frames # <<>>
  <2>1. Allowed(c, Head(frames)) /\ Head(frames) \in Frames
    BY <1>1, ReachTake
  <2> QED BY <2>1 DEF Allowed, Frames
<1>2. CASE frames = <<>>
  BY <1>2, ReachEmpty
<1> QED BY <1>1, <1>2

-----------------------------------------------------------------------------
(* The converter and the client that its frames lead to.                    *)

Span(m, n) == [i \in 1..(n - m) |-> m + i]

\* The kinds of the pieces, in the order of their numbers.
Logs == Seq({"thinking", "text", "tool"})

\* g holds the pieces 1 to m in their order, each once; reasoning may be
\* missing where a foreign signature excuses it.
Orderly(g, m, log, excused) ==
    /\ \A i \in 1..Len(g) : g[i] \in 1..m
    /\ \A i \in 2..Len(g) : g[i - 1] < g[i]
    /\ \A p \in 1..m : (\E i \in 1..Len(g) : g[i] = p) \/ (excused /\ log[p] = "thinking")

\* What the client has got, and the reasoning that waits for its signature.
Heard(s, d) == d.got \o (IF s.omit THEN s.replay ELSE <<>>)

Told(s, d, m, log) ==
    /\ m \in 0..Len(log)
    /\ Orderly(Heard(s, d), m, log, s.omit /\ d.foreign)
    /\ \A i \in 1..Len(s.replay) : s.replay[i] \in 1..m /\ log[s.replay[i]] = "thinking"

Match(s, d) ==
    /\ d.stage = IF s.started THEN "message" ELSE "before"
    /\ d.open = s.open /\ d.blocks = s.next
    /\ s.open # "none" => s.started /\ s.at + 1 = s.next
    /\ s.replay # <<>> => s.open = "thinking"
    /\ d.tooled => CompleteTools(s, s.reason)

ToolFrames(s) ==
    \A i \in 1..Len(s.frames) : s.frames[i].kind = "tool" => CompleteTools(s, s.reason)

Linked(c, s, d) ==
    /\ s \in Converters /\ d \in Clients
    /\ Reaches(c, s.frames, d, s.omit)
    /\ ToolFrames(s)

Sound(c, s, d, m, log) == Linked(c, s, d) /\ Match(s, d) /\ Told(s, d, m, log)

\* What writing frames leaves alone.
Kept(s, t) ==
    /\ t.omit = s.omit /\ t.tools = s.tools /\ t.reason = s.reason /\ t.refused = s.refused
    /\ t.deferred = s.deferred /\ t.deferring = s.deferring
    /\ t.semantic = s.semantic /\ t.failed = s.failed

Placed(s, t) ==
    /\ t.started = s.started /\ t.next = s.next /\ t.open = s.open /\ t.at = s.at
    /\ t.replay = s.replay /\ t.signature = s.signature

LEMMA SpanIsSeq ==
    ASSUME NEW m \in Nat, NEW n \in Nat, m <= n
    PROVE  /\ Span(m, n) \in Seq(Nat) /\ Len(Span(m, n)) = n - m
           /\ \A i \in 1..(n - m) : Span(m, n)[i] = m + i
<1>1. n - m \in Nat
  OBVIOUS
<1>2. \A i \in 1..(n - m) : m + i \in Nat
  BY <1>1
<1>3. Span(m, n) \in [1..(n - m) -> Nat]
  BY <1>2 DEF Span
<1>4. Span(m, n) \in Seq(Nat)
  BY <1>1, <1>3, SeqDef
<1> QED BY <1>1, <1>4 DEF Span

\* The next pieces, put behind.
LEMMA OrderlyAppend ==
    ASSUME NEW g \in Seq(Nat), NEW m \in Nat, NEW n \in Nat, m <= n, NEW log,
           NEW excused \in BOOLEAN, Orderly(g, m, log, excused)
    PROVE  Orderly(g \o Span(m, n), n, log, excused) /\ g \o Span(m, n) \in Seq(Nat)
<1> DEFINE q == g \o Span(m, n)
           a == Len(g)
           b == a + (n - m)
<1>1. a \in Nat /\ b \in Nat /\ a <= b
  OBVIOUS
<1>2. /\ q \in Seq(Nat) /\ Len(q) = b
      /\ \A i \in 1..a : q[i] = g[i]
      /\ \A i \in (a + 1)..b : q[i] = m + (i - a)
  <2> DEFINE t == Span(m, n)
  <2>1. /\ t \in Seq(Nat) /\ Len(t) = n - m /\ \A i \in 1..(n - m) : t[i] = m + i
    BY SpanIsSeq
  <2>2. /\ q \in Seq(Nat) /\ Len(q) = a + Len(t)
        /\ \A i \in 1..a : q[i] = g[i]
        /\ \A i \in (a + 1)..(a + Len(t)) : q[i] = t[i - a]
    BY <2>1, Concatenated
  <2> HIDE DEF q, t, a
  <2>3. ASSUME NEW i \in (a + 1)..b PROVE q[i] = m + (i - a)
    <3>1. i - a \in 1..(n - m) /\ i \in (a + 1)..(a + Len(t))
      BY <1>1, <2>1
    <3> QED BY <3>1, <2>1, <2>2
  <2> QED BY <2>1, <2>2, <2>3
<1>3. /\ \A i \in 1..a : g[i] \in 1..m
      /\ \A i \in 2..a : g[i - 1] < g[i]
      /\ \A p \in 1..m : (\E i \in 1..a : g[i] = p) \/ (excused /\ log[p] = "thinking")
  BY DEF Orderly
<1>4. \A i \in 1..a : g[i] \in Nat
  OBVIOUS
<1> HIDE DEF q, a
<1>5. ASSUME NEW i \in 1..b PROVE q[i] \in 1..n
  <2>1. CASE i \in 1..a
    <3>1. q[i] = g[i] /\ g[i] \in 1..m
      BY <2>1, <1>2, <1>3
    <3> QED BY <3>1
  <2>2. CASE i \in (a + 1)..b
    <3>1. q[i] = m + (i - a)
      BY <2>2, <1>2
    <3> QED BY <3>1, <2>2, <1>1
  <2> QED BY <2>1, <2>2, <1>1
<1>6. ASSUME NEW i \in 2..b PROVE q[i - 1] < q[i]
  <2>1. CASE i \in 2..a
    <3>1. i - 1 \in 1..a /\ i \in 1..a
      BY <2>1, <1>1
    <3> QED BY <2>1, <3>1, <1>2, <1>3
  <2>2. CASE i = a + 1
    <3>1. i - 1 \in 1..a /\ q[i] = m + 1 /\ q[i - 1] = g[i - 1]
      BY <2>2, <1>1, <1>2
    <3> QED BY <3>1, <1>3, <1>4
  <2>3. CASE i > a + 1
    <3>1. q[i] = m + (i - a) /\ q[i - 1] = m + ((i - 1) - a)
      BY <2>3, <1>1, <1>2
    <3> QED BY <3>1, <1>1
  <2> QED BY <2>1, <2>2, <2>3, <1>1
<1>7. ASSUME NEW p \in 1..n
      PROVE  (\E i \in 1..b : q[i] = p) \/ (excused /\ log[p] = "thinking")
  <2>1. CASE p \in 1..m
    <3>1. CASE \E i \in 1..a : g[i] = p
      <4>1. PICK i \in 1..a : g[i] = p
        BY <3>1
      <4>2. i \in 1..b /\ q[i] = p
        BY <4>1, <1>1, <1>2
      <4> QED BY <4>2
    <3> QED BY <2>1, <3>1, <1>3
  <2>2. CASE p \in (m + 1)..n
    <3>1. a + (p - m) \in (a + 1)..b /\ a + (p - m) \in 1..b
      BY <2>2, <1>1
    <3>2. q[a + (p - m)] = m + ((a + (p - m)) - a)
      BY <3>1, <1>2
    <3> QED BY <3>1, <3>2, <1>1
  <2> QED BY <2>1, <2>2
<1>8. Orderly(q, n, log, excused)
  <2> HIDE DEF b
  <2> QED BY <1>2, <1>5, <1>6, <1>7 DEF Orderly
<1> QED BY <1>2, <1>8 DEF q

\* Reasoning that nothing carries is dropped from the end.
LEMMA OrderlyDrop ==
    ASSUME NEW g \in Seq(Nat), NEW r \in Seq(Nat), NEW m \in Nat, NEW log,
           NEW excused \in BOOLEAN, Orderly(g \o r, m, log, excused),
           \A i \in 1..Len(r) : log[r[i]] = "thinking"
    PROVE  Orderly(g, m, log, TRUE)
<1> DEFINE q == g \o r
           a == Len(g)
           b == a + Len(r)
<1>1. a \in Nat /\ b \in Nat /\ a <= b /\ Len(r) \in Nat
  OBVIOUS
<1>2. /\ Len(q) = b
      /\ \A i \in 1..a : q[i] = g[i]
      /\ \A i \in (a + 1)..b : q[i] = r[i - a]
  BY Concatenated
<1>3. /\ \A i \in 1..b : q[i] \in 1..m
      /\ \A i \in 2..b : q[i - 1] < q[i]
      /\ \A p \in 1..m : (\E i \in 1..b : q[i] = p) \/ (excused /\ log[p] = "thinking")
  <2>1. Orderly(q, m, log, excused)
    OBVIOUS
  <2> HIDE DEF q, b
  <2> QED BY <2>1, <1>2 DEF Orderly
<1> HIDE DEF q, a
<1>4. \A i \in 1..a : g[i] \in 1..m
  BY <1>1, <1>2, <1>3
<1>5. ASSUME NEW i \in 2..a PROVE g[i - 1] < g[i]
  <2>1. i \in 2..b /\ i \in 1..a /\ i - 1 \in 1..a
    BY <1>1
  <2> QED BY <2>1, <1>2, <1>3
<1>6. ASSUME NEW p \in 1..m PROVE (\E i \in 1..a : g[i] = p) \/ log[p] = "thinking"
  <2>1. CASE \E i \in 1..b : q[i] = p
    <3>1. PICK i \in 1..b : q[i] = p
      BY <2>1
    <3>2. CASE i \in 1..a
      BY <3>1, <3>2, <1>2
    <3>3. CASE i \in (a + 1)..b
      <4>1. i - a \in 1..Len(r) /\ q[i] = r[i - a]
        BY <3>3, <1>1, <1>2
      <4> QED BY <3>1, <4>1
    <3> QED BY <3>1, <3>2, <3>3, <1>1
  <2> QED BY <2>1, <1>3
<1> QED BY <1>4, <1>5, <1>6 DEF Orderly, a

-----------------------------------------------------------------------------
(* What the operators of the converter do to both.                          *)

LEMMA FrameType ==
    ASSUME NEW type \in {"message_start", "start", "delta", "signature", "stop",
                         "message_delta", "message_stop", "error"},
           NEW kind \in Kinds \cup Reasons \cup Signatures \cup {"encoded"},
           NEW index \in Nat, NEW pieces \in Seq(Nat)
    PROVE  /\ Frame(type, kind, index, pieces) \in Frames
           /\ Frame(type, kind, index, pieces).type = type
           /\ Frame(type, kind, index, pieces).kind = kind
           /\ Frame(type, kind, index, pieces).index = index
           /\ Frame(type, kind, index, pieces).pieces = pieces
  BY DEF Frame, Frames

LEMMA Pushed ==
    ASSUME NEW c, NEW s, NEW d, Linked(c, s, d), NEW f \in Frames, Allowed(d, f),
           f.kind = "tool" => CompleteTools(s, s.reason)
    PROVE  /\ Linked(c, Push(s, f), After(d, f, s.omit))
           /\ Kept(s, Push(s, f)) /\ Placed(s, Push(s, f))
<1> DEFINE t == Push(s, f)
           e == After(d, f, s.omit)
<1>1. /\ s \in Converters /\ d \in Clients /\ s.omit \in BOOLEAN /\ s.frames \in Seq(Frames)
      /\ Reaches(c, s.frames, d, s.omit)
  BY DEF Linked, Converters
<1>2. t = [s EXCEPT !.frames = Append(s.frames, f)]
  BY DEF Push
<1>3. /\ e \in Clients /\ Append(s.frames, f) \in Seq(Frames)
      /\ Reaches(c, Append(s.frames, f), e, s.omit)
  BY <1>1, ReachPush
<1>4. t \in Converters /\ t.frames = Append(s.frames, f) /\ Kept(s, t) /\ Placed(s, t)
  BY <1>1, <1>2, <1>3 DEF Converters, Kept, Placed
<1>5. ToolFrames(t)
  <2>1. CompleteTools(t, t.reason) = CompleteTools(s, s.reason)
    BY <1>4 DEF CompleteTools, IsRefusal, Kept
  <2>2. ASSUME NEW i \in 1..Len(t.frames)
        PROVE  t.frames[i] = f \/ (i \in 1..Len(s.frames) /\ t.frames[i] = s.frames[i])
    <3>1. Len(s.frames) \in Nat
      BY <1>1
    <3> QED BY <1>1, <1>4, <3>1
  <2>3. ToolFrames(s)
    BY DEF Linked
  <2> QED BY <2>1, <2>2, <2>3 DEF ToolFrames
<1>6. t.omit = s.omit
  BY <1>4 DEF Kept
<1> QED BY <1>3, <1>4, <1>5, <1>6 DEF Linked

\* Fields that frames do not depend on.
LEMMA LinkedChange ==
    ASSUME NEW c, NEW s, NEW d, Linked(c, s, d), NEW t \in Converters,
           t.frames = s.frames, t.omit = s.omit,
           CompleteTools(s, s.reason) => CompleteTools(t, t.reason)
    PROVE  Linked(c, t, d)
  BY DEF Linked, ToolFrames

LEMMA StartedSound ==
    ASSUME NEW c, NEW s, NEW d, NEW m, NEW log, Sound(c, s, d, m, log)
    PROVE  LET t == EnsureStarted(s)
           IN  /\ Kept(s, t) /\ t.started /\ t.open = s.open
               /\ \E e : Sound(c, t, e, m, log) /\ (~d.tooled => ~e.tooled)
<1> DEFINE t == EnsureStarted(s)
           f == Frame("message_start", "none", 0, <<>>)
           u == [s EXCEPT !.started = TRUE]
           e == After(d, f, s.omit)
<1>1. s \in Converters /\ d \in Clients /\ Linked(c, s, d) /\ Match(s, d) /\ Told(s, d, m, log)
  BY DEF Sound, Linked
<1>2. CASE s.started
  BY <1>1, <1>2 DEF EnsureStarted, Kept
<1>3. CASE ~s.started
  <2>1. f \in Frames /\ f.type = "message_start" /\ f.kind = "none"
    BY DEF Frame, Frames, Signatures
  <2>2. u \in Converters /\ u.frames = s.frames /\ u.omit = s.omit /\ u.reason = s.reason
        /\ CompleteTools(u, u.reason) = CompleteTools(s, s.reason)
    BY <1>1 DEF Converters, CompleteTools, IsRefusal
  <2>3. Linked(c, u, d)
    BY <1>1, <2>2, LinkedChange
  <2>4. Allowed(d, f)
    BY <1>1, <1>3, <2>1 DEF Allowed, Match
  <2>5. t = Push(u, f)
    BY <1>3 DEF EnsureStarted
  <2>6. Linked(c, t, e) /\ Kept(u, t) /\ Placed(u, t)
    <3> HIDE DEF f, u, t
    <3>1. f.kind # "tool"
      BY <2>1
    <3>2. Linked(c, Push(u, f), After(d, f, u.omit)) /\ Kept(u, Push(u, f)) /\ Placed(u, Push(u, f))
      BY <2>1, <2>3, <2>4, <3>1, Pushed
    <3> QED BY <2>2, <2>5, <3>2
  <2>7. e = [d EXCEPT !.stage = "message"]
    BY <2>1 DEF After
  <2>8. Kept(s, t) /\ t.started /\ t.open = s.open /\ t.replay = s.replay /\ t.next = s.next /\ t.at = s.at
    BY <1>1, <2>6 DEF Converters, Kept, Placed
  <2>9. /\ e.open = d.open /\ e.blocks = d.blocks /\ e.tooled = d.tooled /\ e.got = d.got
        /\ e.foreign = d.foreign /\ e.stage = "message"
    BY <1>1, <2>7 DEF Clients
  <2>10. Match(t, e)
    BY <1>1, <2>8, <2>9 DEF Match, Kept, CompleteTools, IsRefusal
  <2>11. Told(t, e, m, log)
    BY <1>1, <2>8, <2>9 DEF Told, Heard, Kept
  <2> QED BY <2>6, <2>8, <2>9, <2>10, <2>11 DEF Sound
<1> QED BY <1>2, <1>3

LEMMA ConcatNothing == \A s \in Seq(Nat) : s \o <<>> = s
  BY ConcatEmptySeq

\* Closing a block: a signature ends reasoning, and carries what the client
\* has not seen of it.
LEMMA CloseOpenSound ==
    ASSUME NEW c, NEW s, NEW d, NEW m, NEW log, Sound(c, s, d, m, log)
    PROVE  LET t == CloseOpen(s)
           IN  /\ Kept(s, t) /\ t.started = s.started /\ t.open = "none" /\ t.replay = <<>>
               /\ \E e : Sound(c, t, e, m, log) /\ e.tooled = d.tooled
<1> DEFINE t == CloseOpen(s)
<1>1. s \in Converters /\ d \in Clients /\ Linked(c, s, d) /\ Match(s, d) /\ Told(s, d, m, log)
  BY DEF Sound, Linked
<1>2. /\ s.open \in {"none", "text", "thinking"} /\ s.at \in Nat /\ s.next \in Nat
      /\ s.replay \in Seq(Nat) /\ s.signature \in Signatures /\ s.omit \in BOOLEAN
      /\ d.got \in Seq(Nat) /\ d.foreign \in BOOLEAN
  BY <1>1 DEF Converters, Clients
<1>3. CASE s.open = "none"
  BY <1>1, <1>3 DEF CloseOpen, Kept, Match
<1> DEFINE stop == Frame("stop", s.open, s.at, <<>>)
<1>4. stop \in Frames /\ stop.type = "stop" /\ stop.kind = s.open /\ stop.index = s.at
  BY <1>2 DEF Frame, Frames, Kinds, Signatures
<1>5. CASE s.open = "text"
  <2> DEFINE u == [s EXCEPT !.open = "none"]
             e == After(d, stop, s.omit)
  <2>1. u \in Converters /\ Kept(s, u) /\ u.frames = s.frames /\ u.omit = s.omit
        /\ u.started = s.started /\ u.next = s.next /\ u.open = "none" /\ u.replay = s.replay
    BY <1>1 DEF Converters, Kept
  <2>2. Linked(c, u, d)
    BY <1>1, <2>1, LinkedChange DEF Kept, CompleteTools, IsRefusal
  <2>3. t = Push(u, stop)
    BY <1>5 DEF CloseOpen
  <2>4. Allowed(d, stop)
    BY <1>1, <1>4, <1>5 DEF Allowed, Match
  <2>5. Linked(c, t, e) /\ Kept(u, t) /\ Placed(u, t)
    <3> HIDE DEF u, t, stop
    <3>1. stop.kind # "tool"
      BY <1>4, <1>5
    <3>2. Linked(c, Push(u, stop), After(d, stop, u.omit)) /\ Kept(u, Push(u, stop)) /\ Placed(u, Push(u, stop))
      BY <1>4, <2>2, <2>4, <3>1, Pushed
    <3> QED BY <2>1, <2>3, <3>2
  <2>6. /\ e.stage = d.stage /\ e.open = "none" /\ e.blocks = d.blocks /\ e.tooled = d.tooled
        /\ e.got = d.got /\ e.foreign = d.foreign
    BY <1>1, <1>4 DEF After, Clients
  <2>7. Kept(s, t) /\ t.started = s.started /\ t.open = "none" /\ t.replay = <<>> /\ t.next = s.next
    <3>1. s.replay = <<>>
      BY <1>1, <1>5 DEF Match
    <3> QED BY <2>1, <2>5, <3>1 DEF Kept, Placed
  <2>8. Match(t, e)
    BY <1>1, <2>6, <2>7 DEF Match, Kept, CompleteTools, IsRefusal
  <2>9. Told(t, e, m, log)
    BY <1>1, <1>5, <2>6, <2>7 DEF Told, Heard, Kept, Match
  <2> QED BY <2>5, <2>6, <2>7, <2>8, <2>9 DEF Sound
<1>6. CASE s.open = "thinking"
  <2> DEFINE f == SignatureOf(s)
             b == After(d, f, s.omit)
             v == Push(s, f)
             u == [v EXCEPT !.signature = "none", !.replay = <<>>, !.open = "none"]
             e == After(b, stop, s.omit)
             encoded == s.signature = "none" \/ (s.omit /\ s.replay # <<>> /\ s.signature # "router")
  <2>1. /\ f \in Frames /\ f.type = "signature" /\ f.index = s.at
        /\ f.kind = IF encoded THEN "encoded" ELSE s.signature
        /\ f.pieces = IF encoded THEN s.replay ELSE <<>>
    BY <1>2 DEF SignatureOf, Frame, Frames, Kinds, Signatures
  <2>2. Allowed(d, f) /\ f.kind # "tool"
    BY <1>1, <1>2, <1>6, <2>1 DEF Allowed, Match, Signatures
  <2>3. Linked(c, v, b) /\ Kept(s, v) /\ Placed(s, v)
    <3> HIDE DEF f
    <3> QED BY <1>1, <2>1, <2>2, Pushed
  <2>4. v \in Converters /\ b \in Clients
    BY <2>3 DEF Linked
  <2>5. u \in Converters /\ Kept(v, u) /\ u.frames = v.frames /\ u.omit = v.omit
        /\ u.started = v.started /\ u.next = v.next /\ u.open = "none" /\ u.replay = <<>>
    <3> HIDE DEF v
    <3>1. "none" \in Signatures /\ <<>> \in Seq(Nat) /\ "none" \in {"none", "text", "thinking"}
      BY DEF Signatures
    <3>2. u \in Converters
      BY <2>4, <3>1 DEF Converters
    <3>3. Kept(v, u) /\ u.frames = v.frames /\ u.omit = v.omit
      BY <2>4 DEF Converters, Kept
    <3> QED BY <2>4, <3>2, <3>3 DEF Converters
  <2>6. Linked(c, u, b)
    <3> HIDE DEF u, v, b
    <3> QED BY <2>3, <2>5, LinkedChange DEF Kept, CompleteTools, IsRefusal
  <2>7. /\ b.stage = d.stage /\ b.open = "signed" /\ b.blocks = d.blocks /\ b.tooled = d.tooled
        /\ b.got = (IF s.omit THEN d.got \o f.pieces ELSE d.got)
        /\ b.foreign = (d.foreign \/ f.kind = "router")
    <3> HIDE DEF f
    <3> QED BY <1>1, <2>1 DEF After, Clients
  <2>8. Allowed(b, stop)
    <3> HIDE DEF b, stop
    <3> QED BY <1>1, <1>4, <1>6, <2>7 DEF Allowed, Match
  <2>9. t = Push(u, stop)
    BY <1>6 DEF CloseOpen
  <2>10. Linked(c, t, e) /\ Kept(u, t) /\ Placed(u, t)
    <3> HIDE DEF u, v, t, b, stop
    <3>1. stop.kind # "tool"
      BY <1>4, <1>6
    <3>2. Linked(c, Push(u, stop), After(b, stop, u.omit)) /\ Kept(u, Push(u, stop)) /\ Placed(u, Push(u, stop))
      BY <1>4, <2>6, <2>8, <3>1, Pushed
    <3>3. u.omit = s.omit
      BY <2>3, <2>5 DEF Kept
    <3> QED BY <2>9, <3>2, <3>3
  <2>11. /\ e.stage = b.stage /\ e.open = "none" /\ e.blocks = b.blocks /\ e.tooled = b.tooled
         /\ e.got = b.got /\ e.foreign = b.foreign
    <3> HIDE DEF b, stop
    <3> QED BY <2>4, <1>4 DEF After, Clients
  <2>12. Kept(s, t) /\ t.started = s.started /\ t.open = "none" /\ t.replay = <<>> /\ t.next = s.next
    <3> HIDE DEF u, v, t
    <3> QED BY <2>3, <2>5, <2>10 DEF Kept, Placed
  <2>13. Match(t, e)
    <3> HIDE DEF u, v, t, e, b
    <3> QED BY <1>1, <2>7, <2>11, <2>12 DEF Match, Kept, CompleteTools, IsRefusal
  <2>14. Orderly(e.got, m, log, s.omit /\ e.foreign)
    <3> HIDE DEF e, b, f, encoded
    <3>1. Orderly(Heard(s, d), m, log, s.omit /\ d.foreign)
      BY <1>1 DEF Told
    <3>2. CASE ~s.omit
      <4>1. e.got = d.got /\ Heard(s, d) = d.got
        BY <1>2, <2>7, <2>11, <3>2, ConcatNothing DEF Heard
      <4> QED BY <3>1, <3>2, <4>1
    <3>3. CASE s.omit /\ encoded
      <4>1. e.got = Heard(s, d) /\ e.foreign = d.foreign
        BY <2>1, <2>7, <2>11, <3>3, <1>2 DEF Heard
      <4> QED BY <3>1, <4>1
    <3>4. CASE s.omit /\ ~encoded /\ s.replay = <<>>
      <4>1. e.got = d.got /\ Heard(s, d) = d.got
        BY <1>2, <2>1, <2>7, <2>11, <3>4, ConcatNothing DEF Heard
      <4>2. e.foreign \in BOOLEAN /\ (d.foreign => e.foreign)
        BY <1>2, <2>7, <2>11
      <4> QED BY <3>1, <3>4, <4>1, <4>2 DEF Orderly
    <3>5. CASE s.omit /\ ~encoded /\ s.replay # <<>>
      <4>1. s.signature = "router"
        BY <3>5 DEF encoded
      <4>2. e.got = d.got /\ e.foreign = TRUE /\ Heard(s, d) = d.got \o s.replay
        BY <1>2, <2>1, <2>7, <2>11, <3>5, <4>1, ConcatNothing DEF Heard
      <4>3. \A i \in 1..Len(s.replay) : log[s.replay[i]] = "thinking"
        BY <1>1 DEF Told
      <4>4. Orderly(d.got \o s.replay, m, log, s.omit /\ d.foreign) /\ m \in Nat
        BY <1>1, <3>1, <4>2 DEF Told
      <4>5. Orderly(d.got, m, log, TRUE)
        BY <1>2, <4>3, <4>4, OrderlyDrop
      <4> QED BY <3>5, <4>2, <4>5
    <3> QED BY <3>2, <3>3, <3>4, <3>5, <1>2
  <2>15. Told(t, e, m, log)
    <3>1. e.got \in Seq(Nat) /\ t.omit = s.omit
      BY <2>10, <2>12 DEF Linked, Clients, Kept
    <3> HIDE DEF t, e
    <3>2. Heard(t, e) = e.got
      BY <2>12, <3>1, ConcatNothing DEF Heard
    <3> QED BY <1>1, <2>12, <2>14, <3>1, <3>2 DEF Told
  <2>16. e.tooled = d.tooled
    BY <2>7, <2>11
  <2> QED BY <2>10, <2>12, <2>13, <2>15, <2>16 DEF Sound
<1> QED BY <1>2, <1>3, <1>5, <1>6

\* A block starts where none is open.
LEMMA BlockStarted ==
    ASSUME NEW c, NEW s, NEW d, Linked(c, s, d),
           d.stage = "message", d.open = "none", d.blocks = s.next,
           NEW kind \in Kinds, kind = "tool" => CompleteTools(s, s.reason)
    PROVE  LET t == StartBlock(s, kind)
           IN  /\ Kept(s, t) /\ t.started = s.started /\ t.open = s.open
               /\ t.replay = s.replay /\ t.next = s.next + 1 /\ t.at = s.next
               /\ \E e : /\ Linked(c, t, e)
                         /\ e.stage = "message" /\ e.open = kind /\ e.blocks = s.next + 1
                         /\ e.tooled = (d.tooled \/ kind = "tool")
                         /\ e.got = d.got /\ e.foreign = d.foreign
<1> DEFINE u == [s EXCEPT !.next = s.next + 1, !.at = s.next]
           f == Frame("start", kind, s.next, <<>>)
           t == StartBlock(s, kind)
           e == After(d, f, s.omit)
<1>1. s \in Converters /\ d \in Clients /\ s.next \in Nat
  BY DEF Linked, Converters
<1>2. /\ u \in Converters /\ Kept(s, u) /\ u.frames = s.frames
      /\ u.started = s.started /\ u.open = s.open /\ u.replay = s.replay
      /\ u.next = s.next + 1 /\ u.at = s.next
  <2>1. s.next + 1 \in Nat
    BY <1>1
  <2>2. u \in Converters
    BY <1>1, <2>1 DEF Converters
  <2>3. Kept(s, u)
    BY <1>1 DEF Converters, Kept
  <2> QED BY <1>1, <2>2, <2>3 DEF Converters
<1>3. f \in Frames /\ f.type = "start" /\ f.kind = kind /\ f.index = s.next
  BY <1>1 DEF Frame, Frames
<1>4. t = Push(u, f)
  BY DEF StartBlock
<1> HIDE DEF u, f, t
<1>5. u.omit = s.omit /\ CompleteTools(u, u.reason) = CompleteTools(s, s.reason)
  BY <1>2 DEF Kept, CompleteTools, IsRefusal
<1>6. Linked(c, u, d)
  BY <1>2, <1>5, LinkedChange
<1>7. Allowed(d, f)
  BY <1>3 DEF Allowed
<1>8. Linked(c, t, e) /\ Kept(u, t) /\ Placed(u, t)
  BY <1>3, <1>4, <1>5, <1>6, <1>7, Pushed
<1>9. e = [d EXCEPT !.open = kind, !.blocks = d.blocks + 1, !.tooled = d.tooled \/ kind = "tool"]
  BY <1>3 DEF After
<1>10. /\ e.stage = "message" /\ e.open = kind /\ e.blocks = s.next + 1
       /\ e.tooled = (d.tooled \/ kind = "tool")
       /\ e.got = d.got /\ e.foreign = d.foreign
  BY <1>1, <1>9 DEF Clients
<1> HIDE DEF e
<1> QED BY <1>2, <1>8, <1>10 DEF Kept, Placed, t

LEMMA EnsureBlockSound ==
    ASSUME NEW c, NEW s, NEW d, NEW m, NEW log, Sound(c, s, d, m, log), s.started,
           NEW kind \in {"text", "thinking"}
    PROVE  LET t == EnsureBlock(s, kind)
           IN  /\ Kept(s, t) /\ t.started /\ t.open = kind
               /\ \E e : Sound(c, t, e, m, log) /\ e.tooled = d.tooled
<1> DEFINE t == EnsureBlock(s, kind)
<1>1. CASE s.open = kind
  BY <1>1 DEF EnsureBlock, Kept
<1>2. CASE s.open # kind
  <2> DEFINE u == CloseOpen(s)
             v == StartBlock(u, kind)
  <2>1. Kept(s, u) /\ u.started /\ u.open = "none" /\ u.replay = <<>>
    BY CloseOpenSound
  <2>2. PICK b : Sound(c, u, b, m, log) /\ b.tooled = d.tooled
    BY CloseOpenSound
  <2> HIDE DEF u
  <2>3. /\ Linked(c, u, b) /\ u \in Converters /\ b \in Clients
        /\ b.stage = "message" /\ b.open = "none" /\ b.blocks = u.next
    BY <2>1, <2>2 DEF Sound, Linked, Match
  <2>4. kind \in Kinds /\ kind # "tool"
    BY DEF Kinds
  <2>5. Kept(u, v) /\ v.started /\ v.replay = <<>> /\ v.next = u.next + 1 /\ v.at = u.next
    BY <2>1, <2>3, <2>4, BlockStarted
  <2>6. PICK e : /\ Linked(c, v, e)
                 /\ e.stage = "message" /\ e.open = kind /\ e.blocks = u.next + 1
                 /\ e.tooled = (b.tooled \/ kind = "tool")
                 /\ e.got = b.got /\ e.foreign = b.foreign
    BY <2>3, <2>4, BlockStarted
  <2>7. v \in Converters /\ u.next \in Nat
    BY <2>3, <2>6 DEF Linked, Converters
  <2>8. t = [v EXCEPT !.open = kind]
    BY <1>2 DEF EnsureBlock, u
  <2> HIDE DEF t, v
  <2>9. /\ t \in Converters /\ Kept(v, t) /\ t.frames = v.frames /\ t.omit = v.omit
        /\ t.open = kind /\ t.started = v.started /\ t.replay = v.replay
        /\ t.next = v.next /\ t.at = v.at
    BY <2>7, <2>8 DEF Converters, Kept
  <2>10. Linked(c, t, e)
    BY <2>6, <2>9, LinkedChange DEF Kept, CompleteTools, IsRefusal
  <2>11. Kept(s, t)
    BY <2>1, <2>5, <2>9 DEF Kept
  <2>12. e.tooled = d.tooled
    <3>1. e.tooled \in BOOLEAN /\ b.tooled \in BOOLEAN
      BY <2>3, <2>6 DEF Linked, Clients
    <3> QED BY <2>2, <2>4, <2>6, <3>1
  <2>13. Match(t, e)
    <3>1. b.tooled => CompleteTools(u, u.reason)
      BY <2>2 DEF Sound, Match
    <3>2. CompleteTools(t, t.reason) = CompleteTools(u, u.reason)
      BY <2>5, <2>9 DEF Kept, CompleteTools, IsRefusal
    <3> QED BY <2>2, <2>5, <2>6, <2>7, <2>9, <2>12, <3>1, <3>2 DEF Match
  <2>14. Told(t, e, m, log)
    <3>1. t.omit = u.omit /\ t.replay = u.replay
      BY <2>1, <2>5, <2>9 DEF Kept
    <3> QED BY <2>2, <2>6, <3>1 DEF Sound, Told, Heard
  <2> QED BY <2>5, <2>9, <2>10, <2>11, <2>12, <2>13, <2>14 DEF Sound, t
<1> QED BY <1>1, <1>2

LEMMA Regrouped ==
    ASSUME NEW r \in Seq(Nat), NEW s \in Seq(Nat), NEW t \in Seq(Nat)
    PROVE  (r \o s) \o t = r \o (s \o t)
  BY ConcatAssociative

\* A delta of the open block.
LEMMA DeltaPushed ==
    ASSUME NEW c, NEW s, NEW d, Linked(c, s, d), NEW f \in Frames,
           f.type = "delta", f.kind = d.open, f.index + 1 = d.blocks, d.stage = "message",
           f.kind = "tool" => CompleteTools(s, s.reason)
    PROVE  /\ Linked(c, Push(s, f), After(d, f, s.omit))
           /\ Kept(s, Push(s, f)) /\ Placed(s, Push(s, f))
<1>1. Allowed(d, f)
  BY DEF Allowed
<1> QED BY <1>1, Pushed

\* Text that need not wait: the next pieces.
LEMMA EmitTextSound ==
    ASSUME NEW c, NEW s, NEW d, NEW m, NEW log, Sound(c, s, d, m, log), s.started, ~s.deferring,
           NEW n \in Nat, m <= n, n <= Len(log)
    PROVE  LET t == EmitText(s, Span(m, n))
           IN  /\ Kept(s, t) /\ t.started
               /\ \E e : Sound(c, t, e, n, log) /\ (~d.tooled => ~e.tooled)
<1> DEFINE b == EnsureBlock(s, "text")
           t == EmitText(s, Span(m, n))
<1>1. /\ Kept(s, b) /\ b.started /\ b.open = "text"
      /\ \E e : Sound(c, b, e, m, log) /\ e.tooled = d.tooled
  BY EnsureBlockSound
<1>2. PICK a : Sound(c, b, a, m, log) /\ a.tooled = d.tooled
  BY <1>1
<1>3. t = Push(b, Frame("delta", "text", b.at, Span(m, n)))
  BY DEF EmitText
<1> HIDE DEF b, t
<1>4. /\ Linked(c, b, a) /\ b \in Converters /\ a \in Clients /\ b.next \in Nat /\ b.at \in Nat
      /\ a.stage = "message" /\ a.open = "text" /\ a.blocks = b.at + 1 /\ b.replay = <<>>
      /\ m \in Nat /\ b.omit \in BOOLEAN /\ a.foreign \in BOOLEAN /\ a.got \in Seq(Nat)
  <2>1. Linked(c, b, a) /\ Match(b, a) /\ Told(b, a, m, log)
    BY <1>2 DEF Sound
  <2>2. b \in Converters /\ a \in Clients
    BY <2>1 DEF Linked
  <2> QED BY <1>1, <2>1, <2>2 DEF Match, Told, Converters, Clients
<1>5. Span(m, n) \in Seq(Nat) /\ "text" \in Kinds
  BY <1>4, SpanIsSeq DEF Kinds
<1> DEFINE f == Frame("delta", "text", b.at, Span(m, n))
           e == After(a, f, b.omit)
<1>a. t = Push(b, f) /\ e = After(a, f, b.omit)
  BY <1>3
<1>b. /\ f \in Frames /\ f.type = "delta" /\ f.kind = "text" /\ f.index = b.at
      /\ f.pieces = Span(m, n)
  BY <1>4, <1>5, FrameType DEF f
<1> HIDE DEF e, f
<1>6. /\ Kept(b, t) /\ Placed(b, t) /\ Linked(c, t, e)
      /\ e.stage = a.stage /\ e.open = a.open /\ e.blocks = a.blocks
      /\ e.tooled = a.tooled /\ e.foreign = a.foreign
      /\ e.got = a.got \o Span(m, n)
  <2>1. f.kind = a.open /\ f.index + 1 = a.blocks /\ f.kind # "tool"
    BY <1>4, <1>b
  <2>2. f \in Frames /\ f.type = "delta" /\ a.stage = "message" /\ Linked(c, b, a)
    BY <1>4, <1>b
  <2>3. /\ Linked(c, Push(b, f), After(a, f, b.omit))
        /\ Kept(b, Push(b, f)) /\ Placed(b, Push(b, f))
    BY <2>1, <2>2, DeltaPushed
  <2>4. e = [a EXCEPT !.got = a.got \o Span(m, n)]
    BY <1>a, <1>b DEF After
  <2> QED BY <1>4, <1>a, <2>3, <2>4 DEF Clients
<1>7. /\ Linked(c, t, e)
      /\ e.stage = a.stage /\ e.open = a.open /\ e.blocks = a.blocks
      /\ e.tooled = a.tooled /\ e.foreign = a.foreign
      /\ e.got = a.got \o Span(m, n)
  BY <1>6
<1>8. Match(t, e)
  <2>1. CompleteTools(t, t.reason) = CompleteTools(b, b.reason)
    BY <1>6 DEF Kept, CompleteTools, IsRefusal
  <2> QED BY <1>2, <1>6, <1>7, <2>1 DEF Sound, Match, Placed
<1>9. Told(t, e, n, log)
  <2>1. t.replay = <<>> /\ t.omit = b.omit
    BY <1>4, <1>6 DEF Kept, Placed
  <2>2. Heard(b, a) = a.got /\ Heard(t, e) = e.got
    <3>1. e.got \in Seq(Nat)
      BY <1>7 DEF Linked, Clients
    <3> QED BY <1>4, <2>1, <3>1, ConcatNothing DEF Heard
  <2>3. Orderly(a.got, m, log, b.omit /\ a.foreign)
    BY <1>2, <2>2 DEF Sound, Told
  <2>4. Orderly(e.got, n, log, b.omit /\ a.foreign)
    BY <1>4, <1>7, <2>3, OrderlyAppend
  <2>5. n \in 0..Len(log)
    <3>1. m \in 0..Len(log)
      BY <1>2 DEF Sound, Told
    <3> QED BY <3>1
  <2> QED BY <1>7, <2>1, <2>2, <2>4, <2>5 DEF Told
<1>10. Kept(s, t) /\ t.started
  BY <1>1, <1>6 DEF Kept, Placed
<1> QED BY <1>2, <1>7, <1>8, <1>9, <1>10 DEF Sound, t

\* Reasoning that need not wait: shown at once, or kept for the signature.
LEMMA EmitThinkingSound ==
    ASSUME NEW c, NEW s, NEW d, NEW m, NEW log, Sound(c, s, d, m, log), s.started, ~s.deferring,
           NEW n \in Nat, m <= n, n <= Len(log),
           \A p \in (m + 1)..n : log[p] = "thinking"
    PROVE  LET t == EmitThinking(s, Span(m, n))
           IN  /\ Kept(s, t) /\ t.started
               /\ \E e : Sound(c, t, e, n, log) /\ (~d.tooled => ~e.tooled)
<1> DEFINE v == EnsureBlock(s, "thinking")
           pieces == Span(m, n)
           b == [v EXCEPT !.replay = v.replay \o pieces]
           t == EmitThinking(s, Span(m, n))
<1>1. /\ Kept(s, v) /\ v.started /\ v.open = "thinking"
      /\ \E e : Sound(c, v, e, m, log) /\ e.tooled = d.tooled
  BY EnsureBlockSound
<1>2. PICK a : Sound(c, v, a, m, log) /\ a.tooled = d.tooled
  BY <1>1
<1>3. t = IF v.omit \/ pieces = <<>> THEN b ELSE Push(b, Frame("delta", "thinking", b.at, pieces))
  <2>1. s \in Converters
    BY DEF Sound, Linked
  <2>2. v \in Converters
    BY <1>2 DEF Sound, Linked
  <2>3. v.omit = s.omit
    BY <1>1 DEF Kept
  <2> QED BY <2>3 DEF EmitThinking
<1> HIDE DEF v, t
<1>4. /\ Linked(c, v, a) /\ v \in Converters /\ a \in Clients /\ v.next \in Nat /\ v.at \in Nat
      /\ a.stage = "message" /\ a.open = "thinking" /\ a.blocks = v.at + 1 /\ v.replay \in Seq(Nat)
      /\ m \in Nat /\ v.omit \in BOOLEAN /\ a.foreign \in BOOLEAN /\ a.got \in Seq(Nat)
  <2>1. Linked(c, v, a) /\ Match(v, a) /\ Told(v, a, m, log)
    BY <1>2 DEF Sound
  <2>2. v \in Converters /\ a \in Clients
    BY <2>1 DEF Linked
  <2> QED BY <1>1, <2>1, <2>2 DEF Match, Told, Converters, Clients
<1>5. /\ pieces \in Seq(Nat) /\ "thinking" \in Kinds /\ Len(pieces) = n - m
      /\ \A i \in 1..(n - m) : pieces[i] = m + i
  BY <1>4, SpanIsSeq DEF Kinds
<1> HIDE DEF pieces
<1>6. /\ v.replay \o pieces \in Seq(Nat) /\ Len(v.replay \o pieces) = Len(v.replay) + Len(pieces)
      /\ \A i \in 1..Len(v.replay) : (v.replay \o pieces)[i] = v.replay[i]
      /\ \A i \in (Len(v.replay) + 1)..(Len(v.replay) + Len(pieces)) :
             (v.replay \o pieces)[i] = pieces[i - Len(v.replay)]
  BY <1>4, <1>5, Concatenated
<1>7. /\ b \in Converters /\ Kept(v, b) /\ b.frames = v.frames /\ b.started = v.started
      /\ b.open = v.open /\ b.next = v.next /\ b.at = v.at /\ b.replay = v.replay \o pieces
  <2>1. b \in Converters
    BY <1>4, <1>6 DEF Converters
  <2>2. Kept(v, b)
    BY <1>4 DEF Converters, Kept
  <2> QED BY <1>4, <2>1, <2>2 DEF Converters
<1> HIDE DEF b
<1>8. Linked(c, b, a)
  <2>1. b.omit = v.omit /\ CompleteTools(b, b.reason) = CompleteTools(v, v.reason)
    BY <1>7 DEF Kept, CompleteTools, IsRefusal
  <2> QED BY <1>4, <1>7, <2>1, LinkedChange
<1>9. \A i \in 1..Len(b.replay) : b.replay[i] \in 1..n /\ log[b.replay[i]] = "thinking"
  <2> SUFFICES ASSUME NEW i \in 1..Len(b.replay)
               PROVE  b.replay[i] \in 1..n /\ log[b.replay[i]] = "thinking"
    OBVIOUS
  <2>1. \A k \in 1..Len(v.replay) : v.replay[k] \in 1..m /\ log[v.replay[k]] = "thinking"
    BY <1>2 DEF Sound, Told
  <2>2. CASE i \in 1..Len(v.replay)
    <3>1. b.replay[i] = v.replay[i]
      BY <2>2, <1>6, <1>7
    <3>2. v.replay[i] \in 1..m /\ log[v.replay[i]] = "thinking"
      BY <2>1, <2>2
    <3> QED BY <3>1, <3>2, <1>4
  <2>3. CASE i \in (Len(v.replay) + 1)..(Len(v.replay) + Len(pieces))
    <3> DEFINE k == i - Len(v.replay)
    <3>1. Len(v.replay) \in Nat
      BY <1>4
    <3>2. k \in 1..(n - m)
      BY <2>3, <1>5, <3>1
    <3>3. b.replay[i] = pieces[k]
      BY <2>3, <1>6, <1>7
    <3> HIDE DEF k
    <3>4. b.replay[i] = m + k /\ m + k \in (m + 1)..n
      BY <3>2, <3>3, <1>4, <1>5
    <3> QED BY <3>4, <1>4
  <2>4. Len(v.replay) \in Nat /\ Len(pieces) \in Nat
    BY <1>4, <1>5
  <2> QED BY <2>2, <2>3, <2>4, <1>6, <1>7
<1>10. n \in 0..Len(log)
  <2>1. m \in 0..Len(log)
    BY <1>2 DEF Sound, Told
  <2> QED BY <2>1
<1>11. Orderly(Heard(v, a), m, log, v.omit /\ a.foreign)
  BY <1>2 DEF Sound, Told
<1>12. CASE v.omit \/ pieces = <<>>
  <2>1. t = b
    BY <1>3, <1>12
  <2>2. Match(t, a)
    <3>1. CompleteTools(b, b.reason) = CompleteTools(v, v.reason)
      BY <1>7 DEF Kept, CompleteTools, IsRefusal
    <3> QED BY <1>1, <1>2, <1>7, <2>1, <3>1 DEF Sound, Match
  <2>3. Orderly(Heard(t, a), n, log, v.omit /\ a.foreign)
    <3>1. CASE v.omit
      <4>1. Heard(t, a) = (a.got \o v.replay) \o pieces
        <5>1. Heard(t, a) = a.got \o (v.replay \o pieces)
          BY <1>7, <2>1, <3>1 DEF Heard, Kept
        <5>2. (a.got \o v.replay) \o pieces = a.got \o (v.replay \o pieces)
          BY <1>4, <1>5, Regrouped
        <5> QED BY <5>1, <5>2
      <4>2. Heard(v, a) = a.got \o v.replay /\ a.got \o v.replay \in Seq(Nat)
        BY <1>4, <3>1, Concatenated DEF Heard
      <4>3. Orderly(a.got \o v.replay, m, log, v.omit /\ a.foreign)
        BY <1>11, <4>2
      <4>4. Orderly((a.got \o v.replay) \o Span(m, n), n, log, v.omit /\ a.foreign)
        BY <1>4, <4>2, <4>3, OrderlyAppend
      <4> QED BY <4>1, <4>4 DEF pieces
    <3>2. CASE ~v.omit /\ pieces = <<>>
      <4>1. n = m
        BY <1>4, <1>5, <3>2
      <4>2. Heard(t, a) = Heard(v, a)
        BY <1>7, <2>1, <3>2 DEF Heard, Kept
      <4> QED BY <1>11, <4>1, <4>2
    <3> QED BY <1>12, <3>1, <3>2
  <2>4. Told(t, a, n, log)
    BY <1>7, <1>9, <1>10, <2>1, <2>3 DEF Told, Kept
  <2>5. Kept(s, t) /\ t.started
    BY <1>1, <1>7, <2>1 DEF Kept
  <2> QED BY <1>2, <1>8, <2>1, <2>2, <2>4, <2>5 DEF Sound, t
<1>13. CASE ~(v.omit \/ pieces = <<>>)
  <2>1. t = Push(b, Frame("delta", "thinking", b.at, pieces))
    BY <1>3, <1>13
  <2>2. a.blocks = b.at + 1
    BY <1>4, <1>7
  <2> DEFINE f == Frame("delta", "thinking", b.at, pieces)
             e == After(a, f, b.omit)
  <2>a. t = Push(b, f) /\ e = After(a, f, b.omit)
    BY <2>1
  <2>b. /\ f \in Frames /\ f.type = "delta" /\ f.kind = "thinking" /\ f.index = b.at
        /\ f.pieces = pieces
    <3>1. b.at \in Nat
      BY <1>4, <1>7
    <3> QED BY <1>5, <3>1, FrameType DEF f
  <2>c. f.kind = a.open /\ f.index + 1 = a.blocks /\ f.kind # "tool" /\ a.stage = "message"
    BY <1>4, <2>2, <2>b
  <2> HIDE DEF e, f
  <2>3. /\ Kept(b, t) /\ Placed(b, t) /\ Linked(c, t, e)
        /\ e.stage = a.stage /\ e.open = a.open /\ e.blocks = a.blocks
        /\ e.tooled = a.tooled /\ e.foreign = a.foreign
        /\ e.got = a.got \o pieces
    <3>1. /\ Linked(c, Push(b, f), After(a, f, b.omit))
          /\ Kept(b, Push(b, f)) /\ Placed(b, Push(b, f))
        BY <1>8, <2>b, <2>c, DeltaPushed
    <3>2. e = [a EXCEPT !.got = a.got \o pieces]
      BY <2>a, <2>b DEF After
    <3> QED BY <1>4, <2>a, <3>1, <3>2 DEF Clients
  <2>4. /\ Linked(c, t, e)
        /\ e.stage = a.stage /\ e.open = a.open /\ e.blocks = a.blocks
        /\ e.tooled = a.tooled /\ e.foreign = a.foreign
        /\ e.got = a.got \o pieces
    BY <2>3
  <2>5. Kept(s, t) /\ t.started
    BY <1>1, <1>7, <2>3 DEF Kept, Placed
  <2>6. Match(t, e)
    <3>1. CompleteTools(t, t.reason) = CompleteTools(v, v.reason)
      BY <1>7, <2>3 DEF Kept, CompleteTools, IsRefusal
    <3> QED BY <1>1, <1>2, <1>7, <2>3, <2>4, <3>1 DEF Sound, Match, Placed
  <2>7. Orderly(Heard(t, e), n, log, v.omit /\ a.foreign)
    <3>1. t.omit = FALSE
      BY <1>4, <1>7, <1>13, <2>3 DEF Kept
    <3>2. Heard(v, a) = a.got
      BY <1>4, <1>13, ConcatNothing DEF Heard
    <3>3. Heard(t, e) = a.got \o pieces
      <4>1. e.got \in Seq(Nat)
        BY <2>4 DEF Linked, Clients
      <4> QED BY <2>4, <3>1, <4>1, ConcatNothing DEF Heard
    <3>4. Orderly(a.got \o Span(m, n), n, log, v.omit /\ a.foreign)
      BY <1>4, <1>11, <3>2, OrderlyAppend
    <3> QED BY <3>3, <3>4 DEF pieces
  <2>8. Told(t, e, n, log)
    <3>1. t.replay = b.replay /\ t.omit = v.omit
      BY <1>7, <2>3 DEF Kept, Placed
    <3> QED BY <1>9, <1>10, <2>4, <2>7, <3>1 DEF Told
  <2> QED BY <1>2, <2>4, <2>5, <2>6, <2>8 DEF Sound, t
<1> QED BY <1>12, <1>13

LEMMA SpanOne ==
    ASSUME NEW m \in Nat
    PROVE  Span(m, m + 1) = <<m + 1>> /\ Span(m, m) = <<>>
<1>1. m + 1 \in Nat /\ m <= m + 1 /\ (m + 1) - m = 1 /\ m <= m /\ m - m = 0
  OBVIOUS
<1>2. \A n \in Nat : m <= n => /\ Span(m, n) \in Seq(Nat) /\ Len(Span(m, n)) = n - m
                               /\ \A i \in 1..(n - m) : Span(m, n)[i] = m + i
  BY SpanIsSeq
<1>3. Span(m, m + 1) \in Seq(Nat) /\ Len(Span(m, m + 1)) = 1 /\ Span(m, m + 1)[1] = m + 1
  <2> DEFINE n == m + 1
  <2>1. n \in Nat /\ m <= n /\ n - m = 1 /\ 1 \in 1..1
    OBVIOUS
  <2>2. n = m + 1
    OBVIOUS
  <2> HIDE DEF n
  <2>3. Span(m, n) \in Seq(Nat) /\ Len(Span(m, n)) = 1 /\ Span(m, n)[1] = m + 1
    BY <1>2, <2>1
  <2> QED BY <2>2, <2>3
<1>4. Span(m, m) \in Seq(Nat) /\ Len(Span(m, m)) = 0
  BY <1>1, <1>2
<1> QED BY <1>3, <1>4

LEMMA SpanJoin ==
    ASSUME NEW a \in Nat, NEW b \in Nat, NEW e \in Nat, a <= b, b <= e
    PROVE  Span(a, b) \o Span(b, e) = Span(a, e)
<1> DEFINE p == Span(a, b)
           q == Span(b, e)
           r == Span(a, e)
<1>1. /\ p \in Seq(Nat) /\ Len(p) = b - a /\ \A i \in 1..(b - a) : p[i] = a + i
      /\ q \in Seq(Nat) /\ Len(q) = e - b /\ \A i \in 1..(e - b) : q[i] = b + i
      /\ r \in Seq(Nat) /\ Len(r) = e - a /\ \A i \in 1..(e - a) : r[i] = a + i
  <2>1. p \in Seq(Nat) /\ Len(p) = b - a /\ \A i \in 1..(b - a) : p[i] = a + i
    BY SpanIsSeq
  <2>2. q \in Seq(Nat) /\ Len(q) = e - b /\ \A i \in 1..(e - b) : q[i] = b + i
    BY SpanIsSeq
  <2>3. r \in Seq(Nat) /\ Len(r) = e - a /\ \A i \in 1..(e - a) : r[i] = a + i
    <3>1. a <= e
      OBVIOUS
    <3> QED BY <3>1, SpanIsSeq
  <2> QED BY <2>1, <2>2, <2>3
<1> HIDE DEF p, q, r
<1>2. /\ p \o q \in Seq(Nat) /\ Len(p \o q) = Len(p) + Len(q)
      /\ \A i \in 1..Len(p) : (p \o q)[i] = p[i]
      /\ \A i \in (Len(p) + 1)..(Len(p) + Len(q)) : (p \o q)[i] = q[i - Len(p)]
  BY <1>1, Concatenated
<1>3. Len(p \o q) = Len(r)
  BY <1>1, <1>2
<1>4. ASSUME NEW i \in 1..Len(r) PROVE (p \o q)[i] = r[i]
  <2>1. r[i] = a + i /\ i \in 1..(e - a)
    BY <1>1
  <2>2. CASE i \in 1..(b - a)
    BY <2>1, <2>2, <1>1, <1>2
  <2>3. CASE i \in ((b - a) + 1)..(e - a)
    <3>1. i - (b - a) \in 1..(e - b) /\ i \in (Len(p) + 1)..(Len(p) + Len(q))
      BY <2>3, <1>1
    <3>2. (p \o q)[i] = q[i - (b - a)]
      BY <3>1, <1>1, <1>2
    <3>3. q[i - (b - a)] = b + (i - (b - a))
      BY <3>1, <1>1
    <3> QED BY <2>1, <3>2, <3>3
  <2>4. i \in 1..(b - a) \/ i \in ((b - a) + 1)..(e - a)
    BY <2>1
  <2> QED BY <2>2, <2>3, <2>4
<1>5. p \o q = r
  BY <1>1, <1>2, <1>3, <1>4, SeqEqual
<1> QED BY <1>5 DEF p, q, r

\* A whole tool call: its block is written at once.
LEMMA WriteToolSound ==
    ASSUME NEW c, NEW s, NEW d, NEW m, NEW log, Sound(c, s, d, m, log), s.started,
           s.open = "none", CompleteTools(s, s.reason), m + 1 <= Len(log),
           NEW i \in Indices, s.tools[i].piece = m + 1
    PROVE  LET t == WriteTool(s, i)
           IN  /\ Kept(s, t) /\ t.started
               /\ \E e : Sound(c, t, e, m + 1, log)
<1> DEFINE b == StartBlock(s, "tool")
           f == Frame("delta", "tool", b.at, <<s.tools[i].piece>>)
           g == Frame("stop", "tool", b.at, <<>>)
           u == Push(b, f)
           t == Push(u, g)
<1>1. /\ Linked(c, s, d) /\ s.next \in Nat /\ s.omit \in BOOLEAN /\ d \in Clients /\ m \in Nat
      /\ d.stage = "message" /\ d.open = "none" /\ d.blocks = s.next /\ s.replay = <<>>
  <2>1. Linked(c, s, d) /\ Match(s, d) /\ Told(s, d, m, log)
    BY DEF Sound
  <2>2. s \in Converters /\ d \in Clients
    BY <2>1 DEF Linked
  <2> QED BY <2>1, <2>2 DEF Match, Told, Converters
<1>2. "tool" \in Kinds
  BY DEF Kinds
<1>3. /\ Kept(s, b) /\ b.started = s.started /\ b.open = s.open
      /\ b.replay = s.replay /\ b.next = s.next + 1 /\ b.at = s.next
      /\ \E e : /\ Linked(c, b, e)
                /\ e.stage = "message" /\ e.open = "tool" /\ e.blocks = s.next + 1
                /\ e.got = d.got /\ e.foreign = d.foreign
  <2> DEFINE kind == "tool"
  <2>1. kind \in Kinds /\ b = StartBlock(s, kind) /\ kind = "tool"
    BY <1>2
  <2> HIDE DEF kind, b
  <2>2. /\ Kept(s, StartBlock(s, kind))
        /\ StartBlock(s, kind).started = s.started /\ StartBlock(s, kind).open = s.open
        /\ StartBlock(s, kind).replay = s.replay
        /\ StartBlock(s, kind).next = s.next + 1 /\ StartBlock(s, kind).at = s.next
    <3>1. s \in Converters
      BY <1>1 DEF Linked
    <3> QED BY <3>1 DEF Converters, StartBlock, Push, Kept
  <2>3. \E e : /\ Linked(c, StartBlock(s, kind), e)
              /\ e.stage = "message" /\ e.open = kind /\ e.blocks = s.next + 1
              /\ e.tooled = (d.tooled \/ kind = "tool")
              /\ e.got = d.got /\ e.foreign = d.foreign
    BY <1>1, <2>1, BlockStarted
  <2> QED BY <2>1, <2>2, <2>3
<1>4. PICK a : /\ Linked(c, b, a)
               /\ a.stage = "message" /\ a.open = "tool" /\ a.blocks = s.next + 1
               /\ a.got = d.got /\ a.foreign = d.foreign
  BY <1>3
<1>5. /\ a \in Clients /\ b \in Converters /\ b.omit = s.omit
      /\ CompleteTools(b, b.reason)
  BY <1>3, <1>4 DEF Linked, Kept, CompleteTools, IsRefusal
<1>6. /\ f \in Frames /\ f.type = "delta" /\ f.kind = "tool" /\ f.index = s.next
      /\ f.pieces = Span(m, m + 1)
  <2>1. <<m + 1>> \in Seq(Nat) /\ <<m + 1>> = Span(m, m + 1)
    BY <1>1, SpanOne
  <2>2. s.next \in Nat
    BY <1>1
  <2>3. f = Frame("delta", "tool", s.next, <<m + 1>>)
    BY <1>3
  <2> HIDE DEF f
  <2>4. f \in Frames /\ f.type = "delta" /\ f.kind = "tool" /\ f.index = s.next
        /\ f.pieces = <<m + 1>>
    BY <1>2, <2>1, <2>2, <2>3 DEF Frame, Frames
  <2> QED BY <2>1, <2>4
<1>7. /\ g \in Frames /\ g.type = "stop" /\ g.kind = "tool" /\ g.index = s.next
  <2>1. <<>> \in Seq(Nat)
    OBVIOUS
  <2>2. s.next \in Nat
    BY <1>1
  <2>3. g = Frame("stop", "tool", s.next, <<>>)
    BY <1>3
  <2> HIDE DEF g
  <2> QED BY <1>2, <2>1, <2>2, <2>3 DEF Frame, Frames
<1> DEFINE h == After(a, f, b.omit)
           e == After(h, g, u.omit)
<1> HIDE DEF b, f, g
<1>8. Linked(c, u, h) /\ Kept(b, u) /\ Placed(b, u)
  <2>1. f.kind = a.open /\ f.index + 1 = a.blocks /\ a.stage = "message"
    BY <1>4, <1>6
  <2> QED BY <1>4, <1>5, <1>6, <2>1, DeltaPushed
<1>9. /\ h.stage = "message" /\ h.open = "tool" /\ h.blocks = s.next + 1
      /\ h.got = d.got \o Span(m, m + 1) /\ h.foreign = d.foreign
  <2>1. h = [a EXCEPT !.got = a.got \o Span(m, m + 1)]
    BY <1>6 DEF After
  <2> QED BY <1>4, <1>5, <2>1 DEF Clients
<1>10. h \in Clients /\ u \in Converters /\ u.omit = s.omit /\ CompleteTools(u, u.reason)
  BY <1>5, <1>8 DEF Linked, Kept, CompleteTools, IsRefusal
<1> HIDE DEF h, u
<1>11. Allowed(h, g)
  BY <1>7, <1>9 DEF Allowed
<1>12. Linked(c, t, e) /\ Kept(u, t) /\ Placed(u, t)
  BY <1>7, <1>8, <1>10, <1>11, Pushed
<1>13. /\ e.stage = "message" /\ e.open = "none" /\ e.blocks = s.next + 1
       /\ e.got = d.got \o Span(m, m + 1) /\ e.foreign = d.foreign
  <2>1. e = [h EXCEPT !.open = "none"]
    BY <1>7 DEF After
  <2> QED BY <1>9, <1>10, <2>1 DEF Clients
<1> HIDE DEF t, e
<1>14. Kept(s, t) /\ t.started /\ t.open = "none" /\ t.replay = <<>> /\ t.next = s.next + 1
  BY <1>1, <1>3, <1>8, <1>12 DEF Kept, Placed
<1>15. Match(t, e)
  <2>1. CompleteTools(t, t.reason)
    BY <1>14 DEF Kept, CompleteTools, IsRefusal
  <2> QED BY <1>13, <1>14, <2>1 DEF Match
<1>16. Told(t, e, m + 1, log)
  <2>1. e.got \in Seq(Nat) /\ d.got \in Seq(Nat) /\ d.foreign \in BOOLEAN
    BY <1>1, <1>12 DEF Linked, Clients
  <2>2. Heard(s, d) = d.got /\ Heard(t, e) = e.got
    BY <1>1, <1>14, <2>1, ConcatNothing DEF Heard
  <2>3. Orderly(d.got, m, log, s.omit /\ d.foreign) /\ m \in 0..Len(log)
    BY <2>2 DEF Sound, Told
  <2>4. Orderly(d.got \o Span(m, m + 1), m + 1, log, s.omit /\ d.foreign)
    <3>1. (s.omit /\ d.foreign) \in BOOLEAN /\ m + 1 \in Nat /\ m <= m + 1
      BY <1>1
    <3> QED BY <1>1, <2>1, <2>3, <3>1, OrderlyAppend
  <2>5. m + 1 \in 0..Len(log) /\ t.omit = s.omit
    BY <1>1, <1>14, <2>3 DEF Kept
  <2> QED BY <1>13, <1>14, <2>2, <2>4, <2>5 DEF Told
<1>17. t = WriteTool(s, i)
  BY DEF WriteTool, t, u, b, f, g
<1> QED BY <1>12, <1>14, <1>15, <1>16, <1>17 DEF Sound

\* Fields that no frame and no piece depends on.
LEMMA SoundChange ==
    ASSUME NEW c, NEW s, NEW d, NEW m, NEW log, Sound(c, s, d, m, log), NEW t \in Converters,
           t.frames = s.frames, t.omit = s.omit, t.started = s.started, t.open = s.open,
           t.next = s.next, t.at = s.at, t.replay = s.replay,
           CompleteTools(s, s.reason) => CompleteTools(t, t.reason)
    PROVE  Sound(c, t, d, m, log)
<1>1. Linked(c, s, d) /\ Match(s, d) /\ Told(s, d, m, log)
  BY DEF Sound
<1>2. Linked(c, t, d)
  BY <1>1, LinkedChange
<1>3. Match(t, d) /\ Told(t, d, m, log)
  BY <1>1 DEF Match, Told, Heard
<1> QED BY <1>2, <1>3 DEF Sound

LEMMA SignatureSet ==
    ASSUME NEW c, NEW s, NEW d, NEW m, NEW log, Sound(c, s, d, m, log), NEW x \in Signatures
    PROVE  LET t == [s EXCEPT !.signature = x]
           IN  Kept(s, t) /\ t.started = s.started /\ Sound(c, t, d, m, log)
<1> DEFINE t == [s EXCEPT !.signature = x]
<1>1. s \in Converters
  BY DEF Sound, Linked
<1>2. /\ t \in Converters /\ Kept(s, t) /\ t.frames = s.frames
      /\ t.started = s.started /\ t.open = s.open /\ t.next = s.next /\ t.at = s.at
      /\ t.replay = s.replay
  BY <1>1 DEF Converters, Kept
<1> HIDE DEF t
<1>3. t.omit = s.omit /\ CompleteTools(t, t.reason) = CompleteTools(s, s.reason)
  BY <1>2 DEF Kept, CompleteTools, IsRefusal
<1>4. Sound(c, t, d, m, log)
  BY <1>2, <1>3, SoundChange
<1> QED BY <1>2, <1>4 DEF t

\* A deferred item holds the pieces behind lo up to hi.
ItemSpans(s, item, lo, hi, log) ==
    /\ lo <= hi
    /\ item.kind # "tool" => item.pieces = Span(lo, hi)
    /\ item.kind = "thinking" => \A p \in (lo + 1)..hi : log[p] = "thinking"
    /\ item.kind = "tool" => hi = lo + 1 /\ s.tools[item.index].piece = hi

LEMMA ReplaySound ==
    ASSUME NEW c, NEW s, NEW d, NEW m, NEW log, Sound(c, s, d, m, log), s.started, ~s.deferring,
           NEW n \in Nat, n <= Len(log), NEW item \in Items, ItemSpans(s, item, m, n, log)
    PROVE  LET t == Replay(s, item)
           IN  /\ Kept(s, t) /\ t.started
               /\ \E e : Sound(c, t, e, n, log)
<1> DEFINE t == Replay(s, item)
<1>1. item.kind \in Kinds /\ item.signature \in Signatures /\ item.index \in Indices
  BY DEF Items
<1>2. m <= n /\ m \in Nat
  BY DEF ItemSpans, Sound, Told
<1>3. CASE item.kind = "text"
  <2>1. t = EmitText(s, Span(m, n))
    BY <1>3 DEF Replay, ItemSpans
  <2>2. /\ Kept(s, EmitText(s, Span(m, n))) /\ EmitText(s, Span(m, n)).started
        /\ \E e : Sound(c, EmitText(s, Span(m, n)), e, n, log) /\ (~d.tooled => ~e.tooled)
    BY <1>2, EmitTextSound
  <2> QED BY <2>1, <2>2
<1>4. CASE item.kind = "thinking"
  <2> DEFINE u == EmitThinking(s, Span(m, n))
  <2>1. t = [u EXCEPT !.signature = item.signature]
    BY <1>4 DEF Replay, ItemSpans
  <2>2. \A p \in (m + 1)..n : log[p] = "thinking"
    BY <1>4 DEF ItemSpans
  <2>3. /\ Kept(s, u) /\ u.started /\ \E e : Sound(c, u, e, n, log) /\ (~d.tooled => ~e.tooled)
    BY <1>2, <2>2, EmitThinkingSound
  <2> HIDE DEF u, t
  <2>4. PICK e : Sound(c, u, e, n, log)
    BY <2>3
  <2>5. Kept(u, t) /\ t.started = u.started /\ Sound(c, t, e, n, log)
    BY <1>1, <2>1, <2>4, SignatureSet
  <2> QED BY <2>3, <2>5 DEF Kept, t
<1>5. CASE item.kind = "tool"
  <2> DEFINE u == CloseOpen(s)
             i == item.index
  <2>1. Kept(s, u) /\ u.started /\ u.open = "none"
    BY CloseOpenSound
  <2>2. PICK a : Sound(c, u, a, m, log)
    BY CloseOpenSound
  <2>3. n = m + 1 /\ s.tools[i].piece = m + 1
    BY <1>5 DEF ItemSpans
  <2> HIDE DEF u
  <2>4. ~u.deferring /\ u.tools[i].piece = m + 1
        /\ CompleteTools(u, u.reason) = CompleteTools(s, s.reason)
    BY <2>1, <2>3 DEF Kept, CompleteTools, IsRefusal
  <2>5. CASE CompleteTools(s, s.reason)
    <3>1. t = WriteTool(u, i)
      BY <1>5, <2>5 DEF Replay, u
    <3>2. m + 1 <= Len(log) /\ i \in Indices
      BY <1>1, <2>3
    <3> HIDE DEF i
    <3>3. Kept(u, WriteTool(u, i)) /\ WriteTool(u, i).started
          /\ \E e : Sound(c, WriteTool(u, i), e, m + 1, log)
      BY <2>1, <2>2, <2>4, <2>5, <3>2, WriteToolSound
    <3> QED BY <2>1, <2>3, <3>1, <3>3 DEF Kept
  <2>6. CASE ~CompleteTools(s, s.reason)
    <3>1. t = EmitText(u, <<s.tools[i].piece>>)
      BY <1>5, <2>6 DEF Replay, u
    <3>2. <<s.tools[i].piece>> = Span(m, n)
      BY <1>2, <2>3, SpanOne
    <3>3. t = EmitText(u, Span(m, n))
      BY <3>1, <3>2
    <3>4. Kept(u, EmitText(u, Span(m, n))) /\ EmitText(u, Span(m, n)).started
          /\ \E e : Sound(c, EmitText(u, Span(m, n)), e, n, log) /\ (~a.tooled => ~e.tooled)
      BY <1>2, <2>1, <2>2, <2>4, EmitTextSound
    <3> QED BY <2>1, <3>3, <3>4 DEF Kept
  <2> QED BY <2>5, <2>6
<1> QED BY <1>1, <1>3, <1>4, <1>5 DEF Kinds

-----------------------------------------------------------------------------
(* The deferred items, by induction over their number.                      *)

LEMMA LeastNatural ==
    ASSUME NEW T, T \subseteq Nat, T # {}
    PROVE  \E x \in T : \A y \in T : x <= y
<1>1. IsWellFoundedOn(OpToRel(<, Nat), Nat)
  BY NatLessThanWellFounded
<1>2. PICK x \in T : \A y \in T : ~(<<y, x>> \in OpToRel(<, Nat))
  BY <1>1, WFMin
<1>3. \A y \in T : ~(y < x)
  BY <1>2 DEF OpToRel
<1> QED BY <1>3

LEMMA SetInduction ==
    ASSUME NEW T, 0 \in T, \A k \in Nat : k \in T => k + 1 \in T
    PROVE  Nat \subseteq T
<1> SUFFICES ASSUME Nat \ T # {} PROVE FALSE
  OBVIOUS
<1>1. PICK x \in Nat \ T : \A y \in Nat \ T : x <= y
  BY LeastNatural
<1>2. x # 0 /\ x - 1 \in Nat /\ ~(x <= x - 1)
  BY <1>1
<1>3. x - 1 \in T
  BY <1>1, <1>2
<1> QED BY <1>1, <1>2, <1>3

\* b: where the spans of the deferred items meet.
Bounds(s, b, m, n, log) ==
    /\ b \in [0..Len(s.deferred) -> Nat]
    /\ b[0] = m /\ b[Len(s.deferred)] = n
    /\ \A k \in 1..Len(s.deferred) : ItemSpans(s, s.deferred[k], b[k - 1], b[k], log)

\* The deferred items hold the pieces behind m up to n, in their order.
Spans(s, m, n, log) == \E b : Bounds(s, b, m, n, log)

LEMMA SpansKept ==
    ASSUME NEW s, NEW t, t.deferred = s.deferred,
           \A k \in 1..Len(s.deferred) : s.deferred[k].kind = "tool" =>
               LET i == s.deferred[k].index IN
               s.tools[i].piece \in Nat \ {0} => t.tools[i].piece = s.tools[i].piece,
           NEW m, NEW n, NEW log, Spans(s, m, n, log)
    PROVE  Spans(t, m, n, log)
<1> DEFINE L == Len(s.deferred)
<1>1. PICK b : Bounds(s, b, m, n, log)
  BY DEF Spans
<1>2. /\ b \in [0..L -> Nat] /\ b[0] = m /\ b[L] = n
      /\ \A k \in 1..L : ItemSpans(s, s.deferred[k], b[k - 1], b[k], log)
  BY <1>1 DEF Bounds
<1>3. ASSUME NEW k \in 1..L PROVE ItemSpans(t, s.deferred[k], b[k - 1], b[k], log)
  <2> DEFINE item == s.deferred[k]
             lo == b[k - 1]
             hi == b[k]
  <2>1. ItemSpans(s, item, lo, hi, log)
    BY <1>2
  <2>2. lo \in Nat /\ hi \in Nat
    <3>1. k - 1 \in 0..L /\ k \in 0..L
      OBVIOUS
    <3> QED BY <1>2, <3>1
  <2>3. item.kind = "tool" /\ s.tools[item.index].piece \in Nat \ {0} =>
            t.tools[item.index].piece = s.tools[item.index].piece
    OBVIOUS
  <2> HIDE DEF item, lo, hi
  <2> QED BY <2>1, <2>2, <2>3 DEF ItemSpans, item, lo, hi
<1>4. Bounds(t, b, m, n, log)
  BY <1>2, <1>3 DEF Bounds
<1> QED BY <1>4 DEF Spans

LEMMA BoundsGrow ==
    ASSUME NEW s, Len(s.deferred) \in Nat, NEW b, NEW m, NEW n \in Nat, NEW log,
           Bounds(s, b, m, n, log)
    PROVE  \A k \in 0..Len(s.deferred) : b[k] <= n
<1> DEFINE L == Len(s.deferred)
<1>1. /\ b \in [0..L -> Nat] /\ b[0] = m /\ b[L] = n /\ L \in Nat
      /\ \A k \in 1..L : b[k - 1] <= b[k]
  BY DEF Bounds, ItemSpans
<1> HIDE DEF L
<1> DEFINE D == {k \in Nat : k <= L => b[L - k] <= n}
<1>2. 0 \in D
  BY <1>1
<1>3. ASSUME NEW k \in Nat, k \in D PROVE k + 1 \in D
  <2> SUFFICES ASSUME k + 1 <= L PROVE b[L - (k + 1)] <= n
    OBVIOUS
  <2>1. L - k \in 1..L /\ (L - k) - 1 = L - (k + 1) /\ L - (k + 1) \in 0..L /\ L - k \in 0..L
    BY <1>1
  <2>2. b[(L - k) - 1] <= b[L - k]
    BY <2>1, <1>1
  <2>3. b[L - k] \in Nat /\ b[L - (k + 1)] \in Nat /\ b[L - k] <= n
    BY <1>1, <1>3, <2>1
  <2> QED BY <2>1, <2>2, <2>3
<1>4. Nat \subseteq D
  <2> HIDE DEF D
  <2> QED BY <1>2, <1>3, SetInduction
<1>5. ASSUME NEW k \in 0..L PROVE b[k] <= n
  <2>1. L - k \in Nat /\ L - k <= L /\ L - (L - k) = k
    BY <1>1
  <2> QED BY <1>4, <2>1
<1> QED BY <1>5 DEF L

\* The states after each of the deferred items.
LEMMA ReplayDefined ==
    ASSUME NEW s, Len(s.deferred) \in Nat
    PROVE  \E after :
               /\ after = [k \in 0..Len(s.deferred) |->
                              IF k = 0 THEN s ELSE Replay(after[k - 1], s.deferred[k])]
               /\ Replayed(s) = after[Len(s.deferred)]
<1> DEFINE L == Len(s.deferred)
           G(after, n) == [k \in 0..n |-> IF k = 0 THEN s ELSE Replay(after[k - 1], s.deferred[k])]
           T == {n \in Nat : n <= L => \E after : after = G(after, n)}
<1>1. 0 \in T
  <2> DEFINE r == [k \in 0..0 |-> s]
  <2>1. r = G(r, 0)
    OBVIOUS
  <2> QED BY <2>1
<1>2. ASSUME NEW n \in Nat, n \in T PROVE n + 1 \in T
  <2> SUFFICES ASSUME n + 1 <= L PROVE \E after : after = G(after, n + 1)
    OBVIOUS
  <2>1. PICK r : r = G(r, n)
    BY <1>2
  <2> DEFINE q == [k \in 0..(n + 1) |-> IF k = n + 1 THEN Replay(r[n], s.deferred[n + 1]) ELSE r[k]]
  <2>2. ASSUME NEW k \in 0..(n + 1)
        PROVE  q[k] = IF k = 0 THEN s ELSE Replay(q[k - 1], s.deferred[k])
    <3>1. CASE k = n + 1
      <4>1. q[k - 1] = r[n] /\ k # 0
        BY <3>1
      <4> QED BY <3>1, <4>1
    <3>2. CASE k \in 0..n
      <4>1. q[k] = r[k] /\ (k # 0 => q[k - 1] = r[k - 1])
        BY <3>2
      <4>2. r[k] = IF k = 0 THEN s ELSE Replay(r[k - 1], s.deferred[k])
        BY <2>1, <3>2
      <4> QED BY <4>1, <4>2
    <3> QED BY <3>1, <3>2
  <2>3. q = G(q, n + 1)
    BY <2>2
  <2> QED BY <2>3
<1> HIDE DEF T
<1>3. L \in T
  BY <1>1, <1>2, SetInduction
<1>4. \E after : after = G(after, L)
  BY <1>3 DEF T
<1> QED BY <1>4 DEF Replayed

LEMMA ReplayedSound ==
    ASSUME NEW c, NEW s, NEW d, NEW m, NEW log, Sound(c, s, d, m, log), s.started, ~s.deferring,
           NEW n \in Nat, n <= Len(log), Len(log) \in Nat, Spans(s, m, n, log)
    PROVE  LET t == Replayed(s)
           IN  /\ Kept(s, t) /\ t.started
               /\ \E e : Sound(c, t, e, n, log)
<1> DEFINE L == Len(s.deferred)
<1>1. s \in Converters /\ s.deferred \in Seq(Items) /\ L \in Nat
      /\ \A k \in 1..L : s.deferred[k] \in Items
  <2>1. s \in Converters
    BY DEF Sound, Linked
  <2>2. s.deferred \in Seq(Items)
    BY <2>1 DEF Converters
  <2> QED BY <2>1, <2>2
<1>2. PICK b : Bounds(s, b, m, n, log)
  BY DEF Spans
<1>3. PICK after : /\ after = [k \in 0..L |->
                                  IF k = 0 THEN s ELSE Replay(after[k - 1], s.deferred[k])]
                   /\ Replayed(s) = after[L]
  BY <1>1, ReplayDefined
<1>4. /\ b \in [0..L -> Nat] /\ b[0] = m /\ b[L] = n
      /\ \A k \in 1..L : ItemSpans(s, s.deferred[k], b[k - 1], b[k], log)
  BY <1>2 DEF Bounds
<1>7. \A k \in 0..L : b[k] <= n
  BY <1>1, <1>2, BoundsGrow
<1> HIDE DEF L
<1> DEFINE T == {k \in Nat : k <= L => /\ Kept(s, after[k]) /\ after[k].started
                                       /\ \E e : Sound(c, after[k], e, b[k], log)}
<1>8. 0 \in T
  <2>1. after[0] = s
    BY <1>1, <1>3
  <2>2. Kept(s, s)
    BY DEF Kept
  <2> QED BY <1>4, <2>1, <2>2
<1>9. ASSUME NEW k \in Nat, k \in T PROVE k + 1 \in T
  <2> SUFFICES ASSUME k + 1 <= L
               PROVE  /\ Kept(s, after[k + 1]) /\ after[k + 1].started
                      /\ \E e : Sound(c, after[k + 1], e, b[k + 1], log)
    OBVIOUS
  <2> DEFINE r == after[k]
             item == s.deferred[k + 1]
             lo == b[k]
             hi == b[k + 1]
  <2>1. k + 1 \in 1..L /\ k \in 0..L /\ k + 1 \in 0..L /\ (k + 1) - 1 = k
    BY <1>1
  <2>2. after[k + 1] = Replay(r, item)
    BY <1>3, <2>1
  <2>3. ItemSpans(s, item, lo, hi, log) /\ hi \in Nat /\ hi <= Len(log) /\ item \in Items
    <3>1. hi <= n /\ hi \in Nat
      BY <1>4, <1>7, <2>1
    <3>2. ItemSpans(s, item, lo, hi, log)
      BY <1>4, <2>1
    <3> QED BY <1>1, <2>1, <3>1, <3>2
  <2>4. Kept(s, r) /\ r.started
    BY <1>9, <2>1
  <2>5. PICK e : Sound(c, r, e, lo, log)
    BY <1>9, <2>1
  <2> HIDE DEF r, item, lo, hi
  <2>6. ~r.deferring /\ ItemSpans(r, item, lo, hi, log)
    BY <2>3, <2>4 DEF Kept, ItemSpans
  <2>7. /\ Kept(r, Replay(r, item)) /\ Replay(r, item).started
        /\ \E a : Sound(c, Replay(r, item), a, hi, log)
    BY <2>3, <2>4, <2>5, <2>6, ReplaySound
  <2> QED BY <2>2, <2>4, <2>7 DEF Kept, hi
<1>10. L \in T
  <2> HIDE DEF T
  <2> QED BY <1>1, <1>8, <1>9, SetInduction
<1> QED BY <1>1, <1>3, <1>4, <1>10

-----------------------------------------------------------------------------
(* finish().                                                                *)

\* A state with the reason that finish() goes by.
LEMMA ReasonSet ==
    ASSUME NEW c, NEW s, NEW d, NEW m, NEW log, Sound(c, s, d, m, log), NEW r \in FinishReasons,
           s.reason = "tool_calls" => r = "tool_calls"
    PROVE  Sound(c, [s EXCEPT !.reason = r, !.deferring = FALSE], d, m, log)
<1> DEFINE t == [s EXCEPT !.reason = r, !.deferring = FALSE]
<1>1. s \in Converters
  BY DEF Sound, Linked
<1>2. /\ t \in Converters /\ t.frames = s.frames /\ t.omit = s.omit /\ t.started = s.started
      /\ t.open = s.open /\ t.next = s.next /\ t.at = s.at /\ t.replay = s.replay
      /\ t.reason = r /\ t.refused = s.refused
  BY <1>1 DEF Converters
<1> HIDE DEF t
<1>3. CompleteTools(s, s.reason) => CompleteTools(t, t.reason)
  BY <1>2 DEF CompleteTools, IsRefusal
<1>4. Sound(c, t, d, m, log)
  BY <1>2, <1>3, SoundChange
<1> QED BY <1>4 DEF t

LEMMA FinishSound ==
    ASSUME NEW c, NEW s, NEW d, NEW m, NEW log, Sound(c, s, d, m, log), ~s.failed,
           Len(log) \in Nat, Spans(s, m, Len(log), log), NEW done \in BOOLEAN,
           ~Finish(s, done).failed
    PROVE  LET t == Finish(s, done)
           IN  /\ s.reason # "" \/ done
               /\ t.frames \in Seq(Frames)
               /\ (\E i \in 1..Len(t.frames) : t.frames[i].kind = "tool") =>
                      /\ CompleteTools(s, s.reason)
                      /\ \A i \in Calls(s) : ~Unusable(s.tools[i])
               /\ \E e : /\ Reaches(c, t.frames, e, s.omit) /\ e.stage = "stopped"
                         /\ Orderly(e.got, Len(log), log, s.omit /\ e.foreign)
<1> DEFINE reason == EffectiveReason(s)
           s0 == EnsureStarted(s)
           s1 == CloseOpen(s0)
           t == [s1 EXCEPT !.reason = reason, !.deferring = FALSE]
           v == Replayed(t)
           u == CloseOpen(v)
           f == Frame("message_delta", StopReason(s, reason), 0, <<>>)
           g == Frame("message_stop", "none", 0, <<>>)
           w == Push(u, f)
           z == Push(w, g)
           empty == s.reason = "" /\ ~s.semantic /\ Calls(s) = {}
           fails == \/ empty
                    \/ CutOff(s, done)
                    \/ reason = "other"
                    \/ CompleteTools(s, reason) /\ \E i \in Calls(s) : Unusable(s.tools[i])
<1>1. Finish(s, done) = IF fails THEN Fail(s) ELSE z
  BY DEF Finish
<1>2. s \in Converters /\ s.reason \in FinishReasons /\ s.refused \in BOOLEAN
  <2>1. s \in Converters
    BY DEF Sound, Linked
  <2> QED BY <2>1 DEF Converters
<1>3. ~fails
  <2>1. Fail(s).failed = TRUE
    BY <1>2 DEF Fail, Converters
  <2> QED BY <1>1, <2>1
<1>4. /\ Finish(s, done) = z /\ ~CutOff(s, done) /\ reason # "other"
      /\ CompleteTools(s, reason) => \A i \in Calls(s) : ~Unusable(s.tools[i])
  BY <1>1, <1>3
<1>5. /\ reason \in {"stop", "length", "tool_calls", "content_filter"}
      /\ (reason = "tool_calls" <=> s.reason = "tool_calls")
  BY <1>2, <1>4 DEF EffectiveReason, FinishReasons
<1>6. StopReason(s, reason) \in Reasons
      /\ (CompleteTools(s, reason) => StopReason(s, reason) = "tool_use")
  BY <1>5 DEF StopReason, IsRefusal, CompleteTools, Reasons
<1>7. /\ f \in Frames /\ f.type = "message_delta" /\ f.kind = StopReason(s, reason)
      /\ g \in Frames /\ g.type = "message_stop" /\ g.kind = "none"
  <2> HIDE DEF reason
  <2> QED BY <1>6 DEF Frame, Frames, Signatures
<1> HIDE DEF fails, z, f, g
<1>8. Kept(s, s0) /\ s0.started /\ \E e : Sound(c, s0, e, m, log) /\ (~d.tooled => ~e.tooled)
  BY StartedSound
<1> HIDE DEF s0
<1>9. PICK d0 : Sound(c, s0, d0, m, log)
  BY <1>8
<1>10. Kept(s0, s1) /\ s1.started /\ s1.open = "none"
       /\ \E e : Sound(c, s1, e, m, log) /\ e.tooled = d0.tooled
  BY <1>8, <1>9, CloseOpenSound
<1> HIDE DEF s1
<1>11. PICK d1 : Sound(c, s1, d1, m, log)
  BY <1>10
<1>12. /\ s1.reason = s.reason /\ s1.omit = s.omit /\ s1.tools = s.tools /\ s1.failed = s.failed
       /\ s1.refused = s.refused /\ s1.deferred = s.deferred
  BY <1>8, <1>10 DEF Kept
<1>13. /\ Sound(c, t, d1, m, log) /\ t.reason = reason /\ t.deferring = FALSE
       /\ t.omit = s.omit /\ t.started /\ t.tools = s.tools /\ t.refused = s.refused
       /\ t.deferred = s.deferred /\ t.failed = s.failed
  <2>1. reason \in FinishReasons /\ (s1.reason = "tool_calls" => reason = "tool_calls")
    BY <1>5, <1>12 DEF FinishReasons
  <2> HIDE DEF reason
  <2>2. Sound(c, t, d1, m, log)
    BY <1>11, <2>1, ReasonSet
  <2>3. s1 \in Converters
    BY <1>11 DEF Sound, Linked
  <2> QED BY <1>10, <1>12, <2>2, <2>3 DEF Converters
<1> HIDE DEF t
<1>14. Spans(t, m, Len(log), log)
  BY <1>13, SpansKept
<1>15. Kept(t, v) /\ v.started /\ \E e : Sound(c, v, e, Len(log), log)
  BY <1>13, <1>14, ReplayedSound
<1> HIDE DEF v
<1>16. PICK d2 : Sound(c, v, d2, Len(log), log)
  BY <1>15
<1>17. Kept(v, u) /\ u.started /\ u.open = "none" /\ u.replay = <<>>
       /\ \E e : Sound(c, u, e, Len(log), log) /\ e.tooled = d2.tooled
  BY <1>15, <1>16, CloseOpenSound
<1> HIDE DEF u
<1>18. PICK d3 : Sound(c, u, d3, Len(log), log)
  BY <1>17
<1>19. /\ u.omit = s.omit /\ u.refused = s.refused /\ u.reason = reason
       /\ CompleteTools(u, u.reason) = CompleteTools(s, reason)
       /\ CompleteTools(s, reason) = CompleteTools(s, s.reason)
  BY <1>5, <1>13, <1>15, <1>17 DEF Kept, CompleteTools, IsRefusal
<1>20. /\ Linked(c, u, d3) /\ d3 \in Clients /\ d3.stage = "message" /\ d3.open = "none"
       /\ d3.tooled => CompleteTools(s, reason)
  BY <1>17, <1>18, <1>19 DEF Sound, Linked, Match
<1> HIDE DEF reason
<1> DEFINE d4 == After(d3, f, u.omit)
           d5 == After(d4, g, w.omit)
<1>21. Linked(c, w, d4) /\ Kept(u, w)
  <2>1. Allowed(d3, f)
    BY <1>6, <1>7, <1>20 DEF Allowed
  <2>2. f.kind # "tool"
    BY <1>6, <1>7 DEF Reasons
  <2> QED BY <1>7, <1>20, <2>1, <2>2, Pushed
<1>22. d4 = [d3 EXCEPT !.stage = "ending", !.stop = f.kind]
  BY <1>7 DEF After
<1>23. d4.stage = "ending" /\ d4.got = d3.got /\ d4.foreign = d3.foreign /\ d4 \in Clients
  <2>1. d4 \in Clients
    BY <1>21 DEF Linked
  <2> QED BY <1>20, <1>22, <2>1 DEF Clients
<1> HIDE DEF d4, w
<1>24. Linked(c, z, d5) /\ Kept(w, z)
  <2>1. Allowed(d4, g) /\ g.kind # "tool"
    BY <1>7, <1>23 DEF Allowed
  <2> QED BY <1>7, <1>21, <2>1, Pushed DEF z
<1>25. d5 = [d4 EXCEPT !.stage = "stopped"]
  BY <1>7 DEF After
<1>26. d5.stage = "stopped" /\ d5.got = d3.got /\ d5.foreign = d3.foreign
  BY <1>23, <1>25 DEF Clients
<1> HIDE DEF d5
<1>27. z.frames \in Seq(Frames) /\ Reaches(c, z.frames, d5, s.omit) /\ ToolFrames(z)
  <2>1. z.omit = s.omit
    BY <1>19, <1>21, <1>24 DEF Kept
  <2>2. Linked(c, z, d5)
    BY <1>24
  <2>3. z \in Converters /\ Reaches(c, z.frames, d5, z.omit) /\ ToolFrames(z)
    BY <2>2 DEF Linked
  <2> QED BY <2>1, <2>3 DEF Converters
<1>28. (\E i \in 1..Len(z.frames) : z.frames[i].kind = "tool") => CompleteTools(s, reason)
  <2>1. CompleteTools(z, z.reason) = CompleteTools(s, reason)
    BY <1>19, <1>21, <1>24 DEF Kept, CompleteTools, IsRefusal
  <2> QED BY <1>27, <2>1 DEF ToolFrames
<1>29. Orderly(d5.got, Len(log), log, s.omit /\ d5.foreign)
  <2>1. Heard(u, d3) = d3.got
    <3>1. d3.got \in Seq(Nat)
      BY <1>20 DEF Clients
    <3> QED BY <1>17, <3>1, ConcatNothing DEF Heard
  <2> QED BY <1>18, <1>19, <1>26, <2>1 DEF Sound, Told
<1>30. s.reason # "" \/ done
  BY <1>4 DEF CutOff
<1> QED BY <1>4, <1>19, <1>26, <1>27, <1>28, <1>29, <1>30

-----------------------------------------------------------------------------
(* The deltas of an event: one more piece each.                             *)

LEMMA LogMore ==
    ASSUME NEW log \in Logs, NEW kind \in {"thinking", "text", "tool"}
    PROVE  /\ Append(log, kind) \in Logs /\ Len(log) \in Nat
           /\ Len(Append(log, kind)) = Len(log) + 1
           /\ \A p \in 1..Len(log) : Append(log, kind)[p] = log[p]
           /\ Append(log, kind)[Len(log) + 1] = kind
  BY DEF Logs

LEMMA SoundMore ==
    ASSUME NEW c, NEW s, NEW d, NEW m, NEW log \in Logs, Sound(c, s, d, m, log),
           NEW kind \in {"thinking", "text", "tool"}
    PROVE  Sound(c, s, d, m, Append(log, kind))
<1> DEFINE more == Append(log, kind)
<1>1. /\ Len(log) \in Nat /\ Len(more) = Len(log) + 1
      /\ \A p \in 1..Len(log) : more[p] = log[p]
  BY LogMore
<1> HIDE DEF more
<1>2. /\ m \in 0..Len(log)
      /\ Orderly(Heard(s, d), m, log, s.omit /\ d.foreign)
      /\ \A i \in 1..Len(s.replay) : s.replay[i] \in 1..m /\ log[s.replay[i]] = "thinking"
  BY DEF Sound, Told
<1>3. m \in 0..Len(more) /\ \A p \in 1..m : more[p] = log[p]
  BY <1>1, <1>2
<1>4. Orderly(Heard(s, d), m, more, s.omit /\ d.foreign)
  BY <1>2, <1>3 DEF Orderly
<1>5. Told(s, d, m, more)
  BY <1>2, <1>3, <1>4 DEF Told
<1> QED BY <1>5 DEF Sound, more

LEMMA SpansMore ==
    ASSUME NEW s, Len(s.deferred) \in Nat, NEW m, NEW log \in Logs, Spans(s, m, Len(log), log),
           NEW kind \in {"thinking", "text", "tool"}
    PROVE  Spans(s, m, Len(log), Append(log, kind))
<1> DEFINE more == Append(log, kind)
           L == Len(s.deferred)
<1>1. Len(log) \in Nat /\ \A p \in 1..Len(log) : more[p] = log[p]
  BY LogMore
<1> HIDE DEF more
<1>2. PICK b : Bounds(s, b, m, Len(log), log)
  BY DEF Spans
<1>3. \A k \in 0..L : b[k] <= Len(log)
  BY <1>1, <1>2, BoundsGrow
<1> HIDE DEF L
<1>4. /\ b \in [0..L -> Nat] /\ b[0] = m /\ b[L] = Len(log)
      /\ \A k \in 1..L : ItemSpans(s, s.deferred[k], b[k - 1], b[k], log)
  BY <1>2 DEF Bounds, L
<1>5. ASSUME NEW k \in 1..L PROVE ItemSpans(s, s.deferred[k], b[k - 1], b[k], more)
  <2>1. k - 1 \in 0..L /\ k \in 0..L
    BY DEF L
  <2>2. b[k - 1] \in Nat /\ b[k] \in Nat /\ b[k] <= Len(log)
    BY <1>3, <1>4, <2>1
  <2>3. \A p \in (b[k - 1] + 1)..b[k] : more[p] = log[p]
    BY <1>1, <2>2
  <2>4. ItemSpans(s, s.deferred[k], b[k - 1], b[k], log)
    BY <1>4
  <2> QED BY <2>3, <2>4 DEF ItemSpans
<1>6. Bounds(s, b, m, Len(log), more)
  BY <1>4, <1>5 DEF Bounds, L
<1> QED BY <1>6 DEF Spans, more

LEMMA SpansNone ==
    ASSUME NEW s, s.deferred = <<>>, NEW m \in Nat, NEW n, NEW log
    PROVE  Spans(s, m, n, log) <=> m = n
<1>1. Len(s.deferred) = 0
  OBVIOUS
<1>2. ASSUME Spans(s, m, n, log) PROVE m = n
  BY <1>1, <1>2 DEF Spans, Bounds
<1>3. ASSUME m = n PROVE Spans(s, m, n, log)
  <2> DEFINE b == [k \in 0..0 |-> m]
  <2>1. Bounds(s, b, m, n, log)
    BY <1>1, <1>3 DEF Bounds
  <2> QED BY <2>1 DEF Spans
<1> QED BY <1>2, <1>3

\* One more item.
LEMMA SpansAppend ==
    ASSUME NEW s, NEW t, NEW item \in Items, s.deferred \in Seq(Items),
           t.deferred = Append(s.deferred, item), t.tools = s.tools,
           NEW m, NEW n \in Nat, NEW h \in Nat, NEW log,
           Spans(s, m, n, log), ItemSpans(s, item, n, h, log)
    PROVE  Spans(t, m, h, log)
<1> DEFINE L == Len(s.deferred)
<1>1. /\ L \in Nat /\ Len(t.deferred) = L + 1 /\ t.deferred[L + 1] = item
      /\ \A k \in 1..L : t.deferred[k] = s.deferred[k]
  OBVIOUS
<1>2. PICK b : Bounds(s, b, m, n, log)
  BY DEF Spans
<1>3. /\ b \in [0..L -> Nat] /\ b[0] = m /\ b[L] = n
      /\ \A k \in 1..L : ItemSpans(s, s.deferred[k], b[k - 1], b[k], log)
  BY <1>2 DEF Bounds
<1> HIDE DEF L
<1> DEFINE a == [k \in 0..(L + 1) |-> IF k = L + 1 THEN h ELSE b[k]]
<1>4. /\ a \in [0..(L + 1) -> Nat] /\ a[0] = m /\ a[L + 1] = h /\ a[L] = n
      /\ \A k \in 0..L : a[k] = b[k]
  BY <1>1, <1>3
<1> HIDE DEF a
<1>5. ASSUME NEW k \in 1..(L + 1) PROVE ItemSpans(t, t.deferred[k], a[k - 1], a[k], log)
  <2>1. CASE k = L + 1
    <3>1. a[k - 1] = n /\ a[k] = h /\ t.deferred[k] = item
      BY <1>1, <1>4, <2>1
    <3> QED BY <3>1 DEF ItemSpans
  <2>2. CASE k \in 1..L
    <3>1. k - 1 \in 0..L /\ k \in 0..L
      BY <1>1, <2>2
    <3>2. a[k - 1] = b[k - 1] /\ a[k] = b[k] /\ t.deferred[k] = s.deferred[k]
      BY <1>1, <1>4, <2>2, <3>1
    <3>3. ItemSpans(s, s.deferred[k], b[k - 1], b[k], log)
      BY <1>3, <2>2
    <3> QED BY <3>2, <3>3 DEF ItemSpans
  <2> QED BY <1>1, <2>1, <2>2
<1>6. Bounds(t, a, m, h, log)
  BY <1>1, <1>4, <1>5 DEF Bounds
<1> QED BY <1>6 DEF Spans

\* The last item, with more pieces or another signature.
LEMMA SpansLast ==
    ASSUME NEW s, NEW t, NEW item, s.deferred \in Seq(Items), s.deferred # <<>>,
           t.deferred = [s.deferred EXCEPT ![Len(s.deferred)] = item], t.tools = s.tools,
           NEW m, NEW n \in Nat, NEW h \in Nat, n <= h, NEW log, Spans(s, m, n, log),
           \A lo \in Nat : ItemSpans(s, s.deferred[Len(s.deferred)], lo, n, log)
                               => ItemSpans(s, item, lo, h, log)
    PROVE  Spans(t, m, h, log)
<1> DEFINE L == Len(s.deferred)
<1>1. /\ L \in Nat \ {0} /\ Len(t.deferred) = L /\ t.deferred[L] = item
      /\ \A k \in 1..(L - 1) : t.deferred[k] = s.deferred[k]
  OBVIOUS
<1>2. PICK b : Bounds(s, b, m, n, log)
  BY DEF Spans
<1>3. /\ b \in [0..L -> Nat] /\ b[0] = m /\ b[L] = n
      /\ \A k \in 1..L : ItemSpans(s, s.deferred[k], b[k - 1], b[k], log)
  BY <1>2 DEF Bounds
<1>4. \A lo \in Nat : ItemSpans(s, s.deferred[L], lo, n, log) => ItemSpans(s, item, lo, h, log)
  OBVIOUS
<1> HIDE DEF L
<1> DEFINE a == [b EXCEPT ![L] = h]
<1>5. /\ a \in [0..L -> Nat] /\ a[0] = m /\ a[L] = h
      /\ \A k \in 0..(L - 1) : a[k] = b[k]
  BY <1>1, <1>3
<1> HIDE DEF a
<1>6. ASSUME NEW k \in 1..L PROVE ItemSpans(t, t.deferred[k], a[k - 1], a[k], log)
  <2>1. k - 1 \in 0..(L - 1) /\ k - 1 \in 0..L
    BY <1>1
  <2>2. a[k - 1] = b[k - 1] /\ b[k - 1] \in Nat
    BY <1>3, <1>5, <2>1
  <2>3. CASE k = L
    <3>1. ItemSpans(s, s.deferred[L], b[k - 1], n, log)
      BY <1>1, <1>3, <2>3
    <3>2. ItemSpans(s, item, b[k - 1], h, log)
      BY <1>4, <2>2, <3>1
    <3> QED BY <1>1, <1>5, <2>2, <2>3, <3>2 DEF ItemSpans
  <2>4. CASE k \in 1..(L - 1)
    <3>1. a[k] = b[k] /\ t.deferred[k] = s.deferred[k] /\ k \in 1..L
      BY <1>1, <1>5, <2>4
    <3>2. ItemSpans(s, s.deferred[k], b[k - 1], b[k], log)
      BY <1>3, <3>1
    <3> QED BY <2>2, <3>1, <3>2 DEF ItemSpans
  <2> QED BY <1>1, <2>3, <2>4
<1>7. Bounds(t, a, m, h, log)
  BY <1>1, <1>5, <1>6 DEF Bounds
<1> QED BY <1>7 DEF Spans

\* The converter holds what was sent: told to the client that its frames
\* lead to, in the open reasoning, or deferred.
Holds(c, s, log) ==
    \E d, m : /\ Sound(c, s, d, m, log) /\ ~d.tooled
              /\ Spans(s, m, Len(log), log)
              /\ ~s.deferring => s.deferred = <<>>

\* And it may read more.
Live(c, s, log) == Holds(c, s, log) /\ s.started /\ s.reason = ""

LEMMA HoldsType ==
    ASSUME NEW c, NEW s, NEW log, Holds(c, s, log)
    PROVE  s \in Converters /\ s.deferred \in Seq(Items) /\ Len(s.deferred) \in Nat
<1>1. s \in Converters
  BY DEF Holds, Sound, Linked
<1>2. s.deferred \in Seq(Items)
  BY <1>1 DEF Converters
<1> QED BY <1>1, <1>2

LEMMA LiveChange ==
    ASSUME NEW c, NEW s, NEW log, Live(c, s, log), NEW t \in Converters,
           t.frames = s.frames, t.omit = s.omit, t.started = s.started, t.open = s.open,
           t.next = s.next, t.at = s.at, t.replay = s.replay, t.reason = s.reason,
           t.deferring = s.deferring, t.deferred = s.deferred,
           \A i \in Indices : t.tools[i].piece = s.tools[i].piece
    PROVE  Live(c, t, log)
<1>1. PICK d, m : /\ Sound(c, s, d, m, log) /\ ~d.tooled
                  /\ Spans(s, m, Len(log), log)
                  /\ ~s.deferring => s.deferred = <<>>
  BY DEF Live, Holds
<1>2. s.started /\ s.reason = ""
  BY DEF Live
<1>3. ~CompleteTools(s, s.reason)
  BY <1>2 DEF CompleteTools
<1>4. Sound(c, t, d, m, log)
  BY <1>1, <1>3, SoundChange
<1>5. Spans(t, m, Len(log), log)
  <2>1. s.deferred \in Seq(Items)
    BY HoldsType DEF Live
  <2>2. \A k \in 1..Len(s.deferred) : s.deferred[k].index \in Indices
    <3>1. \A k \in 1..Len(s.deferred) : s.deferred[k] \in Items
      BY <2>1
    <3> QED BY <3>1 DEF Items
  <2> QED BY <1>1, <2>2, SpansKept
<1> QED BY <1>1, <1>2, <1>4, <1>5 DEF Live, Holds

\* Output behind a tool call waits.
LEMMA DeferLive ==
    ASSUME NEW c, NEW s, NEW log \in Logs, Live(c, s, log), s.deferring,
           NEW kind \in {"text", "thinking"}
    PROVE  Live(c, Defer(CloseOpen(s), kind, <<Len(log) + 1>>), Append(log, kind))
<1> DEFINE u == CloseOpen(s)
           n == Len(log)
           t == Defer(u, kind, <<n + 1>>)
           more == Append(log, kind)
<1>1. PICK d, m : /\ Sound(c, s, d, m, log) /\ ~d.tooled /\ Spans(s, m, n, log)
  BY DEF Live, Holds
<1>2. s.started /\ s.reason = ""
  BY DEF Live
<1>3. Kept(s, u) /\ u.started = s.started
  BY <1>1, CloseOpenSound
<1>4. PICK e : Sound(c, u, e, m, log) /\ e.tooled = d.tooled
  BY <1>1, CloseOpenSound
<1> HIDE DEF u
<1>5. u \in Converters /\ u.deferred \in Seq(Items) /\ Len(u.deferred) \in Nat
  <2>1. u \in Converters
    BY <1>4 DEF Sound, Linked
  <2>2. u.deferred \in Seq(Items)
    BY <2>1 DEF Converters
  <2> QED BY <2>1, <2>2
<1>6. Spans(u, m, n, log)
  <2>1. u.deferred = s.deferred /\ u.tools = s.tools
    BY <1>3 DEF Kept
  <2> QED BY <1>1, <2>1, SpansKept
<1>7. Sound(c, u, e, m, more) /\ Spans(u, m, n, more)
  BY <1>4, <1>5, <1>6, SoundMore, SpansMore
<1>8. n \in Nat /\ Len(more) = n + 1 /\ more[n + 1] = kind /\ \A p \in 1..n : more[p] = log[p]
  BY LogMore
<1>9. <<n + 1>> = Span(n, n + 1) /\ <<n + 1>> \in Seq(Nat)
  BY <1>8, SpanOne
<1> HIDE DEF n, more
<1>10. \E q \in Seq(Items) :
          /\ t = [u EXCEPT !.deferred = q]
          /\ Spans(t, m, n + 1, more)
  <2> DEFINE last == u.deferred[Len(u.deferred)]
  <2>1. CASE Len(u.deferred) > 0 /\ last.kind = kind
    <3> DEFINE item == [last EXCEPT !.pieces = last.pieces \o <<n + 1>>]
               q == [u.deferred EXCEPT ![Len(u.deferred)] = item]
    <3>1. last \in Items /\ last.pieces \in Seq(Nat)
      <4>1. last \in Items
        BY <1>5, <2>1
      <4> QED BY <4>1 DEF Items
    <3>2. last.pieces \o <<n + 1>> \in Seq(Nat)
      BY <1>9, <3>1, Concatenated
    <3>3. item \in Items /\ item.kind = kind /\ item.pieces = last.pieces \o <<n + 1>>
      BY <2>1, <3>1, <3>2 DEF Items
    <3>4. q \in Seq(Items)
      BY <1>5, <2>1, <3>3
    <3>5. t = [u EXCEPT !.deferred = q]
      BY <1>5, <2>1 DEF Defer
    <3>6. ASSUME NEW lo \in Nat, ItemSpans(u, last, lo, n, more)
          PROVE  ItemSpans(u, item, lo, n + 1, more)
      <4>1. lo <= n /\ last.pieces = Span(lo, n)
            /\ (kind = "thinking" => \A p \in (lo + 1)..n : more[p] = "thinking")
        BY <2>1, <3>6 DEF ItemSpans
      <4>2. n <= n + 1 /\ n + 1 \in Nat
        BY <1>8
      <4>3. Span(lo, n) \o Span(n, n + 1) = Span(lo, n + 1)
        BY <1>8, <4>1, <4>2, SpanJoin
      <4>4. item.pieces = Span(lo, n + 1)
        BY <1>9, <3>3, <4>1, <4>3
      <4>5. kind = "thinking" => \A p \in (lo + 1)..(n + 1) : more[p] = "thinking"
        BY <1>8, <4>1
      <4> HIDE DEF item
      <4> QED BY <1>8, <3>3, <4>1, <4>4, <4>5 DEF ItemSpans
    <3> HIDE DEF item
    <3>7. u.deferred # <<>> /\ n <= n + 1 /\ n + 1 \in Nat
      BY <1>8, <2>1
    <3>8. t.deferred = q /\ t.tools = u.tools
      BY <1>5, <3>5 DEF Converters
    <3> HIDE DEF t
    <3>9. Spans(t, m, n + 1, more)
      BY <1>5, <1>7, <1>8, <3>6, <3>7, <3>8, SpansLast
    <3> QED BY <3>4, <3>5, <3>9
  <2>2. CASE ~(Len(u.deferred) > 0 /\ last.kind = kind)
    <3> DEFINE item == [kind |-> kind, pieces |-> <<n + 1>>, signature |-> "none", index |-> 0]
               q == Append(u.deferred, item)
    <3>1. item \in Items /\ item.kind = kind /\ item.pieces = <<n + 1>>
      BY <1>9, ConverterAssumption DEF Items, Kinds, Signatures
    <3>2. q \in Seq(Items)
      BY <1>5, <3>1
    <3>3. t = [u EXCEPT !.deferred = q]
      BY <2>2 DEF Defer
    <3>4. ItemSpans(u, item, n, n + 1, more)
      <4>1. \A p \in (n + 1)..(n + 1) : more[p] = kind
        BY <1>8
      <4> HIDE DEF item
      <4> QED BY <1>8, <1>9, <3>1, <4>1 DEF ItemSpans
    <3> HIDE DEF item
    <3>5. t.deferred = q /\ t.tools = u.tools
      BY <1>5, <3>3 DEF Converters
    <3> HIDE DEF t
    <3>6. Spans(t, m, n + 1, more)
      <4>1. n + 1 \in Nat
        BY <1>8
      <4> QED BY <1>5, <1>7, <1>8, <3>1, <3>4, <3>5, <4>1, SpansAppend
    <3> QED BY <3>2, <3>3, <3>6
  <2> QED BY <2>1, <2>2
<1>11. PICK q \in Seq(Items) : /\ t = [u EXCEPT !.deferred = q]
                               /\ Spans(t, m, n + 1, more)
  BY <1>10
<1> HIDE DEF t
<1>12. /\ t \in Converters /\ t.frames = u.frames /\ t.omit = u.omit /\ t.started = u.started
       /\ t.open = u.open /\ t.next = u.next /\ t.at = u.at /\ t.replay = u.replay
       /\ t.reason = u.reason /\ t.deferring = u.deferring
  BY <1>5, <1>11 DEF Converters
<1>13. t.reason = "" /\ t.started /\ t.deferring
  BY <1>2, <1>3, <1>12 DEF Kept
<1>14. Sound(c, t, e, m, more)
  <2>1. ~CompleteTools(u, u.reason)
    BY <1>12, <1>13 DEF CompleteTools
  <2> QED BY <1>7, <1>12, <2>1, SoundChange
<1>15. ~e.tooled
  BY <1>1, <1>4
<1>16. Spans(t, m, Len(more), more)
  BY <1>8, <1>11
<1>17. Holds(c, t, more)
  BY <1>13, <1>14, <1>15, <1>16 DEF Holds
<1> QED BY <1>13, <1>17 DEF Live, t, u, n, more

LEMMA TextLive ==
    ASSUME NEW c, NEW s, NEW log \in Logs, Live(c, s, log)
    PROVE  Live(c, EmitText(s, <<Len(log) + 1>>), Append(log, "text"))
<1> DEFINE n == Len(log)
           more == Append(log, "text")
           t == EmitText(s, <<n + 1>>)
<1>1. CASE s.deferring
  <2>1. t = Defer(CloseOpen(s), "text", <<n + 1>>)
    BY <1>1 DEF EmitText
  <2> QED BY <1>1, <2>1, DeferLive
<1>2. CASE ~s.deferring
  <2>1. PICK d, m : /\ Sound(c, s, d, m, log) /\ ~d.tooled /\ Spans(s, m, n, log)
                    /\ s.deferred = <<>>
    BY <1>2 DEF Live, Holds
  <2>2. n \in Nat /\ Len(more) = n + 1 /\ n <= n + 1 /\ n + 1 \in Nat /\ n + 1 <= Len(more)
    BY LogMore
  <2>3. m = n
    <3>1. m \in Nat
      BY <2>1, <2>2 DEF Sound, Told
    <3> QED BY <2>1, <3>1, SpansNone
  <2>4. Sound(c, s, d, n, more)
    BY <2>1, <2>3, SoundMore
  <2>5. s.started /\ s.reason = ""
    BY DEF Live
  <2>6. t = EmitText(s, Span(n, n + 1))
    BY <2>2, SpanOne
  <2> DEFINE h == n + 1
  <2>7. h \in Nat /\ n <= h /\ h <= Len(more) /\ t = EmitText(s, Span(n, h)) /\ h = n + 1
    BY <2>2, <2>6
  <2> HIDE DEF h, t, n, more
  <2>8. /\ Kept(s, EmitText(s, Span(n, h))) /\ EmitText(s, Span(n, h)).started
        /\ \E e : Sound(c, EmitText(s, Span(n, h)), e, h, more) /\ (~d.tooled => ~e.tooled)
    BY <1>2, <2>4, <2>5, <2>7, EmitTextSound
  <2>9. PICK e : Sound(c, t, e, h, more) /\ (~d.tooled => ~e.tooled)
    BY <2>7, <2>8
  <2>10. Kept(s, t) /\ t.started
    BY <2>7, <2>8
  <2>11. t.deferred = <<>> /\ t.reason = ""
    BY <2>1, <2>5, <2>10 DEF Kept
  <2>12. Spans(t, h, Len(more), more)
    BY <2>2, <2>7, <2>11, SpansNone
  <2>13. ~e.tooled
    BY <2>1, <2>9
  <2>14. Holds(c, t, more)
    BY <2>9, <2>11, <2>12, <2>13 DEF Holds
  <2> QED BY <2>10, <2>11, <2>14 DEF Live, t, n, more
<1> QED BY <1>1, <1>2

\* Reasoning, as more of it or, at a signature without any, as nothing.
LEMMA EmitThinkingLive ==
    ASSUME NEW c, NEW s, NEW log \in Logs, Live(c, s, log), ~s.deferring,
           NEW pieces, NEW more \in Logs,
           \/ pieces = <<>> /\ more = log
           \/ pieces = <<Len(log) + 1>> /\ more = Append(log, "thinking")
    PROVE  Live(c, EmitThinking(s, pieces), more)
<1> DEFINE n == Len(log)
           h == Len(more)
           t == EmitThinking(s, pieces)
<1>1. PICK d, m : /\ Sound(c, s, d, m, log) /\ ~d.tooled /\ Spans(s, m, n, log)
                  /\ s.deferred = <<>>
  BY DEF Live, Holds
<1>2. /\ n \in Nat /\ h \in Nat /\ n <= h /\ pieces = Span(n, h)
      /\ \A p \in (n + 1)..h : more[p] = "thinking"
      /\ more = log \/ more = Append(log, "thinking")
  <2>1. n \in Nat /\ Len(Append(log, "thinking")) = n + 1
        /\ Append(log, "thinking")[n + 1] = "thinking"
    BY LogMore
  <2>2. Span(n, n) = <<>> /\ Span(n, n + 1) = <<n + 1>>
    BY <2>1, SpanOne
  <2>3. CASE pieces = <<>> /\ more = log
    BY <2>1, <2>2, <2>3
  <2>4. CASE pieces = <<Len(log) + 1>> /\ more = Append(log, "thinking")
    BY <2>1, <2>2, <2>4
  <2> QED BY <2>3, <2>4
<1>3. m = n
  <2>1. m \in Nat
    BY <1>1, <1>2 DEF Sound, Told
  <2> QED BY <1>1, <2>1, SpansNone
<1>4. Sound(c, s, d, n, more)
  BY <1>1, <1>2, <1>3, SoundMore
<1>5. s.started /\ s.reason = ""
  BY DEF Live
<1>6. t = EmitThinking(s, Span(n, h)) /\ h <= Len(more)
  BY <1>2
<1>7. h = Len(more)
  OBVIOUS
<1> HIDE DEF h, t, n
<1>8. /\ Kept(s, EmitThinking(s, Span(n, h))) /\ EmitThinking(s, Span(n, h)).started
      /\ \E e : Sound(c, EmitThinking(s, Span(n, h)), e, h, more) /\ (~d.tooled => ~e.tooled)
  BY <1>2, <1>4, <1>5, <1>6, EmitThinkingSound
<1>9. PICK e : Sound(c, t, e, h, more) /\ (~d.tooled => ~e.tooled)
  BY <1>6, <1>8
<1>10. Kept(s, t) /\ t.started
  BY <1>6, <1>8
<1>11. t.deferred = <<>> /\ t.reason = ""
  BY <1>1, <1>5, <1>10 DEF Kept
<1>12. Spans(t, h, Len(more), more)
  BY <1>2, <1>7, <1>11, SpansNone
<1>13. ~e.tooled
  BY <1>1, <1>9
<1>14. Holds(c, t, more)
  BY <1>9, <1>11, <1>12, <1>13 DEF Holds
<1> QED BY <1>10, <1>11, <1>14 DEF Live, t

LEMMA ThinkingLive ==
    ASSUME NEW c, NEW s, NEW log \in Logs, Live(c, s, log)
    PROVE  Live(c, EmitThinking(s, <<Len(log) + 1>>), Append(log, "thinking"))
<1>1. CASE s.deferring
  <2>1. EmitThinking(s, <<Len(log) + 1>>) = Defer(CloseOpen(s), "thinking", <<Len(log) + 1>>)
    BY <1>1 DEF EmitThinking
  <2> QED BY <1>1, <2>1, DeferLive
<1>2. CASE ~s.deferring
  <2>1. Append(log, "thinking") \in Logs
    BY LogMore
  <2> QED BY <1>2, <2>1, EmitThinkingLive
<1> QED BY <1>1, <1>2

LEMMA SemanticLive ==
    ASSUME NEW c, NEW s, NEW log, Live(c, s, log), NEW refused \in BOOLEAN
    PROVE  /\ Live(c, Semantic(s), log)
           /\ Live(c, [Semantic(s) EXCEPT !.refused = refused], log)
           /\ Live(c, Fail(s), log)
<1>1. s \in Converters
  BY HoldsType DEF Live
<1>2. \A t \in {Semantic(s), [Semantic(s) EXCEPT !.refused = refused], Fail(s)} :
          /\ t \in Converters
          /\ t.frames = s.frames /\ t.omit = s.omit /\ t.started = s.started /\ t.open = s.open
          /\ t.next = s.next /\ t.at = s.at /\ t.replay = s.replay /\ t.reason = s.reason
          /\ t.deferring = s.deferring /\ t.deferred = s.deferred /\ t.tools = s.tools
  <2>1. /\ Semantic(s) \in Converters
        /\ [Semantic(s) EXCEPT !.refused = refused] \in Converters
        /\ Fail(s) \in Converters
    BY <1>1 DEF Converters, Semantic, Fail
  <2> QED BY <1>1, <2>1 DEF Converters, Semantic, Fail
<1>3. \A t \in {Semantic(s), [Semantic(s) EXCEPT !.refused = refused], Fail(s)} : Live(c, t, log)
  BY <1>2, LiveChange
<1> QED BY <1>3

LEMMA LastItem ==
    ASSUME NEW q \in Seq(Items), q # <<>>
    PROVE  /\ q[Len(q)] \in Items
           /\ \A item \in Items : [q EXCEPT ![Len(q)] = item] \in Seq(Items)
  OBVIOUS

LEMMA ItemAppended ==
    ASSUME NEW q \in Seq(Items), NEW item \in Items
    PROVE  /\ Append(q, item) \in Seq(Items) /\ Append(q, item) # <<>>
           /\ Len(Append(q, item)) = Len(q) + 1 /\ Append(q, item)[Len(q) + 1] = item
  BY AppendProperties

LEMMA AppendLive ==
    ASSUME NEW c, NEW s, NEW log \in Logs, Live(c, s, log), NEW more \in Logs,
           more = log \/ more = Append(log, "tool"),
           NEW t \in Converters, NEW item \in Items, t.deferred = Append(s.deferred, item),
           t.frames = s.frames, t.omit = s.omit, t.started = s.started, t.open = s.open,
           t.next = s.next, t.at = s.at, t.replay = s.replay, t.reason = s.reason, t.deferring,
           \A k \in 1..Len(s.deferred) : s.deferred[k].kind = "tool" =>
               LET i == s.deferred[k].index IN
               s.tools[i].piece \in Nat \ {0} => t.tools[i].piece = s.tools[i].piece,
           ItemSpans(t, item, Len(log), Len(more), more)
    PROVE  Live(c, t, more)
<1> DEFINE n == Len(log)
           h == Len(more)
           u == [s EXCEPT !.tools = t.tools]
<1>1. PICK d, m : Sound(c, s, d, m, log) /\ ~d.tooled /\ Spans(s, m, n, log)
  BY DEF Live, Holds
<1>2. s \in Converters /\ s.deferred \in Seq(Items) /\ Len(s.deferred) \in Nat
  BY HoldsType DEF Live
<1>3. s.started /\ s.reason = "" /\ n \in Nat /\ h \in Nat
  BY LogMore DEF Live, Logs
<1>4. Sound(c, s, d, m, more) /\ Spans(s, m, n, more)
  BY <1>1, <1>2, SoundMore, SpansMore
<1>5. Sound(c, t, d, m, more)
  <2>1. ~CompleteTools(s, s.reason)
    BY <1>3 DEF CompleteTools
  <2> QED BY <1>4, <2>1, SoundChange
<1>6. u.deferred = s.deferred /\ u.tools = t.tools
  BY <1>2 DEF Converters
<1> HIDE DEF u, n, h
<1>7. Spans(u, m, n, more)
  BY <1>4, <1>6, SpansKept
<1>8. ItemSpans(u, item, n, h, more)
  BY <1>6 DEF ItemSpans, n, h
<1>9. Spans(t, m, h, more)
  BY <1>2, <1>3, <1>6, <1>7, <1>8, SpansAppend
<1>10. Holds(c, t, more)
  BY <1>1, <1>5, <1>9 DEF Holds, h
<1> QED BY <1>3, <1>10 DEF Live

LEMMA StartedLive ==
    ASSUME NEW c, NEW s, NEW log, Holds(c, s, log), s.reason = ""
    PROVE  Live(c, EnsureStarted(s), log)
<1> DEFINE t == EnsureStarted(s)
<1>1. PICK d, m : /\ Sound(c, s, d, m, log) /\ ~d.tooled
                  /\ Spans(s, m, Len(log), log) /\ (~s.deferring => s.deferred = <<>>)
  BY DEF Holds
<1>2. Kept(s, t) /\ t.started /\ \E e : Sound(c, t, e, m, log) /\ (~d.tooled => ~e.tooled)
  <2>1. Sound(c, s, d, m, log)
    BY <1>1
  <2> QED BY <2>1, StartedSound
<1>3. PICK e : Sound(c, t, e, m, log) /\ (~d.tooled => ~e.tooled)
  BY <1>2
<1> HIDE DEF t
<1>4. Spans(t, m, Len(log), log)
  <2>1. t.deferred = s.deferred /\ t.tools = s.tools
    BY <1>2 DEF Kept
  <2> QED BY <1>1, <2>1, SpansKept
<1>5. ~e.tooled
  BY <1>1, <1>3
<1>6. (~t.deferring => t.deferred = <<>>) /\ t.reason = ""
  BY <1>1, <1>2 DEF Kept
<1> QED BY <1>2, <1>3, <1>4, <1>5, <1>6 DEF Live, Holds, t

LEMMA SignatureLive ==
    ASSUME NEW c, NEW s, NEW log \in Logs, Live(c, s, log), NEW x \in Signatures
    PROVE  Live(c, OnSignature(s, x), log)
<1> DEFINE t == Semantic(s)
           item == [kind |-> "thinking", pieces |-> <<>>, signature |-> "none", index |-> 0]
           d == IF t.deferred # <<>> /\ Last(t.deferred).kind = "thinking"
                THEN t ELSE [t EXCEPT !.deferred = Append(t.deferred, item)]
           u == [d EXCEPT !.deferred[Len(d.deferred)].signature = x]
           v == IF t.open = "none" THEN EmitThinking(t, <<>>) ELSE t
           w == [v EXCEPT !.signature = x]
<1>1. OnSignature(s, x) = IF t.deferring THEN u ELSE w
  BY DEF OnSignature
<1>2. Live(c, t, log)
  BY SemanticLive
<1> HIDE DEF t
<1>3. t \in Converters /\ t.deferred \in Seq(Items) /\ Len(t.deferred) \in Nat
      /\ t.started /\ t.reason = ""
  BY <1>2, HoldsType DEF Live
<1>4. CASE t.deferring
  <2>1. Live(c, d, log) /\ d.deferred # <<>> /\ d.deferring /\ d.deferred[Len(d.deferred)].kind = "thinking"
    <3>1. CASE t.deferred # <<>> /\ Last(t.deferred).kind = "thinking"
      BY <1>2, <1>3, <1>4, <3>1 DEF Last
    <3>2. CASE ~(t.deferred # <<>> /\ Last(t.deferred).kind = "thinking")
      <4>1. d = [t EXCEPT !.deferred = Append(t.deferred, item)]
        BY <3>2
      <4>2. item \in Items /\ item.kind = "thinking" /\ item.pieces = <<>>
        <5>1. 0 \in Indices
          BY ConverterAssumption
        <5>2. <<>> \in Seq(Nat)
          OBVIOUS
        <5> QED BY <5>1, <5>2 DEF Items, Kinds, Signatures
      <4> HIDE DEF item, d
      <4>3. Append(t.deferred, item) \in Seq(Items)
        BY <1>3, <4>2, ItemAppended
      <4>4. /\ d \in Converters /\ d.deferred = Append(t.deferred, item)
            /\ d.frames = t.frames /\ d.omit = t.omit /\ d.started = t.started /\ d.open = t.open
            /\ d.next = t.next /\ d.at = t.at /\ d.replay = t.replay /\ d.reason = t.reason
            /\ d.deferring = t.deferring /\ d.tools = t.tools
        BY <1>3, <4>1, <4>3 DEF Converters
      <4>5. ItemSpans(d, item, Len(log), Len(log), log)
        <5>1. Len(log) \in Nat
          BY DEF Logs
        <5>2. Span(Len(log), Len(log)) = <<>>
          BY <5>1, SpanOne
        <5> QED BY <4>2, <5>1, <5>2 DEF ItemSpans
      <4>6. d.deferring
        BY <1>4, <4>4
      <4>7. Live(c, d, log)
        BY <1>2, <4>2, <4>4, <4>5, <4>6, AppendLive
      <4>8. Len(d.deferred) = Len(t.deferred) + 1 /\ d.deferred[Len(t.deferred) + 1] = item
            /\ d.deferred # <<>>
        BY <1>3, <4>2, <4>4, ItemAppended
      <4> QED BY <4>2, <4>6, <4>7, <4>8
    <3> QED BY <3>1, <3>2
  <2> HIDE DEF d
  <2> DEFINE last == d.deferred[Len(d.deferred)]
             signed == [last EXCEPT !.signature = x]
             q == [d.deferred EXCEPT ![Len(d.deferred)] = signed]
  <2>2. d \in Converters /\ d.deferred \in Seq(Items) /\ Len(d.deferred) \in Nat
        /\ d.started /\ d.reason = ""
    BY <2>1, HoldsType DEF Live
  <2>3. last \in Items
    <3>1. d.deferred # <<>> /\ d.deferred \in Seq(Items)
      BY <2>1, <2>2
    <3> QED BY <3>1, LastItem
  <2>4. signed \in Items /\ signed.kind = last.kind /\ signed.pieces = last.pieces
        /\ signed.index = last.index
    BY <2>3 DEF Items
  <2>5. q \in Seq(Items)
    <3>1. d.deferred # <<>> /\ d.deferred \in Seq(Items)
      BY <2>1, <2>2
    <3> HIDE DEF signed
    <3> QED BY <2>4, <3>1, LastItem
  <2>6. u = [d EXCEPT !.deferred = q]
    BY <2>2 DEF Converters
  <2> HIDE DEF u
  <2>7. /\ u \in Converters /\ u.deferred = q /\ u.tools = d.tools
        /\ u.frames = d.frames /\ u.omit = d.omit /\ u.started = d.started /\ u.open = d.open
        /\ u.next = d.next /\ u.at = d.at /\ u.replay = d.replay /\ u.reason = d.reason
        /\ u.deferring = d.deferring
    BY <2>2, <2>5, <2>6 DEF Converters
  <2>8. PICK e, m : Sound(c, d, e, m, log) /\ ~e.tooled /\ Spans(d, m, Len(log), log)
    BY <2>1 DEF Live, Holds
  <2>9. Sound(c, u, e, m, log)
    <3>1. ~CompleteTools(d, d.reason)
      BY <2>2 DEF CompleteTools
    <3> QED BY <2>7, <2>8, <3>1, SoundChange
  <2>10. Spans(u, m, Len(log), log)
    <3>1. \A lo \in Nat : ItemSpans(d, last, lo, Len(log), log)
                              => ItemSpans(d, signed, lo, Len(log), log)
      <4> HIDE DEF last, signed
      <4> QED BY <2>4 DEF ItemSpans
    <3>2. Len(log) \in Nat /\ Len(log) <= Len(log)
      BY DEF Logs
    <3> HIDE DEF signed
    <3> QED BY <2>1, <2>2, <2>7, <2>8, <3>1, <3>2, SpansLast
  <2>11. Live(c, u, log)
    BY <2>1, <2>2, <2>7, <2>8, <2>9, <2>10 DEF Live, Holds
  <2> QED BY <1>1, <1>4, <2>11
<1>5. CASE ~t.deferring
  <2>1. Live(c, v, log)
    <3>1. Live(c, EmitThinking(t, <<>>), log)
      BY <1>2, <1>5, EmitThinkingLive
    <3> QED BY <1>2, <3>1
  <2> HIDE DEF v
  <2>2. PICK e, m : /\ Sound(c, v, e, m, log) /\ ~e.tooled /\ Spans(v, m, Len(log), log)
                    /\ (~v.deferring => v.deferred = <<>>)
    BY <2>1 DEF Live, Holds
  <2>3. Kept(v, w) /\ w.started = v.started /\ Sound(c, w, e, m, log)
    BY <2>2, SignatureSet
  <2> HIDE DEF w
  <2>4. /\ w.deferred = v.deferred /\ w.tools = v.tools /\ w.reason = v.reason
        /\ (~w.deferring => w.deferred = <<>>)
    BY <2>2, <2>3 DEF Kept
  <2>5. Spans(w, m, Len(log), log)
    BY <2>2, <2>4, SpansKept
  <2>6. Live(c, w, log)
    BY <2>1, <2>2, <2>3, <2>4, <2>5 DEF Live, Holds
  <2> QED BY <1>1, <1>5, <2>6
<1> QED BY <1>4, <1>5

LEMMA CalledLive ==
    ASSUME NEW c, NEW s, NEW log \in Logs, Live(c, s, log), NEW i \in Indices,
           NEW more \in Logs,
           \/ i \in Calls(s) /\ more = log
           \/ i \notin Calls(s) /\ more = Append(log, "tool")
    PROVE  Live(c, Called(s, i, Len(log) + 1), more)
<1> DEFINE n == Len(log)
           r == Semantic(s)
           t == [r EXCEPT !.deferring = TRUE]
           item == [kind |-> "tool", pieces |-> <<>>, signature |-> "none", index |-> i]
           q == Append(t.deferred, item)
           x == [t.tools EXCEPT ![i] = [t.tools[i] EXCEPT !.piece = n + 1]]
           u == [t EXCEPT !.tools = x, !.deferred = q]
<1>1. Live(c, r, log)
  BY SemanticLive
<1>2. s \in Converters /\ r \in Converters /\ r.tools = s.tools /\ r.started /\ r.reason = ""
  <2>1. s \in Converters /\ r \in Converters
    BY <1>1, HoldsType DEF Live
  <2> QED BY <1>1, <2>1 DEF Live, Semantic, Converters
<1> HIDE DEF r
<1>3. /\ t \in Converters /\ t.frames = r.frames /\ t.omit = r.omit /\ t.started = r.started
      /\ t.open = r.open /\ t.next = r.next /\ t.at = r.at /\ t.replay = r.replay
      /\ t.reason = r.reason /\ t.deferred = r.deferred /\ t.tools = r.tools /\ t.deferring
  BY <1>2 DEF Converters
<1> HIDE DEF t
<1>4. Live(c, t, log)
  <2>1. PICK d, m : Sound(c, r, d, m, log) /\ ~d.tooled /\ Spans(r, m, n, log)
    BY <1>1 DEF Live, Holds
  <2>2. ~CompleteTools(r, r.reason)
    BY <1>2 DEF CompleteTools
  <2>3. Sound(c, t, d, m, log)
    BY <1>3, <2>1, <2>2, SoundChange
  <2>4. Spans(t, m, n, log)
    BY <1>3, <2>1, SpansKept
  <2> QED BY <1>2, <1>3, <2>1, <2>3, <2>4 DEF Live, Holds
<1>5. Called(s, i, n + 1) = IF s.tools[i].piece # 0 THEN t ELSE u
  <2>1. x = [t.tools EXCEPT ![i].piece = n + 1]
    OBVIOUS
  <2> HIDE DEF x
  <2>2. u = [[t EXCEPT !.tools = [t.tools EXCEPT ![i].piece = n + 1]]
                EXCEPT !.deferred = Append(t.deferred, item)]
    BY <1>3, <2>1 DEF Converters
  <2> QED BY <1>3, <2>2 DEF Called, t, r, Converters
<1>6. CASE i \in Calls(s)
  <2>1. s.tools[i].piece # 0
    BY <1>6 DEF Calls
  <2> QED BY <1>4, <1>5, <1>6, <2>1
<1>7. CASE i \notin Calls(s)
  <2>1. s.tools[i].piece = 0 /\ more = Append(log, "tool")
    BY <1>7 DEF Calls
  <2>2. n \in Nat /\ n + 1 \in Nat /\ Len(more) = n + 1
    BY <2>1, LogMore
  <2>3. item \in Items /\ item.kind = "tool" /\ item.index = i
    <3>1. <<>> \in Seq(Nat)
      OBVIOUS
    <3> QED BY <3>1 DEF Items, Kinds, Signatures
  <2> HIDE DEF item
  <2>4. t.deferred \in Seq(Items) /\ q \in Seq(Items) /\ t.tools \in [Indices -> Tools]
    <3>1. t.deferred \in Seq(Items) /\ t.tools \in [Indices -> Tools]
      BY <1>3 DEF Converters
    <3> QED BY <2>3, <3>1, ItemAppended
  <2>5. x \in [Indices -> Tools] /\ x[i].piece = n + 1
        /\ \A j \in Indices : j # i => x[j] = t.tools[j]
    <3>1. t.tools[i] \in Tools
      BY <2>4
    <3>2. [t.tools[i] EXCEPT !.piece = n + 1] \in Tools
          /\ [t.tools[i] EXCEPT !.piece = n + 1].piece = n + 1
      BY <2>2, <3>1 DEF Tools
    <3> QED BY <2>4, <3>2
  <2> HIDE DEF x, q, n
  <2>6. /\ u \in Converters /\ u.frames = t.frames /\ u.omit = t.omit /\ u.started = t.started
        /\ u.open = t.open /\ u.next = t.next /\ u.at = t.at /\ u.replay = t.replay
        /\ u.reason = t.reason /\ u.deferred = q /\ u.tools = x /\ u.deferring = t.deferring
    BY <1>3, <2>4, <2>5 DEF Converters
  <2> HIDE DEF u
  <2>7. \A k \in 1..Len(t.deferred) : t.deferred[k].kind = "tool" =>
            LET j == t.deferred[k].index IN
            t.tools[j].piece \in Nat \ {0} => u.tools[j].piece = t.tools[j].piece
    <3> SUFFICES ASSUME NEW k \in 1..Len(t.deferred), NEW j, j = t.deferred[k].index,
                        t.tools[j].piece \in Nat \ {0}
                 PROVE  u.tools[j].piece = t.tools[j].piece
      OBVIOUS
    <3>1. j \in Indices
      <4>1. t.deferred[k] \in Items
        BY <2>4
      <4> QED BY <4>1 DEF Items
    <3>2. j # i
      BY <1>2, <1>3, <2>1
    <3> QED BY <2>5, <2>6, <3>1, <3>2
  <2>8. ItemSpans(u, item, n, Len(more), more)
    BY <2>2, <2>3, <2>5, <2>6 DEF ItemSpans
  <2>9. u.deferring
    BY <1>3, <2>6
  <2>10. Live(c, u, more)
    BY <1>4, <2>1, <2>3, <2>6, <2>7, <2>8, <2>9, AppendLive DEF q, n
  <2> QED BY <1>5, <2>1, <2>10 DEF n, u
<1> QED BY <1>6, <1>7

LEMMA MergedLive ==
    ASSUME NEW c, NEW s, NEW log, Live(c, s, log), NEW i \in Indices,
           NEW fragment \in Fragments, NEW id \in Ids \cup {"", Generated}
    PROVE  /\ Live(c, Merged(s, i, fragment), log)
           /\ Live(c, Merged([s EXCEPT !.tools[i].id = id], i, fragment), log)
<1>1. s \in Converters /\ s.tools \in [Indices -> Tools]
  <2>1. s \in Converters
    BY HoldsType DEF Live
  <2> QED BY <2>1 DEF Converters
<1>2. fragment.named \in BOOLEAN /\ fragment.args \in {"", "{", "}", "{}"}
  BY ConverterAssumption
<1>3. ASSUME NEW x \in [Indices -> Tools], \A j \in Indices : x[j].piece = s.tools[j].piece
      PROVE  Live(c, [s EXCEPT !.tools = x], log)
  <2> DEFINE t == [s EXCEPT !.tools = x]
  <2>1. /\ t \in Converters /\ t.tools = x
        /\ t.frames = s.frames /\ t.omit = s.omit /\ t.started = s.started /\ t.open = s.open
        /\ t.next = s.next /\ t.at = s.at /\ t.replay = s.replay /\ t.reason = s.reason
        /\ t.deferring = s.deferring /\ t.deferred = s.deferred
    BY <1>1 DEF Converters
  <2> HIDE DEF t
  <2>2. Live(c, t, log)
    BY <1>3, <2>1, LiveChange
  <2> QED BY <2>2 DEF t
<1>4. ASSUME NEW tool \in Tools
      PROVE  [tool EXCEPT !.named = tool.named \/ fragment.named,
                          !.args = ArgumentsWith(tool.args, fragment.args)] \in Tools
  <2>1. ArgumentsWith(tool.args, fragment.args) \in {"", "{", "{}", "bad"}
    BY <1>2 DEF ArgumentsWith, Tools
  <2>2. (tool.named \/ fragment.named) \in BOOLEAN
    OBVIOUS
  <2> QED BY <2>1, <2>2 DEF Tools
<1>5. ASSUME NEW y \in [Indices -> Tools], \A j \in Indices : y[j].piece = s.tools[j].piece,
             NEW r, r = [s EXCEPT !.tools = y]
      PROVE  Live(c, Merged(r, i, fragment), log)
  <2> DEFINE z == [y[i] EXCEPT !.named = y[i].named \/ fragment.named,
                               !.args = ArgumentsWith(y[i].args, fragment.args)]
             x == [y EXCEPT ![i] = z]
  <2>1. z \in Tools /\ z.piece = y[i].piece
    <3>1. y[i] \in Tools
      OBVIOUS
    <3>2. z \in Tools
      BY <1>4, <3>1
    <3> QED BY <3>1, <3>2 DEF Tools
  <2>2. x \in [Indices -> Tools] /\ \A j \in Indices : x[j].piece = s.tools[j].piece
    <3> HIDE DEF z
    <3> QED BY <1>5, <2>1
  <2>3. r.tools = y
    BY <1>1, <1>5 DEF Converters
  <2>4. Merged(r, i, fragment) = [s EXCEPT !.tools = x]
    <3>1. [[y EXCEPT ![i].named = y[i].named \/ fragment.named]
              EXCEPT ![i].args = ArgumentsWith(y[i].args, fragment.args)] = x
      BY DEF Tools
    <3> HIDE DEF x
    <3> QED BY <1>1, <1>5, <2>3, <3>1 DEF Merged, Converters
  <2> HIDE DEF x
  <2> QED BY <1>3, <2>2, <2>4
<1>6. Live(c, Merged(s, i, fragment), log)
  <2>1. s = [s EXCEPT !.tools = s.tools]
    BY <1>1 DEF Converters
  <2> QED BY <1>1, <1>5, <2>1
<1>7. Live(c, Merged([s EXCEPT !.tools[i].id = id], i, fragment), log)
  <2> DEFINE z == [s.tools[i] EXCEPT !.id = id]
             y == [s.tools EXCEPT ![i] = z]
  <2>1. z \in Tools /\ z.piece = s.tools[i].piece
    BY <1>1 DEF Tools
  <2>2. y \in [Indices -> Tools] /\ \A j \in Indices : y[j].piece = s.tools[j].piece
    <3> HIDE DEF z
    <3> QED BY <1>1, <2>1
  <2>3. [s EXCEPT !.tools[i].id = id] = [s EXCEPT !.tools = y]
    OBVIOUS
  <2> HIDE DEF y
  <2> QED BY <1>5, <2>2, <2>3
<1> QED BY <1>6, <1>7

LEMMA ToolCallLive ==
    ASSUME NEW c, NEW s, NEW log \in Logs, Live(c, s, log), NEW i \in Indices,
           NEW more \in Logs, NEW fragment \in Fragments,
           \/ i \in Calls(s) /\ more = log
           \/ i \notin Calls(s) /\ more = Append(log, "tool")
    PROVE  Live(c, OnToolCall(s, i, fragment, Len(log) + 1), more)
<1> DEFINE t == Called(s, i, Len(log) + 1)
<1>1. Live(c, t, more)
  BY CalledLive
<1>2. fragment.id \in Ids \cup {"", Generated} /\ "" \in Ids \cup {"", Generated}
  BY ConverterAssumption
<1> HIDE DEF t
<1>3. Live(c, Fail(t), more) /\ Live(c, Merged(t, i, fragment), more)
      /\ Live(c, Merged([t EXCEPT !.tools[i].id = fragment.id], i, fragment), more)
  <2>1. Live(c, Fail(t), more)
    BY <1>1, SemanticLive
  <2>2. Live(c, Merged(t, i, fragment), more)
        /\ Live(c, Merged([t EXCEPT !.tools[i].id = fragment.id], i, fragment), more)
    BY <1>1, <1>2, MergedLive
  <2> QED BY <2>1, <2>2
<1> QED BY <1>3 DEF OnToolCall, t

LEMMA FunctionCallLive ==
    ASSUME NEW c, NEW s, NEW log \in Logs, Live(c, s, log),
           NEW more \in Logs, NEW fragment \in Fragments,
           \/ 0 \in Calls(s) /\ more = log
           \/ 0 \notin Calls(s) /\ more = Append(log, "tool")
    PROVE  Live(c, OnFunctionCall(s, fragment, Len(log) + 1), more)
<1> DEFINE t == Called(s, 0, Len(log) + 1)
           id == IF t.tools[0].id = "" THEN Generated ELSE t.tools[0].id
<1>1. 0 \in Indices
  BY ConverterAssumption
<1>2. Live(c, t, more)
  BY <1>1, CalledLive
<1> HIDE DEF t
<1>3. id \in Ids \cup {"", Generated}
  <2>1. t \in Converters
    BY <1>2, HoldsType DEF Live
  <2>2. t.tools[0] \in Tools
    BY <1>1, <2>1 DEF Converters
  <2> QED BY <2>2 DEF Tools
<1>4. OnFunctionCall(s, fragment, Len(log) + 1)
          = Merged([t EXCEPT !.tools[0].id = id], 0, fragment)
  BY DEF OnFunctionCall, t
<1> HIDE DEF id
<1> QED BY <1>1, <1>2, <1>3, <1>4, MergedLive

LEMMA OutputLive ==
    ASSUME NEW c, NEW s, NEW log \in Logs, Live(c, s, log)
    PROVE  /\ Live(c, OnThinking(s, Len(log) + 1), Append(log, "thinking"))
           /\ Live(c, OnText(s, Len(log) + 1), Append(log, "text"))
           /\ Live(c, OnRefusal(s, Len(log) + 1), Append(log, "text"))
<1>1. TRUE \in BOOLEAN
  OBVIOUS
<1>2. Live(c, Semantic(s), log) /\ Live(c, [Semantic(s) EXCEPT !.refused = TRUE], log)
  BY <1>1, SemanticLive
<1>3. \A t : Live(c, t, log) =>
          /\ Live(c, EmitThinking(t, <<Len(log) + 1>>), Append(log, "thinking"))
          /\ Live(c, EmitText(t, <<Len(log) + 1>>), Append(log, "text"))
  BY TextLive, ThinkingLive
<1> QED BY <1>2, <1>3 DEF OnThinking, OnText, OnRefusal

-----------------------------------------------------------------------------
(* The inductive invariant.                                                 *)

Ascending(g) == \A i \in 2..Len(g) : g[i - 1] < g[i]

LEMMA AscendingPrefix ==
    ASSUME NEW g, NEW h, Len(g) \in Nat, Len(h) \in Nat, Extends(g, h), Ascending(h)
    PROVE  Ascending(g)
<1> SUFFICES ASSUME NEW i \in 2..Len(g) PROVE g[i - 1] < g[i]
  BY DEF Ascending
<1>1. i \in 1..Len(g) /\ i - 1 \in 1..Len(g) /\ i \in 2..Len(h)
  BY DEF Extends
<1>2. g[i] = h[i] /\ g[i - 1] = h[i - 1] /\ h[i - 1] < h[i]
  BY <1>1 DEF Extends, Ascending
<1> QED BY <1>2

LEMMA SoundAscending ==
    ASSUME NEW c, NEW s, NEW d, NEW m, NEW log, Sound(c, s, d, m, log)
    PROVE  Ascending(d.got)
<1>1. s \in Converters /\ d \in Clients
  BY DEF Sound, Linked
<1>2. d.got \in Seq(Nat) /\ s.replay \in Seq(Nat)
  BY <1>1 DEF Clients, Converters
<1>3. Heard(s, d) \in Seq(Nat) /\ Extends(d.got, Heard(s, d))
  <2>1. CASE s.omit
    <3>1. Heard(s, d) = d.got \o s.replay
      BY <2>1 DEF Heard
    <3> QED BY <1>2, <3>1, Concatenated
  <2>2. CASE ~s.omit
    <3>1. Heard(s, d) = d.got
      BY <1>2, <2>2, ConcatNothing DEF Heard
    <3> QED BY <1>2, <3>1, Concatenated
  <2> QED BY <2>1, <2>2
<1>4. Ascending(Heard(s, d))
  BY DEF Sound, Told, Orderly, Ascending
<1>5. Len(d.got) \in Nat /\ Len(Heard(s, d)) \in Nat
  BY <1>2, <1>3
<1> QED BY <1>3, <1>4, <1>5, AscendingPrefix

\* What has ended stays so.
LEMMA ReachStage ==
    ASSUME NEW c \in Clients, NEW d, NEW frames \in Seq(Frames), NEW omitted \in BOOLEAN,
           Reaches(c, frames, d, omitted), c.stage \in {"ending", "stopped", "failed"}
    PROVE  d.stage \in {"ending", "stopped", "failed"}
<1>1. CASE frames = <<>>
  BY <1>1, ReachEmpty
<1>2. CASE frames # <<>> /\ c.stage = "ending"
  <2> DEFINE f == Head(frames)
             e == Shown(c, f, omitted)
  <2>1. /\ Allowed(c, f) /\ e = After(c, f, omitted) /\ e \in Clients
        /\ Reaches(e, Tail(frames), d, omitted)
    BY <1>2, ReachTake
  <2>2. f \in Frames /\ Tail(frames) \in Seq(Frames)
    BY <1>2, HeadTailProperties
  <2> HIDE DEF f, e
  <2>3. f.type = "message_stop"
    BY <1>2, <2>1, <2>2 DEF Allowed, Frames
  <2>4. e = [c EXCEPT !.stage = "stopped"]
    BY <2>1, <2>3 DEF After
  <2>5. e.stage = "stopped"
    BY <2>4 DEF Clients
  <2>6. d = e
    BY <2>1, <2>2, <2>5, ReachEnded
  <2> QED BY <2>5, <2>6
<1>3. CASE c.stage \in {"stopped", "failed"}
  BY <1>3, ReachEnded
<1> QED BY <1>1, <1>2, <1>3

\* A converter without frames agrees with the client itself.
LEMMA HoldsQuiet ==
    ASSUME NEW c, NEW s, NEW log, Holds(c, s, log), s.frames = <<>>
    PROVE  /\ \E m : Sound(c, s, c, m, log) /\ Spans(s, m, Len(log), log)
           /\ c \in Clients /\ ~c.tooled /\ Ascending(c.got)
           /\ c.stage \in {"before", "message"}
<1>1. PICK d, m : /\ Sound(c, s, d, m, log) /\ ~d.tooled /\ Spans(s, m, Len(log), log)
  BY DEF Holds
<1>2. Reaches(c, <<>>, d, s.omit) /\ d \in Clients /\ Match(s, d)
  BY <1>1 DEF Sound, Linked
<1>3. d = c
  BY <1>2, ReachEmpty
<1>4. c.stage \in {"before", "message"}
  BY <1>2, <1>3 DEF Match
<1> QED BY <1>1, <1>2, <1>3, <1>4, SoundAscending

\* An event is over: its frames are on their way, its reason is noted.
LEMMA EventOver ==
    ASSUME NEW c, NEW s, NEW log, Live(c, s, log), NEW r \in FinishReasons
    PROVE  LET t == [s EXCEPT !.reason = r, !.frames = <<>>]
           IN  \E d : Reaches(c, s.frames, d, s.omit) /\ Holds(d, t, log)
<1> DEFINE t == [s EXCEPT !.reason = r, !.frames = <<>>]
<1>1. PICK d, m : /\ Sound(c, s, d, m, log) /\ ~d.tooled /\ Spans(s, m, Len(log), log)
                  /\ (~s.deferring => s.deferred = <<>>)
  BY DEF Live, Holds
<1>2. s \in Converters /\ d \in Clients /\ Reaches(c, s.frames, d, s.omit)
      /\ Match(s, d) /\ Told(s, d, m, log)
  BY <1>1 DEF Sound, Linked
<1>3. /\ t \in Converters /\ t.frames = <<>> /\ t.omit = s.omit /\ t.started = s.started
      /\ t.open = s.open /\ t.next = s.next /\ t.at = s.at /\ t.replay = s.replay
      /\ t.deferring = s.deferring /\ t.deferred = s.deferred /\ t.tools = s.tools
  <2>1. <<>> \in Seq(Frames)
    BY EmptySeq
  <2>2. t \in Converters
    BY <1>2, <2>1 DEF Converters
  <2> QED BY <1>2, <2>2 DEF Converters
<1> HIDE DEF t
<1>4. Reaches(d, t.frames, d, t.omit)
  BY <1>2, <1>3, ReachNil
<1>5. ToolFrames(t)
  BY <1>3 DEF ToolFrames
<1>6. Match(t, d) /\ Told(t, d, m, log)
  BY <1>1, <1>2, <1>3 DEF Match, Told, Heard
<1>7. Sound(d, t, d, m, log)
  BY <1>2, <1>3, <1>4, <1>5, <1>6 DEF Sound, Linked
<1>8. Spans(t, m, Len(log), log)
  BY <1>1, <1>3, SpansKept
<1> QED BY <1>1, <1>2, <1>3, <1>7, <1>8 DEF Holds, t

LEMMA FreshHolds ==
    ASSUME NEW omitThinking \in BOOLEAN
    PROVE  /\ Fresh(omitThinking) \in Converters
           /\ Fresh(omitThinking).omit = omitThinking
           /\ Fresh(omitThinking).frames = <<>> /\ ~Fresh(omitThinking).failed
           /\ Fresh(omitThinking).reason = ""
           /\ NewClient \in Clients
           /\ Holds(NewClient, Fresh(omitThinking), <<>>)
<1> DEFINE s == Fresh(omitThinking)
           c == NewClient
<1>1. /\ s.omit = omitThinking /\ s.frames = <<>> /\ ~s.failed /\ s.reason = ""
      /\ s.started = FALSE /\ s.next = 0 /\ s.open = "none" /\ s.replay = <<>>
      /\ s.deferred = <<>>
  BY DEF Fresh
<1>2. s \in Converters
  <2>1. [i \in Indices |-> NoTool] \in [Indices -> Tools]
    BY DEF NoTool, Tools
  <2>2. <<>> \in Seq(Nat) /\ <<>> \in Seq(Frames) /\ <<>> \in Seq(Items)
    BY EmptySeq
  <2> QED BY <2>1, <2>2 DEF Fresh, Converters, Signatures, FinishReasons
<1>3. /\ c \in Clients /\ c.stage = "before" /\ c.open = "none" /\ c.blocks = 0
      /\ c.tooled = FALSE /\ c.got = <<>>
  <2>1. <<>> \in Seq(Nat)
    BY EmptySeq
  <2> QED BY <2>1 DEF NewClient, Clients, Stages
<1> HIDE DEF s, c
<1>4. Linked(c, s, c)
  <2>1. Reaches(c, s.frames, c, s.omit)
    BY <1>1, <1>3, ReachNil
  <2>2. ToolFrames(s)
    <3>1. Len(s.frames) = 0
      BY <1>1
    <3> QED BY <3>1 DEF ToolFrames
  <2> QED BY <1>2, <1>3, <2>1, <2>2 DEF Linked
<1>5. Match(s, c)
  BY <1>1, <1>3 DEF Match
<1>6. Told(s, c, 0, <<>>)
  <2>1. <<>> \o <<>> = <<>>
    <3>1. <<>> \in Seq(Nat)
      BY EmptySeq
    <3> QED BY <3>1, ConcatNothing
  <2>2. Heard(s, c) = <<>>
    BY <1>1, <1>3, <2>1 DEF Heard
  <2>3. Orderly(<<>>, 0, <<>>, s.omit /\ c.foreign)
    BY DEF Orderly
  <2>4. s.replay = <<>>
    BY <1>1
  <2>5. Len(<<>>) = 0
    OBVIOUS
  <2>6. Len(s.replay) = 0 /\ 0 \in 0..Len(<<>>)
    BY <2>4, <2>5
  <2> QED BY <2>2, <2>3, <2>6 DEF Told
<1>7. Spans(s, 0, 0, <<>>)
  <2>1. s.deferred = <<>>
    BY <1>1
  <2> QED BY <2>1, SpansNone
<1>8. Len(<<>>) = 0
  OBVIOUS
<1>9. Holds(c, s, <<>>)
  BY <1>1, <1>3, <1>4, <1>5, <1>6, <1>7, <1>8 DEF Holds, Sound
<1> QED BY <1>1, <1>2, <1>3, <1>9 DEF s, c

Reading  == {"await", "chunk", "tail", "finish"}
Yielding == {"yield", "suspended"}

TypeInv ==
    /\ pc \in Reading \cup Yielding \cup {"event", "end", "closed"}
    /\ conv \in Converters /\ client \in Clients
    /\ out \in Seq(Frames) /\ sent \in Logs
    /\ stopped \in BOOLEAN /\ eof \in BOOLEAN
    /\ capture \in [protocol : BOOLEAN, readError : BOOLEAN]

\* An error is on its way, or has arrived.
Failing ==
    \/ out = <<ErrorFrame>> /\ client.stage \in {"before", "message"} /\ ~client.tooled
    \/ out = <<>> /\ client.stage = "failed"

\* The frames on their way lead to a client that agrees with the converter.
Continuing ==
    /\ conv.frames = <<>> /\ ~conv.failed
    /\ \E d : Reaches(client, out, d, conv.omit) /\ Holds(d, conv, sent)

\* The frames on their way lead to the end of a whole message.
Finishing ==
    /\ said # {}
    /\ \E d : /\ Reaches(client, out, d, conv.omit) /\ d.stage = "stopped"
              /\ Orderly(d.got, Len(sent), sent, conv.omit /\ d.foreign)

FlowInv ==
    /\ pc \in Reading =>
           out = <<>> /\ conv.frames = <<>> /\ ~conv.failed /\ Holds(client, conv, sent)
    /\ pc = "event" =>
           /\ out = <<>> /\ next \in {"chunk", "finish"} /\ Live(client, conv, sent)
           /\ client.stage \in {"before", "message"} /\ ~client.tooled
    /\ pc \in Yielding =>
           \/ next \in {"chunk", "finish"} /\ Continuing
           \/ next \in {"closed", "end"} /\ Failing
           \/ next = "end" /\ Finishing
    /\ pc = "end" => out = <<>> /\ client.stage \in {"stopped", "failed"}
    /\ pc = "closed" => out = <<>>

SeenInv ==
    /\ Ascending(client.got)
    /\ client.stage = "stopped" =>
           Orderly(client.got, Len(sent), sent, conv.omit /\ client.foreign)
    /\ CutOffFails

TruthInv ==
    /\ stopped <=> "done" \in said
    /\ capture.protocol => stopped
    /\ pc = "end" \/ (pc \in Yielding /\ next = "end") => (capture.protocol <=> stopped)
    /\ pc = "tail" \/ next = "finish" => eof
    /\ pc \in {"finish", "end"} \/ next = "end" => stopped \/ eof
    /\ capture.readError /\ pc # "closed" => pc \in Yielding /\ next = "closed"
    /\ conv.reason # "" => said # {}
    /\ CaptureTruth
    /\ NeverSilent

ChatInv == TypeInv /\ FlowInv /\ SeenInv /\ TruthInv

-----------------------------------------------------------------------------
LEMMA ChatInit == Init => ChatInv
<1> SUFFICES ASSUME Init PROVE ChatInv
  OBVIOUS
<1>1. PICK omitThinking \in BOOLEAN : conv = Fresh(omitThinking)
  BY DEF Init
<1>2. /\ conv \in Converters /\ conv.frames = <<>> /\ ~conv.failed /\ conv.reason = ""
      /\ client \in Clients /\ Holds(client, conv, sent)
  <2>1. sent = <<>> /\ client = NewClient
    BY DEF Init
  <2> QED BY <1>1, <2>1, FreshHolds
<1>3. TypeInv
  BY <1>2, EmptySeq DEF Init, TypeInv, Reading, Logs
<1>4. FlowInv
  BY <1>2 DEF Init, FlowInv, Reading, Yielding
<1>5. SeenInv
  <2>1. Ascending(client.got) /\ client.stage = "before"
    BY <1>2, HoldsQuiet DEF Init, NewClient
  <2> QED BY <2>1 DEF SeenInv, CutOffFails
<1>6. TruthInv
  BY <1>2 DEF Init, TruthInv, CaptureTruth, NeverSilent
<1> QED BY <1>3, <1>4, <1>5, <1>6 DEF ChatInv

\* The message fails: by an error frame, and nothing else.
LEMMA FailingNext ==
    ASSUME ChatInv, YieldErrorAndReturn \/ (Yield(<<ErrorFrame>>, "end") /\ Discard),
           pc \in Reading \cup {"event"},
           sent' = sent, client' = client, said' = said,
           eof' \in BOOLEAN, stopped' \in BOOLEAN,
           capture' \in [protocol : BOOLEAN, readError : BOOLEAN]
    PROVE  TypeInv' /\ FlowInv' /\ SeenInv'
<1>1. out' = <<ErrorFrame>> /\ pc' = "yield" /\ next' \in {"closed", "end"} /\ conv' = Fresh(conv.omit)
  BY DEF YieldErrorAndReturn, Yield, Discard
<1>2. ErrorFrame \in Frames
  BY EmptySeq DEF ErrorFrame, Frame, Frames, Signatures
<1>3. conv' \in Converters /\ conv'.omit = conv.omit
  <2>1. conv.omit \in BOOLEAN
    BY DEF ChatInv, TypeInv, Converters
  <2> QED BY <1>1, <2>1, FreshHolds
<1>4. client.stage \in {"before", "message"} /\ ~client.tooled
  <2>1. CASE pc \in Reading
    <3>1. Holds(client, conv, sent) /\ conv.frames = <<>>
      BY <2>1 DEF ChatInv, FlowInv
    <3> QED BY <3>1, HoldsQuiet
  <2>2. CASE pc = "event"
    BY <2>2 DEF ChatInv, FlowInv
  <2> QED BY <2>1, <2>2
<1>5. out' \in Seq(Frames)
  BY <1>1, <1>2
<1>6. TypeInv'
  BY <1>1, <1>3, <1>5 DEF ChatInv, TypeInv, Yielding
<1>7. FlowInv'
  <2>1. Failing'
    BY <1>1, <1>4 DEF Failing
  <2> QED BY <1>1, <2>1 DEF FlowInv, Reading, Yielding
<1>8. SeenInv'
  <2>1. client'.stage \notin {"ending", "stopped"}
    BY <1>4
  <2> QED BY <2>1 DEF ChatInv, SeenInv, CutOffFails
<1> QED BY <1>6, <1>7, <1>8

\* The generator ends: nothing is on its way.
LEMMA ClosedNext ==
    ASSUME ChatInv, NEW complete, Close(complete),
           sent' = sent, client' = client, said' = said, eof' = eof, stopped' = stopped,
           capture' = capture
    PROVE  TypeInv' /\ FlowInv' /\ SeenInv'
<1>1. out' = <<>> /\ pc' = "closed" /\ conv' = Fresh(conv.omit)
  BY DEF Close, Discard
<1>2. conv' \in Converters /\ conv'.omit = conv.omit
  <2>1. conv.omit \in BOOLEAN
    BY DEF ChatInv, TypeInv, Converters
  <2> QED BY <1>1, <2>1, FreshHolds
<1>3. TypeInv'
  BY <1>1, <1>2, EmptySeq DEF ChatInv, TypeInv
<1>4. FlowInv'
  BY <1>1 DEF FlowInv, Reading, Yielding
<1>5. SeenInv'
  BY <1>2 DEF ChatInv, SeenInv, CutOffFails
<1> QED BY <1>3, <1>4, <1>5

\* What a closed exchange has said stays true.
LEMMA ClosedTruth ==
    ASSUME ChatInv, NEW complete \in BOOLEAN, Close(complete),
           client' = client, said' = said, eof' = eof, stopped' = stopped, capture' = capture,
           complete => ~capture.readError /\ eof,
           client.stage \in {"stopped", "failed"} \/ gone',
           client.stage = "stopped" /\ ~gone' =>
               (capture.protocol <=> stopped) /\ (complete <=> ~stopped),
           capture.readError => client.stage \notin {"stopped", "ending"}
    PROVE  TruthInv'
<1>1. /\ pc' = "closed" /\ next' = "closed" /\ conv' = Fresh(conv.omit)
      /\ record' = [complete |-> complete, protocol |-> capture.protocol,
                    cause |-> CASE complete -> "none"
                                [] ~complete /\ capture.readError -> "read_error"
                                [] OTHER -> "body_cancelled"]
  BY DEF Close, Discard
<1>2. conv'.reason = ""
  <2>1. conv.omit \in BOOLEAN
    BY DEF ChatInv, TypeInv, Converters
  <2> QED BY <1>1, <2>1, FreshHolds
<1>3. /\ record'.complete = complete /\ record'.protocol = capture.protocol
      /\ record'.cause = "read_error" <=> capture.readError
  <2>1. capture.readError \in BOOLEAN
    BY DEF ChatInv, TypeInv
  <2> QED BY <1>1, <2>1
<1>4. CaptureTruth'
  <2>1. (capture.protocol => "done" \in said) /\ (stopped <=> "done" \in said)
    BY DEF ChatInv, TruthInv
  <2> QED BY <1>3, <2>1 DEF CaptureTruth
<1>5. NeverSilent'
  BY DEF NeverSilent
<1>6. /\ stopped' <=> "done" \in said'
      /\ capture'.protocol => stopped'
  BY DEF ChatInv, TruthInv
<1> QED BY <1>1, <1>2, <1>4, <1>5, <1>6 DEF TruthInv

LEMMA ReadingNext ==
    ASSUME ChatInv, Chunk \/ Eof \/ ChunkEnds \/ Done
    PROVE  ChatInv'
<1> USE DEF upstreamVars, captureVars, clientVars
<1>1. /\ pc \in Reading \ {"finish"} /\ pc' \in Reading
      /\ next' = next /\ conv' = conv /\ out' = out /\ sent' = sent /\ client' = client
      /\ capture' = capture /\ record' = record /\ gone' = gone
      /\ said \subseteq said' /\ eof' \in BOOLEAN /\ stopped' \in BOOLEAN
  BY DEF Chunk, Eof, ChunkEnds, Done, Reading, ChatInv, TypeInv
<1>2. TypeInv'
  BY <1>1 DEF ChatInv, TypeInv
<1>3. FlowInv'
  BY <1>1 DEF ChatInv, FlowInv, Reading, Yielding
<1>4. SeenInv'
  BY <1>1 DEF ChatInv, SeenInv, CutOffFails
<1>5. TruthInv'
  <2>1. pc' # "closed"
    BY <1>1 DEF Reading
  <2>2. CaptureTruth' /\ NeverSilent'
    BY <2>1 DEF CaptureTruth, NeverSilent
  <2>3. /\ stopped' <=> "done" \in said'
        /\ capture'.protocol => stopped'
        /\ pc' = "tail" \/ next' = "finish" => eof'
        /\ pc' \in {"finish", "end"} \/ next' = "end" => stopped' \/ eof'
    <3>1. /\ stopped <=> "done" \in said
          /\ capture.protocol => stopped
          /\ pc = "tail" \/ next = "finish" => eof
          /\ pc \in {"finish", "end"} \/ next = "end" => stopped \/ eof
      BY DEF ChatInv, TruthInv
    <3>2. CASE Chunk
      BY <1>1, <3>1, <3>2 DEF Chunk
    <3>3. CASE Eof
      BY <1>1, <3>1, <3>3 DEF Eof
    <3>4. CASE ChunkEnds
      BY <1>1, <3>1, <3>4 DEF ChunkEnds
    <3>5. CASE Done
      BY <1>1, <3>1, <3>5 DEF Done
    <3> QED BY <3>2, <3>3, <3>4, <3>5
  <2>4. ~capture'.readError
    BY <1>1 DEF ChatInv, TruthInv, Reading, Yielding
  <2>5. conv'.reason # "" => said' # {}
    BY <1>1 DEF ChatInv, TruthInv
  <2>6. pc' \notin Yielding \cup {"end"}
    BY <1>1 DEF Reading, Yielding
  <2> QED BY <2>2, <2>3, <2>4, <2>5, <2>6 DEF TruthInv
<1> QED BY <1>2, <1>3, <1>4, <1>5 DEF ChatInv

LEMMA ErrorNext ==
    ASSUME ChatInv, Undecodable \/ ReadError \/ BadEvent
    PROVE  ChatInv'
<1> USE DEF upstreamVars, captureVars, clientVars
<1>1. /\ YieldErrorAndReturn /\ pc \in Reading \ {"finish"}
      /\ sent' = sent /\ eof' = eof /\ said' = said /\ stopped' = stopped
      /\ client' = client /\ gone' = gone
      /\ capture'.protocol = capture.protocol
      /\ capture' \in [protocol : BOOLEAN, readError : BOOLEAN]
  BY DEF Undecodable, ReadError, BadEvent, Reading, ChatInv, TypeInv
<1>2. pc' = "yield" /\ next' = "closed" /\ conv' = Fresh(conv.omit)
  BY <1>1 DEF YieldErrorAndReturn, Yield, Discard
<1>3. eof' \in BOOLEAN /\ stopped' \in BOOLEAN
  BY <1>1 DEF ChatInv, TypeInv
<1>4. TypeInv' /\ FlowInv' /\ SeenInv'
  BY <1>1, <1>3, FailingNext
<1>5. TruthInv'
  <2>1. conv'.reason = ""
    <3>1. conv.omit \in BOOLEAN
      BY DEF ChatInv, TypeInv, Converters
    <3> QED BY <1>2, <3>1, FreshHolds
  <2> QED BY <1>1, <1>2, <2>1 DEF ChatInv, TruthInv, CaptureTruth, NeverSilent, Yielding
<1> QED BY <1>4, <1>5 DEF ChatInv

LEMMA EventNext ==
    ASSUME ChatInv, Event
    PROVE  ChatInv'
<1> USE DEF upstreamVars, captureVars, clientVars
<1>1. /\ pc \in Reading /\ pc \in {"chunk", "tail"} /\ conv.reason = "" /\ pc' = "event"
      /\ next' = IF pc = "chunk" THEN "chunk" ELSE "finish"
      /\ conv' = EnsureStarted(conv)
      /\ out' = out /\ stopped' = stopped /\ sent' = sent /\ eof' = eof /\ said' = said
      /\ capture' = capture /\ record' = record /\ client' = client /\ gone' = gone
  BY DEF Event, Reading
<1>2. Holds(client, conv, sent) /\ conv.frames = <<>> /\ out = <<>>
  BY <1>1 DEF ChatInv, FlowInv
<1>3. Live(client, EnsureStarted(conv), sent)
  BY <1>1, <1>2, StartedLive
<1>4. client.stage \in {"before", "message"} /\ ~client.tooled
  BY <1>2, HoldsQuiet
<1>5. TypeInv'
  <2>1. conv' \in Converters
    BY <1>1, <1>3, HoldsType DEF Live
  <2> QED BY <1>1, <2>1 DEF ChatInv, TypeInv
<1>6. FlowInv'
  <2>1. Live(client', conv', sent')
    BY <1>1, <1>3
  <2> QED BY <1>1, <1>2, <1>4, <2>1 DEF FlowInv, Reading, Yielding
<1>7. SeenInv'
  BY <1>1, <1>4 DEF ChatInv, SeenInv, CutOffFails
<1>8. TruthInv'
  <2>1. conv'.reason = ""
    BY <1>1, <1>3 DEF Live
  <2> QED BY <1>1, <2>1 DEF ChatInv, TruthInv, CaptureTruth, NeverSilent, Yielding
<1> QED BY <1>5, <1>6, <1>7, <1>8 DEF ChatInv

LEMMA MemberNext ==
    ASSUME ChatInv, ReadMember
    PROVE  ChatInv'
<1> USE DEF upstreamVars, captureVars, clientVars
<1>1. /\ pc = "event" /\ pc' = pc /\ next' = next /\ out' = out /\ stopped' = stopped
      /\ eof' = eof /\ said' = said /\ capture' = capture /\ record' = record
      /\ client' = client /\ gone' = gone
  BY DEF ReadMember, Read, ReadThinking, ReadSignature, ReadContent, ReadRefusal,
         ReadToolCall, ReadFunctionCall, ReadAttachment
<1>2. /\ Live(client, conv, sent) /\ sent \in Logs
      /\ client.stage \in {"before", "message"} /\ ~client.tooled
  BY <1>1 DEF ChatInv, FlowInv, TypeInv
<1>3. \A kind \in {"thinking", "text", "tool"} : Append(sent, kind) \in Logs
  BY <1>2, LogMore
<1>4. sent' \in Logs /\ Live(client, conv', sent')
  <2>1. CASE ReadThinking
    <3>1. sent' = Append(sent, "thinking") /\ conv' = OnThinking(conv, Len(sent) + 1)
      BY <2>1 DEF ReadThinking, Send, NextPiece
    <3> QED BY <1>2, <1>3, <3>1, OutputLive
  <2>2. CASE ReadSignature
    <3>1. PICK signature \in Signatures \ {"none"} : conv' = OnSignature(conv, signature)
      BY <2>2 DEF ReadSignature
    <3>2. sent' = sent
      BY <2>2 DEF ReadSignature
    <3>3. signature \in Signatures
      OBVIOUS
    <3>4. Live(client, OnSignature(conv, signature), sent)
      BY <1>2, <3>3, SignatureLive
    <3> QED BY <1>2, <3>1, <3>2, <3>4
  <2>3. CASE ReadContent \/ ReadAttachment
    <3>1. sent' = Append(sent, "text") /\ conv' = OnText(conv, Len(sent) + 1)
      BY <2>3 DEF ReadContent, ReadAttachment, Send, NextPiece
    <3> QED BY <1>2, <1>3, <3>1, OutputLive
  <2>4. CASE ReadRefusal
    <3>1. sent' = Append(sent, "text") /\ conv' = OnRefusal(conv, Len(sent) + 1)
      BY <2>4 DEF ReadRefusal, Send, NextPiece
    <3> QED BY <1>2, <1>3, <3>1, OutputLive
  <2>5. CASE ReadToolCall
    <3>1. PICK i \in Indices, fragment \in Fragments :
              SendCall(i) /\ conv' = OnToolCall(conv, i, fragment, Len(sent) + 1)
      BY <2>5 DEF ReadToolCall, NextPiece
    <3>2. \/ i \in Calls(conv) /\ sent' = sent
          \/ i \notin Calls(conv) /\ sent' = Append(sent, "tool")
      BY <3>1 DEF SendCall, Send
    <3>3. sent' \in Logs
      BY <1>2, <1>3, <3>2
    <3>4. Live(client, OnToolCall(conv, i, fragment, Len(sent) + 1), sent')
      BY <1>2, <3>2, <3>3, ToolCallLive
    <3> QED BY <3>1, <3>3, <3>4
  <2>6. CASE ReadFunctionCall
    <3>1. PICK fragment \in Fragments :
              SendCall(0) /\ conv' = OnFunctionCall(conv, fragment, Len(sent) + 1)
      BY <2>6 DEF ReadFunctionCall, NextPiece
    <3>2. \/ 0 \in Calls(conv) /\ sent' = sent
          \/ 0 \notin Calls(conv) /\ sent' = Append(sent, "tool")
      BY <3>1 DEF SendCall, Send
    <3>3. sent' \in Logs
      BY <1>2, <1>3, <3>2
    <3>4. Live(client, OnFunctionCall(conv, fragment, Len(sent) + 1), sent')
      BY <1>2, <3>2, <3>3, FunctionCallLive
    <3> QED BY <3>1, <3>3, <3>4
  <2> QED BY <2>1, <2>2, <2>3, <2>4, <2>5, <2>6 DEF ReadMember
<1>5. TypeInv'
  <2>1. conv' \in Converters
    BY <1>4, HoldsType DEF Live
  <2> QED BY <1>1, <1>4, <2>1 DEF ChatInv, TypeInv
<1>6. FlowInv'
  <2>1. Live(client', conv', sent')
    BY <1>1, <1>4
  <2> QED BY <1>1, <1>2, <2>1 DEF ChatInv, FlowInv, Reading, Yielding
<1>7. SeenInv'
  BY <1>1, <1>2 DEF ChatInv, SeenInv, CutOffFails
<1>8. TruthInv'
  <2>1. conv'.reason = ""
    BY <1>4 DEF Live
  <2> QED BY <1>1, <2>1 DEF ChatInv, TruthInv, CaptureTruth, NeverSilent, Yielding
<1> QED BY <1>5, <1>6, <1>7, <1>8 DEF ChatInv

LEMMA EventEndsNext ==
    ASSUME ChatInv, EventEnds
    PROVE  ChatInv'
<1> USE DEF upstreamVars, captureVars, clientVars
<1>1. /\ pc = "event" /\ pc' = "yield" /\ stopped' = stopped /\ sent' = sent /\ eof' = eof
      /\ capture' = capture /\ record' = record /\ client' = client /\ gone' = gone
  BY DEF EventEnds, Yield, YieldErrorAndReturn
<1>2. /\ Live(client, conv, sent) /\ sent \in Logs /\ next \in {"chunk", "finish"}
      /\ client.stage \in {"before", "message"} /\ ~client.tooled
  BY <1>1 DEF ChatInv, FlowInv, TypeInv
<1>3. CASE ~conv.failed
  <2>1. PICK reason \in {"", "stop", "tool_calls", "content_filter", "other"} :
            /\ conv' = [conv EXCEPT !.reason = reason, !.frames = <<>>]
            /\ said' = said \cup (IF reason = "" THEN {} ELSE {"reason"})
    BY <1>3 DEF EventEnds
  <2>2. out' = conv.frames /\ next' = next
    BY <1>3 DEF EventEnds, Yield
  <2>3. reason \in FinishReasons
    BY DEF FinishReasons
  <2>4. \E d : Reaches(client, conv.frames, d, conv.omit) /\ Holds(d, conv', sent)
    BY <1>2, <2>1, <2>3, EventOver
  <2>5. conv \in Converters
    BY <1>2, HoldsType DEF Live
  <2>6. conv' \in Converters /\ conv'.frames = <<>> /\ ~conv'.failed /\ conv'.omit = conv.omit
        /\ conv'.reason = reason
    <3>1. <<>> \in Seq(Frames)
      BY EmptySeq
    <3> QED BY <1>3, <2>1, <2>3, <2>5, <3>1 DEF Converters
  <2>7. Continuing'
    BY <1>1, <2>2, <2>4, <2>6 DEF Continuing
  <2>8. TypeInv'
    <3>1. out' \in Seq(Frames)
      BY <2>2, <2>5 DEF Converters
    <3> QED BY <1>1, <2>6, <3>1 DEF ChatInv, TypeInv, Yielding
  <2>9. FlowInv'
    BY <1>1, <1>2, <2>2, <2>7 DEF FlowInv, Reading, Yielding
  <2>10. SeenInv'
    BY <1>1, <1>2 DEF ChatInv, SeenInv, CutOffFails
  <2>11. TruthInv'
    <3>1. conv'.reason # "" => said' # {}
      BY <2>1, <2>6
    <3> QED BY <1>1, <1>2, <2>1, <2>2, <3>1
            DEF ChatInv, TruthInv, CaptureTruth, NeverSilent, Yielding
  <2> QED BY <2>8, <2>9, <2>10, <2>11 DEF ChatInv
<1>4. CASE conv.failed
  <2>1. YieldErrorAndReturn /\ said' = said
    BY <1>4 DEF EventEnds
  <2>2. eof' \in BOOLEAN /\ stopped' \in BOOLEAN
        /\ capture' \in [protocol : BOOLEAN, readError : BOOLEAN]
    BY <1>1 DEF ChatInv, TypeInv
  <2>3. TypeInv' /\ FlowInv' /\ SeenInv'
    BY <1>1, <2>1, <2>2, FailingNext
  <2>4. TruthInv'
    <3>1. conv'.reason = "" /\ next' = "closed"
      <4>1. conv.omit \in BOOLEAN
        BY DEF ChatInv, TypeInv, Converters
      <4> QED BY <2>1, <4>1, FreshHolds DEF YieldErrorAndReturn, Yield, Discard
    <3> QED BY <1>1, <2>1, <3>1 DEF ChatInv, TruthInv, CaptureTruth, NeverSilent, Yielding
  <2> QED BY <2>3, <2>4 DEF ChatInv
<1> QED BY <1>3, <1>4

LEMMA FinishNext ==
    ASSUME ChatInv, MarkAndFinish
    PROVE  ChatInv'
<1> USE DEF upstreamVars, captureVars, clientVars
<1> DEFINE t == Finish(conv, stopped)
<1>1. /\ pc = "finish" /\ pc' = "yield" /\ next' = "end" /\ conv' = Fresh(conv.omit)
      /\ out' = IF t.failed THEN <<ErrorFrame>> ELSE t.frames
      /\ capture' = [capture EXCEPT !.protocol = stopped]
      /\ stopped' = stopped /\ sent' = sent /\ eof' = eof /\ said' = said
      /\ record' = record /\ client' = client /\ gone' = gone
  BY DEF MarkAndFinish, Yield, Discard
<1>2. /\ Holds(client, conv, sent) /\ conv.frames = <<>> /\ ~conv.failed
      /\ stopped \in BOOLEAN /\ sent \in Logs /\ Len(sent) \in Nat
  BY <1>1 DEF ChatInv, FlowInv, TypeInv, Reading, Logs
<1>3. /\ capture' \in [protocol : BOOLEAN, readError : BOOLEAN]
      /\ capture'.protocol = stopped /\ capture'.readError = capture.readError
  BY <1>1, <1>2 DEF ChatInv, TypeInv
<1>4. conv' \in Converters /\ conv'.omit = conv.omit /\ conv'.reason = ""
  <2>1. conv.omit \in BOOLEAN
    BY DEF ChatInv, TypeInv, Converters
  <2> QED BY <1>1, <2>1, FreshHolds
<1>5. TypeInv' /\ FlowInv' /\ SeenInv'
  <2>1. CASE t.failed
    <3>1. Yield(<<ErrorFrame>>, "end") /\ Discard
      BY <1>1, <2>1 DEF Yield, Discard
    <3>2. eof' \in BOOLEAN /\ stopped' \in BOOLEAN /\ pc \in Reading \cup {"event"}
      BY <1>1 DEF ChatInv, TypeInv, Reading
    <3> QED BY <1>1, <1>3, <3>1, <3>2, FailingNext
  <2>2. CASE ~t.failed
    <3>1. PICK m : Sound(client, conv, client, m, sent) /\ Spans(conv, m, Len(sent), sent)
      BY <1>2, HoldsQuiet
    <3>2. client \in Clients /\ Ascending(client.got) /\ client.stage \in {"before", "message"}
      BY <1>2, HoldsQuiet
    <3>3. /\ conv.reason # "" \/ stopped
          /\ t.frames \in Seq(Frames)
          /\ \E e : /\ Reaches(client, t.frames, e, conv.omit) /\ e.stage = "stopped"
                    /\ Orderly(e.got, Len(sent), sent, conv.omit /\ e.foreign)
      BY <1>2, <2>2, <3>1, FinishSound
    <3>4. said # {}
      BY <3>3 DEF ChatInv, TruthInv
    <3> HIDE DEF t
    <3>5. out' = t.frames
      BY <1>1, <2>2
    <3>6. Finishing'
      BY <1>1, <1>4, <3>3, <3>4, <3>5 DEF Finishing
    <3>7. TypeInv'
      BY <1>1, <1>3, <1>4, <3>3, <3>5 DEF ChatInv, TypeInv, Yielding
    <3>8. FlowInv'
      BY <1>1, <3>6 DEF FlowInv, Reading, Yielding
    <3>9. SeenInv'
      BY <1>1, <3>2 DEF SeenInv, CutOffFails
    <3> QED BY <3>7, <3>8, <3>9
  <2> QED BY <2>1, <2>2
<1>6. TruthInv'
  <2>1. stopped \/ eof
    BY <1>1 DEF ChatInv, TruthInv
  <2>2. ~capture.readError
    BY <1>1 DEF ChatInv, TruthInv, Yielding
  <2>3. CaptureTruth' /\ NeverSilent'
    BY <1>1 DEF CaptureTruth, NeverSilent
  <2>4. stopped <=> "done" \in said
    BY DEF ChatInv, TruthInv
  <2> QED BY <1>1, <1>3, <1>4, <2>1, <2>2, <2>3, <2>4 DEF TruthInv
<1> QED BY <1>5, <1>6 DEF ChatInv

LEMMA EndNext ==
    ASSUME ChatInv, End
    PROVE  ChatInv'
<1>1. /\ pc = "end" /\ Close(~stopped)
      /\ sent' = sent /\ client' = client /\ said' = said /\ eof' = eof
      /\ stopped' = stopped /\ capture' = capture
  BY DEF End, ShouldMarkComplete, upstreamVars, clientVars
<1>2. /\ ~stopped => eof
      /\ capture.protocol <=> stopped
      /\ ~capture.readError
      /\ client.stage \in {"stopped", "failed"}
  BY <1>1 DEF ChatInv, FlowInv, TruthInv, Yielding
<1>3. TypeInv' /\ FlowInv' /\ SeenInv'
  BY <1>1, ClosedNext
<1>4. (~stopped) \in BOOLEAN
  OBVIOUS
<1>5. TruthInv'
  BY <1>1, <1>2, <1>4, ClosedTruth
<1> QED BY <1>3, <1>5 DEF ChatInv

\* A read error leaves nothing for the client but the error frame.
LEMMA BrokenFails ==
    ASSUME ChatInv, capture.readError, pc # "closed"
    PROVE  Failing
<1>1. pc \in Yielding /\ next = "closed"
  BY DEF ChatInv, TruthInv
<1> QED BY <1>1 DEF ChatInv, FlowInv

LEMMA ClientGoneNext ==
    ASSUME ChatInv, ClientGone
    PROVE  ChatInv'
<1>1. /\ pc \in {"await", "suspended"} /\ Close(FALSE) /\ gone'
      /\ sent' = sent /\ client' = client /\ said' = said /\ eof' = eof
      /\ stopped' = stopped /\ capture' = capture
  BY DEF ClientGone, upstreamVars
<1>2. capture.readError => client.stage \notin {"stopped", "ending"}
  BY <1>1, BrokenFails DEF Failing
<1>3. TypeInv' /\ FlowInv' /\ SeenInv'
  BY <1>1, ClosedNext
<1>4. TruthInv'
  BY <1>1, <1>2, ClosedTruth
<1> QED BY <1>3, <1>4 DEF ChatInv

LEMMA ResumeNext ==
    ASSUME ChatInv, Resume
    PROVE  ChatInv'
<1>1. /\ pc \in Yielding /\ out = <<>>
      /\ sent' = sent /\ client' = client /\ said' = said /\ eof' = eof
      /\ stopped' = stopped /\ capture' = capture /\ gone' = gone
  BY DEF Resume, Yielding, upstreamVars, clientVars
<1>2. CASE next = "closed"
  <2>1. Close(FALSE)
    BY <1>2 DEF Resume
  <2>2. client.stage = "failed"
    BY <1>1, <1>2 DEF ChatInv, FlowInv, Failing
  <2>3. TypeInv' /\ FlowInv' /\ SeenInv'
    BY <1>1, <2>1, ClosedNext
  <2>4. TruthInv'
    BY <1>1, <2>1, <2>2, ClosedTruth
  <2> QED BY <2>3, <2>4 DEF ChatInv
<1>3. CASE next # "closed"
  <2>1. /\ pc' = next /\ next' = "await" /\ conv' = conv /\ out' = out /\ record' = record
    BY <1>3 DEF Resume
  <2>2. /\ next \in {"chunk", "finish", "end"}
        /\ next \in {"chunk", "finish"} =>
               conv.frames = <<>> /\ ~conv.failed /\ Holds(client, conv, sent)
        /\ next = "end" => client.stage \in {"stopped", "failed"}
    <3>1. CASE next \in {"chunk", "finish"} /\ Continuing
      <4>1. PICK d : Reaches(client, <<>>, d, conv.omit) /\ Holds(d, conv, sent)
        BY <1>1, <3>1 DEF Continuing
      <4>2. d = client
        BY <4>1, ReachEmpty
      <4> QED BY <3>1, <4>1, <4>2 DEF Continuing
    <3>2. CASE next = "end" /\ Failing
      BY <1>1, <3>2 DEF Failing
    <3>3. CASE next = "end" /\ Finishing
      <4>1. PICK d : Reaches(client, <<>>, d, conv.omit) /\ d.stage = "stopped"
        BY <1>1, <3>3 DEF Finishing
      <4>2. d = client
        BY <4>1, ReachEmpty
      <4> QED BY <3>3, <4>1, <4>2
    <3> QED BY <1>1, <1>3, <3>1, <3>2, <3>3 DEF ChatInv, FlowInv
  <2>3. TypeInv'
    BY <1>1, <2>1, <2>2 DEF ChatInv, TypeInv, Reading
  <2>4. FlowInv'
    BY <1>1, <2>1, <2>2 DEF FlowInv, Reading, Yielding
  <2>5. SeenInv'
    BY <1>1, <2>1 DEF ChatInv, SeenInv, CutOffFails
  <2>6. TruthInv'
    <3>1. ~capture.readError
      BY <1>1, <1>3 DEF ChatInv, TruthInv, Yielding
    <3>2. CaptureTruth' /\ NeverSilent'
      BY <2>1, <2>2 DEF CaptureTruth, NeverSilent
    <3>3. /\ stopped <=> "done" \in said
          /\ capture.protocol => stopped
          /\ next = "end" => (capture.protocol <=> stopped)
          /\ next = "finish" => eof
          /\ next = "end" => stopped \/ eof
          /\ conv.reason # "" => said # {}
      BY <1>1 DEF ChatInv, TruthInv
    <3> QED BY <1>1, <2>1, <2>2, <3>1, <3>2, <3>3 DEF TruthInv
  <2> QED BY <2>3, <2>4, <2>5, <2>6 DEF ChatInv
<1> QED BY <1>2, <1>3

\* What a client has got on the way to one whose output is in order.
LEMMA SeenAscending ==
    ASSUME NEW c \in Clients, NEW d, NEW frames \in Seq(Frames), NEW omitted,
           Reaches(c, frames, d, omitted), Ascending(d.got)
    PROVE  Ascending(c.got)
<1>1. Extends(c.got, d.got) /\ d \in Clients
  BY ReachExtends
<1>2. Len(c.got) \in Nat /\ Len(d.got) \in Nat
  BY <1>1 DEF Clients
<1> QED BY <1>1, <1>2, AscendingPrefix

LEMMA ReceiveNext ==
    ASSUME ChatInv, Receive
    PROVE  ChatInv'
<1> USE DEF upstreamVars, captureVars, clientVars
<1>1. /\ pc \in Yielding /\ pc' = "suspended" /\ out # <<>>
      /\ client' = Shown(client, Head(out), conv.omit) /\ out' = Tail(out)
      /\ next' = next /\ conv' = conv /\ stopped' = stopped /\ sent' = sent /\ eof' = eof
      /\ said' = said /\ capture' = capture /\ record' = record /\ gone' = gone
  BY DEF Receive, Yielding
<1>2. /\ client \in Clients /\ out \in Seq(Frames) /\ conv \in Converters
      /\ conv.omit \in BOOLEAN
  BY DEF ChatInv, TypeInv, Converters
<1>3. out' \in Seq(Frames)
  BY <1>1, <1>2, HeadTailProperties
<1>4. ASSUME NEW d, Reaches(client, out, d, conv.omit), Ascending(d.got)
      PROVE  /\ client' \in Clients /\ Reaches(client', out', d, conv.omit)
             /\ Ascending(client'.got)
  <2>1. client' \in Clients /\ Reaches(client', out', d, conv.omit)
    BY <1>1, <1>2, <1>4, ReachTake
  <2> QED BY <1>2, <1>3, <1>4, <2>1, SeenAscending
<1>5. client' \in Clients /\ FlowInv' /\ SeenInv'
  <2>1. CASE next \in {"chunk", "finish"} /\ Continuing
    <3>1. PICK d : Reaches(client, out, d, conv.omit) /\ Holds(d, conv, sent)
      BY <2>1 DEF Continuing
    <3>2. Ascending(d.got) /\ d.stage \in {"before", "message"}
      BY <2>1, <3>1, HoldsQuiet DEF Continuing
    <3>3. /\ client' \in Clients /\ Reaches(client', out', d, conv.omit)
          /\ Ascending(client'.got)
      BY <1>4, <3>1, <3>2
    <3>4. client'.stage \notin {"ending", "stopped"}
      BY <1>2, <1>3, <3>2, <3>3, ReachStage
    <3>5. Continuing'
      BY <1>1, <2>1, <3>1, <3>3 DEF Continuing
    <3> QED BY <1>1, <2>1, <3>3, <3>4, <3>5
            DEF FlowInv, SeenInv, CutOffFails, Reading, Yielding
  <2>2. CASE next \in {"closed", "end"} /\ Failing
    <3>1. out = <<ErrorFrame>>
      BY <1>1, <2>2 DEF Failing
    <3>2. Head(out) = ErrorFrame /\ Tail(out) = <<>>
      BY <3>1
    <3>3. client' = [client EXCEPT !.stage = "failed"]
      BY <1>1, <3>2 DEF Shown, Fits, After, ErrorFrame, Frame
    <3>4. client' \in Clients /\ client'.stage = "failed" /\ client'.got = client.got
      BY <1>2, <3>3 DEF Clients, Stages
    <3>5. Failing'
      BY <1>1, <3>2, <3>4 DEF Failing
    <3>6. Ascending(client.got)
      BY DEF ChatInv, SeenInv
    <3> QED BY <1>1, <2>2, <3>4, <3>5, <3>6
            DEF FlowInv, SeenInv, CutOffFails, Reading, Yielding
  <2>3. CASE next = "end" /\ Finishing
    <3>1. PICK d : /\ Reaches(client, out, d, conv.omit) /\ d.stage = "stopped"
                   /\ Orderly(d.got, Len(sent), sent, conv.omit /\ d.foreign)
      BY <2>3 DEF Finishing
    <3>2. Ascending(d.got)
      BY <3>1 DEF Orderly, Ascending
    <3>3. /\ client' \in Clients /\ Reaches(client', out', d, conv.omit)
          /\ Ascending(client'.got)
      BY <1>4, <3>1, <3>2
    <3>4. client'.stage = "stopped" => d = client'
      BY <1>2, <1>3, <3>3, ReachEnded
    <3>5. Finishing' /\ said' # {}
      BY <1>1, <2>3, <3>1, <3>3 DEF Finishing
    <3>6. client'.stage = "stopped" =>
              Orderly(client'.got, Len(sent'), sent', conv'.omit /\ client'.foreign)
      BY <1>1, <3>1, <3>4
    <3> QED BY <1>1, <2>3, <3>3, <3>5, <3>6
            DEF FlowInv, SeenInv, CutOffFails, Reading, Yielding
  <2> QED BY <1>1, <2>1, <2>2, <2>3 DEF ChatInv, FlowInv
<1>6. TypeInv'
  BY <1>1, <1>3, <1>5 DEF ChatInv, TypeInv, Yielding
<1>7. TruthInv'
  <2>1. CaptureTruth' /\ NeverSilent'
    BY <1>1 DEF CaptureTruth, NeverSilent
  <2> QED BY <1>1, <2>1 DEF ChatInv, TruthInv, Yielding
<1> QED BY <1>5, <1>6, <1>7 DEF ChatInv

LEMMA ChatNext ==
    ASSUME ChatInv, [Next]_vars
    PROVE  ChatInv'
<1>1. CASE Chunk \/ Eof \/ ChunkEnds \/ Done
  BY <1>1, ReadingNext
<1>2. CASE Undecodable \/ ReadError \/ BadEvent
  BY <1>2, ErrorNext
<1>3. CASE Event
  BY <1>3, EventNext
<1>4. CASE ReadMember
  BY <1>4, MemberNext
<1>5. CASE EventEnds
  BY <1>5, EventEndsNext
<1>6. CASE MarkAndFinish
  BY <1>6, FinishNext
<1>7. CASE End
  BY <1>7, EndNext
<1>8. CASE Receive
  BY <1>8, ReceiveNext
<1>9. CASE Resume
  BY <1>9, ResumeNext
<1>10. CASE ClientGone
  BY <1>10, ClientGoneNext
<1>11. CASE UNCHANGED vars
  <2>1. TypeInv' /\ SeenInv' /\ TruthInv'
    BY <1>11 DEF vars, ChatInv, TypeInv, SeenInv, TruthInv, CutOffFails, CaptureTruth,
                 NeverSilent
  <2>2. FlowInv'
    BY <1>11 DEF vars, ChatInv, FlowInv, Continuing, Failing, Finishing
  <2> QED BY <2>1, <2>2 DEF ChatInv
<1> QED BY <1>1, <1>2, <1>3, <1>4, <1>5, <1>6, <1>7, <1>8, <1>9, <1>10, <1>11 DEF Next

-----------------------------------------------------------------------------
(* The theorems.                                                            *)

\* In every state of every run the frames on their way lead the client from
\* what it has seen to a message that agrees with the converter, or to its
\* end, or to one error; and the pieces the upstream sent are told, waiting
\* for a signature or deferred, each once and in their order.
THEOREM ChatInvariant == Spec => []ChatInv
<1>1. Init => ChatInv
  BY ChatInit
<1>2. ChatInv /\ [Next]_vars => ChatInv'
  BY ChatNext
<1> QED BY <1>1, <1>2, PTL DEF Spec

\* The client gets the pieces of output in the order in which the upstream
\* sent them, each once, and a message that stops has delivered all of them,
\* but for reasoning that a foreign router signature stands for.
THEOREM OutputIsFaithful == Spec => []Fidelity
<1>1. ChatInv => Fidelity
  <2>1. SeenInv => Fidelity
    BY DEF SeenInv, Fidelity, Ascending, Orderly
  <2> QED BY <2>1 DEF ChatInv
<1> QED BY <1>1, ChatInvariant, PTL

\* Whichever way the generator is left, a client that stays is told how the
\* message ended, gets a stop reason only if the upstream gave a terminal, and
\* the audit record says what CaptureTruth lists: of a message delivered whole
\* whether [DONE] was recognised, and not whether the body was read to EOF.
THEOREM EndsAreTold == Spec => []EndsTruthfully
<1>1. ChatInv => EndsTruthfully
  BY DEF ChatInv, SeenInv, TruthInv, EndsTruthfully
<1> QED BY <1>1, ChatInvariant, PTL

LEMMA ErrorIsNoTool == ~(\E i \in 1..Len(<<ErrorFrame>>) : <<ErrorFrame>>[i].kind = "tool")
<1>1. Len(<<ErrorFrame>>) = 1 /\ <<ErrorFrame>>[1] = ErrorFrame
  OBVIOUS
<1>2. ErrorFrame.kind # "tool"
  BY DEF ErrorFrame, Frame
<1>3. \A i \in 1..1 : i = 1
  OBVIOUS
<1> QED BY <1>1, <1>2, <1>3

LEMMA ToolStep ==
    ASSUME ChatInv, Next, pc' = "yield", \E i \in 1..Len(out') : out'[i].kind = "tool"
    PROVE  /\ conv.reason = "tool_calls" /\ ~conv.refused
           /\ \A i \in Calls(conv) :
                  /\ conv.tools[i].id # "" /\ conv.tools[i].named
                  /\ conv.tools[i].args \in {"", "{}"}
<1>1. ~YieldErrorAndReturn
  BY ErrorIsNoTool DEF YieldErrorAndReturn, Yield
<1>2. ~(Chunk \/ Eof \/ ChunkEnds \/ Done \/ Event \/ ReadMember \/ Receive)
  BY DEF Chunk, Eof, ChunkEnds, Done, Event, ReadMember, Read, ReadThinking, ReadSignature,
         ReadContent, ReadRefusal, ReadToolCall, ReadFunctionCall, ReadAttachment, Receive
<1>3. ~(Undecodable \/ ReadError \/ BadEvent)
  BY <1>1 DEF Undecodable, ReadError, BadEvent
<1>4. ~(End \/ ClientGone)
  BY DEF End, ClientGone, Close
<1>5. ~Resume
  <2>1. pc \in Yielding /\ out = <<>> => next \in {"chunk", "finish", "closed", "end"}
    BY DEF ChatInv, FlowInv
  <2> QED BY <2>1 DEF Resume, Close, Yielding
<1>6. ~EventEnds
  <2> SUFFICES ASSUME EventEnds PROVE FALSE
    OBVIOUS
  <2>1. pc = "event" /\ out' = conv.frames
    BY <1>1 DEF EventEnds, Yield
  <2>2. Live(client, conv, sent)
    BY <2>1 DEF ChatInv, FlowInv
  <2>3. ToolFrames(conv) /\ conv.reason = ""
    BY <2>2 DEF Live, Holds, Sound, Linked
  <2> QED BY <2>1, <2>3 DEF ToolFrames, CompleteTools
<1>7. MarkAndFinish
  BY <1>2, <1>3, <1>4, <1>5, <1>6 DEF Next
<1> DEFINE t == Finish(conv, stopped)
<1>8. pc = "finish" /\ out' = (IF t.failed THEN <<ErrorFrame>> ELSE t.frames)
  BY <1>7 DEF MarkAndFinish, Yield
<1>9. /\ Holds(client, conv, sent) /\ conv.frames = <<>> /\ ~conv.failed
      /\ stopped \in BOOLEAN /\ Len(sent) \in Nat /\ conv \in Converters
  BY <1>8 DEF ChatInv, FlowInv, TypeInv, Reading, Logs
<1>10. ~t.failed /\ out' = t.frames
  BY <1>8, ErrorIsNoTool
<1>11. CompleteTools(conv, conv.reason) /\ \A i \in Calls(conv) : ~Unusable(conv.tools[i])
  <2>1. PICK m : Sound(client, conv, client, m, sent) /\ Spans(conv, m, Len(sent), sent)
    BY <1>9, HoldsQuiet
  <2>2. (\E i \in 1..Len(t.frames) : t.frames[i].kind = "tool") =>
            /\ CompleteTools(conv, conv.reason)
            /\ \A i \in Calls(conv) : ~Unusable(conv.tools[i])
    BY <1>9, <1>10, <2>1, FinishSound
  <2> HIDE DEF t
  <2> QED BY <1>10, <2>2
<1>12. \A i \in Calls(conv) : conv.tools[i] \in Tools
  BY <1>9 DEF Calls, Converters
<1> QED BY <1>11, <1>12 DEF CompleteTools, IsRefusal, Unusable, Tools

\* A client is handed tool calls to execute only when the upstream finished
\* them, nothing was refused, and each has an id, a name and arguments.
THEOREM ToolsAreWhole == Spec => ToolsExecutable
<1> DEFINE A == (\E i \in 1..Len(out') : out'[i].kind = "tool") /\ pc' = "yield" =>
                    /\ conv.reason = "tool_calls" /\ ~conv.refused
                    /\ \A i \in Calls(conv) :
                           /\ conv.tools[i].id # "" /\ conv.tools[i].named
                           /\ conv.tools[i].args \in {"", "{}"}
<1>1. ChatInv /\ [Next]_vars => [A]_vars
  BY ToolStep
<1>2. [][A]_vars => ToolsExecutable
  BY DEF ToolsExecutable
<1> HIDE DEF A
<1>3. Spec => [][A]_vars
  BY <1>1, ChatInvariant, PTL DEF Spec
<1> QED BY <1>2, <1>3

LEMMA ReceiveAllowed ==
    ASSUME ChatInv, Receive
    PROVE  /\ client \in Clients /\ Head(out) \in Frames /\ Allowed(client, Head(out))
           /\ client' = After(client, Head(out), conv.omit)
<1>1. /\ pc \in Yielding /\ out # <<>> /\ client' = Shown(client, Head(out), conv.omit)
  BY DEF Receive, Yielding
<1>2. /\ client \in Clients /\ out \in Seq(Frames) /\ conv.omit \in BOOLEAN
  BY DEF ChatInv, TypeInv, Converters
<1>3. Head(out) \in Frames
  BY <1>1, <1>2
<1>4. ASSUME NEW d, Reaches(client, out, d, conv.omit)
      PROVE  Allowed(client, Head(out))
  BY <1>1, <1>2, <1>4, ReachTake
<1>5. Allowed(client, Head(out))
  <2>1. CASE Failing
    <3>1. out = <<ErrorFrame>> /\ client.stage \in {"before", "message"} /\ ~client.tooled
      BY <1>1, <2>1 DEF Failing
    <3>2. Head(out) = ErrorFrame /\ ErrorFrame.type = "error"
      BY <3>1 DEF ErrorFrame, Frame
    <3> QED BY <3>1, <3>2 DEF Allowed
  <2>2. CASE Continuing \/ Finishing
    BY <1>4, <2>2 DEF Continuing, Finishing
  <2> QED BY <1>1, <2>1, <2>2 DEF ChatInv, FlowInv
<1>6. client' = After(client, Head(out), conv.omit)
  BY <1>1, <1>2, <1>3, <1>5, AfterAllowed
<1> QED BY <1>2, <1>3, <1>5, <1>6

\* What the protocol allows to come next is a step of it.
LEMMA AllowedIsWire ==
    ASSUME client \in Clients, NEW f \in Frames, Allowed(client, f), NEW omitted,
           client' = After(client, f, omitted)
    PROVE  [Wire!WireNext]_(Wire!wireVars)
<1> USE DEF Allowed, After, Clients
<1>1. CASE f.type = "message_start"
  BY <1>1 DEF Wire!WireNext, Wire!MessageStart
<1>2. CASE f.type = "start"
  <2>1. Wire!BlockStart(f.kind) /\ f.kind \in {"text", "thinking", "tool"}
    BY <1>2 DEF Wire!BlockStart, Kinds
  <2> QED BY <2>1 DEF Wire!WireNext
<1>3. CASE f.type = "delta"
  BY <1>3 DEF Wire!wireVars
<1>4. CASE f.type = "signature"
  BY <1>4 DEF Wire!WireNext, Wire!Sign
<1>5. CASE f.type = "stop"
  BY <1>5 DEF Wire!WireNext, Wire!BlockStop
<1>6. CASE f.type = "message_delta"
  <2>1. Wire!MessageDelta(f.kind) /\ f.kind \in Wire!StopReasons
    BY <1>6 DEF Wire!MessageDelta, Wire!StopReasons, Reasons
  <2> QED BY <2>1 DEF Wire!WireNext
<1>7. CASE f.type = "message_stop"
  BY <1>7 DEF Wire!WireNext, Wire!MessageStop
<1>8. CASE f.type = "error"
  BY <1>8 DEF Wire!WireNext, Wire!Error
<1> QED BY <1>1, <1>2, <1>3, <1>4, <1>5, <1>6, <1>7, <1>8 DEF Frames

\* Only a frame that arrives changes what the client has seen.
LEMMA ClientWaits ==
    ASSUME [Next]_vars, ~Receive
    PROVE  client' = client
  BY DEF Next, vars, clientVars, Chunk, Undecodable, ReadError, Eof, ChunkEnds, Done, BadEvent,
         Event, ReadMember, EventEnds, MarkAndFinish, End, Resume, ClientGone

\* What a client sees of any upstream stream, however it is cut up, ends or
\* breaks, is a prefix of a well-formed Anthropic message.
THEOREM StreamIsWire == Spec => ImplementsWire
<1>1. Init => Wire!WireInit
  BY DEF Init, NewClient, Wire!WireInit
<1>2. ChatInv /\ [Next]_vars => [Wire!WireNext]_(Wire!wireVars)
  <2> SUFFICES ASSUME ChatInv, [Next]_vars PROVE [Wire!WireNext]_(Wire!wireVars)
    OBVIOUS
  <2>1. CASE Receive
    BY <2>1, ReceiveAllowed, AllowedIsWire
  <2>2. CASE ~Receive
    BY <2>2, ClientWaits DEF Wire!wireVars
  <2> QED BY <2>1, <2>2
<1> QED BY <1>1, <1>2, ChatInvariant, PTL DEF Spec, ImplementsWire, Wire!WireSpec
=============================================================================
