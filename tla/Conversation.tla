----------------------------- MODULE Conversation -----------------------------
(***************************************************************************)
(* A client that talks to models through the router.  The router keeps     *)
(* nothing between two requests: the client sends its history every time,  *)
(* the answers of the router among it, and may ask a Chat Completions      *)
(* upstream for one turn and a Responses upstream for the next.  What a    *)
(* model reads is what the two conversions make of that history.           *)
(*                                                                         *)
(* The client adds blocks to its turn, asks, and stores the blocks of the  *)
(* answer as they come, so that every prefix of an answer is an answer.    *)
(***************************************************************************)
EXTENDS ChatRequest, ResponsesRequest, RequestControls

CONSTANTS Tools,      \* the tools of every request
          Asks,       \* what else a request says, and the headers with it
          Results,    \* what tools return
          UserShows,  \* what a user shows beside it
          Notes,      \* what a system message says within a history
          Imports,    \* what answers of another vendor hold
          CallNames,  \* the ids of calls, in the order in which they are made
          Sessions    \* histories to go on with, and the bound: blocks added to them

VARIABLES
    history,  \* the client's messages; by: who wrote one, said: the items of an answer
    asked,    \* the question that is out or being answered, or NoQuestion
    sent,     \* the request the upstream got, or why there is none
    left      \* the blocks that the bound leaves

vars == <<history, asked, sent, left>>

NoQuestion == [by |-> "nobody", omit |-> FALSE]
Nothing == [status |-> "none"]

Turn(role, by) == [role |-> role, parts |-> <<>>, by |-> by, said |-> <<>>]

\* Payloads are named after the blocks of the history.
Fresh == <<Len(FlattenSeq([i \in DOMAIN history |-> history[i].parts])) + 1>>

Init ==
    /\ \E session \in Sessions : history = session.history /\ left = session.left
    /\ asked = NoQuestion
    /\ sent = Nothing

Now == Last(history)

\* A block goes into the turn of its role and author, or begins one.
Add(role, by, part, said) ==
    LET more == IF Now.role = role /\ Now.by = by THEN history
                ELSE Append(history, Turn(role, by))
    IN  /\ left > 0
        /\ left' = left - 1
        /\ history' = [more EXCEPT ![Len(more)].parts = Append(@, part),
                                   ![Len(more)].said  = @ \o said]

-----------------------------------------------------------------------------
(* The client.                                                              *)

\* The payloads of a block of the palette and of the blocks in it.
Filled(part) ==
    LET Named(p, piece) == [p EXCEPT !.piece = IF @ = <<>> THEN @ ELSE piece]
        Inner(p, piece) == [Named(p, piece) EXCEPT
                               !.inner = [k \in DOMAIN @ |-> Named(@[k], Append(piece, k))]]
    IN  [Named(part, Fresh) EXCEPT
            !.inner = [k \in DOMAIN @ |-> Inner(@[k], Append(Fresh, k))]]

\* A user turn, with what the user shows.
Say ==
    /\ asked = NoQuestion /\ Now.role # "system"
    /\ \E part \in UserShows : Add("user", "client", Filled(part), <<>>)
    /\ UNCHANGED <<asked, sent>>

CallsOf(message) == {p.id : p \in {q \in Parts(message) : q.type = "tool_use"}}
AnswersIn(message) == {p.id : p \in {q \in Parts(message) : q.type = "tool_result"}}

\* The calls the turn in progress has to answer.
Open ==
    LET n == IF Now.role = "user" THEN Len(history) - 1 ELSE Len(history)
    IN  IF n = 0 \/ history[n].role # "assistant" THEN {}
        ELSE CallsOf(history[n]) \ (IF Now.role = "user" THEN AnswersIn(Now) ELSE {})

\* ... and the result of a call.
Return ==
    /\ asked = NoQuestion
    /\ \E id \in Open, part \in Results :
           Add("user", "client", [Filled(part) EXCEPT !.id = id], <<>>)
    /\ UNCHANGED <<asked, sent>>

\* A system message behind the user turn: an instruction or a change of the
\* tools, as it is or wrapped.
Instruct ==
    /\ asked = NoQuestion /\ Open = {} /\ Now.role \in {"user", "system"}
    /\ \E part \in Notes : Add("system", "client", Filled(part), <<>>)
    /\ UNCHANGED <<asked, sent>>

\* An answer of another vendor, in a history that was begun elsewhere.
Import ==
    /\ asked = NoQuestion /\ Open = {}
    /\ \E part \in Imports : Add("assistant", "elsewhere", Filled(part), <<>>)
    /\ UNCHANGED <<asked, sent>>

-----------------------------------------------------------------------------
(* The router: forward() of rust/src/router.rs up to the call of the        *)
(* upstream.                                                                *)

RequestOf(messages, ask) ==
    [system |-> <<>>, container |-> FALSE, messages |-> messages, tools |-> Tools,
     choice |-> ask.choice, thinking |-> ask.thinking, effort |-> ask.effort,
     format |-> FALSE, limit |-> ask.limit, stream |-> ask.stream]

Outcome(by, ask) ==
    LET r == RequestOf(history, ask)
        u == apply_effort_controls(Transformed(r), ask.controls)
    IN  CASE ~Transforms(r)                        -> [status |-> "refused"]
          [] ~FinalAllowed(u)                      -> [status |-> "refused"]
          [] by = "responses" /\ ~Replayable(u)    -> [status |-> "refused"]
          [] by = "chat"                           -> [status |-> "chat", body |-> Chat(u)]
          [] OTHER                                 -> [status |-> "responses", body |-> Responses(u)]

Ask ==
    /\ asked = NoQuestion /\ Open = {} /\ Now.role # "assistant"
    /\ \E by \in {"chat", "responses"}, ask \in Asks :
           /\ sent' = Outcome(by, ask) @@ [ask |-> ask]
           /\ asked' = [by |-> by, omit |-> ask.thinking.display = "omitted"]
    /\ UNCHANGED <<history, left>>

-----------------------------------------------------------------------------
(* The upstream, and the router's conversion of what it says.               *)

Answering == asked # NoQuestion /\ sent.status # "refused"

Store(part, item) ==
    /\ Add("assistant", asked.by, part, <<item>>)
    /\ sent' = Nothing
    /\ UNCHANGED asked

\* The signature of a block of thinking: the router's own around what a
\* Responses upstream says, which has to seal it when it is asked to omit it,
\* and around what a Chat upstream leaves unsigned or is asked to omit.  What a
\* Chat upstream signs visible thinking with stands, be it empty, and so does
\* a signature that comes without any thinking.
Signatures ==
    CASE asked.by = "responses" -> {Signature("responses", Fresh, sealed) :
                                        sealed \in {TRUE, asked.omit}}
      [] asked.omit             -> {Signature("chat", Fresh, FALSE), Unsigned}
      [] OTHER                  -> {Signature("chat", Fresh, FALSE),
                                    Signature("foreign", <<>>, FALSE), Unsigned}

Reason ==
    /\ Answering
    /\ \E signature \in Signatures :
           Store([Part("thinking", IF asked.omit THEN <<>> ELSE Fresh) EXCEPT
                     !.signature = signature],
                 [Item("reasoning") EXCEPT !.item = Fresh, !.sealed = signature.sealed])

Reply ==
    /\ Answering
    /\ Store(Part("text", Fresh), MessageItem("assistant", <<Own(Part("text", Fresh))>>))

\* A block of a tool that a Chat upstream runs itself is passed on as it is.
Hosted ==
    /\ Answering /\ asked.by = "chat"
    /\ Store(Part("server_tool_use", Fresh),
             MessageItem("assistant", <<Own(Part("text", Fresh))>>))

CallsMade == UNION {CallsOf(m) : m \in ToSet(history)}

Call ==
    /\ Answering /\ Cardinality(CallsMade) < Len(CallNames)
    /\ \E t \in ToSet(Tools) :
           LET id == CallNames[Cardinality(CallsMade) + 1]
           IN  Store([Part("tool_use", Fresh) EXCEPT !.id = id, !.name = t.name],
                     [Item("function_call") EXCEPT !.id = id, !.name = t.name, !.piece = Fresh])

\* The answer is complete, or the request was refused.
Settle ==
    /\ asked # NoQuestion
    /\ sent.status = "refused" \/ Now.by = asked.by
    /\ asked' = NoQuestion
    /\ sent' = Nothing
    /\ UNCHANGED <<history, left>>

Next == Say \/ Return \/ Instruct \/ Import \/ Ask \/ Reason \/ Reply \/ Hosted \/ Call \/ Settle

Spec == Init /\ [][Next]_vars

-----------------------------------------------------------------------------
(* What a model reads.                                                      *)

ToChat == sent.status = "chat"
ToResponses == sent.status = "responses"

AllBlocks == UNION {Parts(m) : m \in ToSet(history)}

\* The blocks within a block, two levels down.
Within(p) == UNION {{q} \cup ToSet(q.inner) : q \in ToSet(p.inner)}

Cited(p) == \E q \in {p} \cup Within(p) : q.cited

\* Thinking that comes back with the empty signature its upstream gave it.
UnsignedThinking(p) == p.type = "thinking" /\ p.signature.by = "none"

\* No request can say this: state that only its own vendor reads, citations
\* at any depth, and a signature of this router that was damaged.  Citations
\* within an instruction that is wrapped are let pass and dropped, although
\* README.md:329 has cited texts refused.
NoCounterpart(p) ==
    \/ p.type \in Opaque \cup ServerHistory
    \/ p.type # "mid_conv_system" /\ Cited(p)
    \/ asked.by = "responses" /\ p.signature.by = "broken"

ChoosesNothing == Forced(sent.ask.choice) /\ ActiveNames(RequestOf(history, sent.ask)) = {}

(* A client that answers every call is refused for nothing but a cause in   *)
(* its history, whichever upstream wrote which turn, and if there is one it *)
(* is refused.  Two of the causes are blocks that the router itself has     *)
(* answered with: those of a Chat upstream's own tools, and thinking to     *)
(* which the upstream gave an empty signature, although README.md:327 says  *)
(* that the reasoning of a Chat upstream goes round.  (request.rs goes over *)
(* the history to validate it, to convert it and to find the tools; the     *)
(* signatures are read after that.)                                         *)
RefusedForCause ==
    sent # Nothing =>
        (sent.status = "refused" <=>
            \/ \E p \in AllBlocks : NoCounterpart(p) \/ UnsignedThinking(p)
            \/ ChoosesNothing)

\* The payloads a model may read in a block, of which those within others
\* are two levels down.
Container(p) ==
    \/ p.type \in {"tool_result", "search_result", "mid_conv_system"}
    \/ p.type = "document" /\ p.source = "content"

Own0(p) ==
    CASE p.type \in ToolChanges -> <<>>
      [] p.type = "thinking" /\ p.piece = <<>> /\ p.signature.by = "chat" -> <<p.signature.item>>
      [] OTHER -> IF p.piece = <<>> THEN <<>> ELSE <<p.piece>>

Own1(p) == IF Container(p) THEN FlattenSeq([k \in DOMAIN p.inner |-> Own0(p.inner[k])])
           ELSE Own0(p)

PayloadsOf(p) == IF Container(p) THEN FlattenSeq([k \in DOMAIN p.inner |-> Own1(p.inner[k])])
                 ELSE Own0(p)

\* The blocks of the history as a model meets them: the results of a turn
\* before what is said beside them.
Reading ==
    LET Blocks(m) == SelectSeq(m.parts, IsResult) \o SelectSeq(m.parts, LAMBDA p : ~IsResult(p))
    IN  FlattenSeq([i \in DOMAIN history |-> Blocks(history[i])])

PayloadsIn(blocks) == FlattenSeq([k \in DOMAIN blocks |-> PayloadsOf(blocks[k])])

\* Payloads, without the words of the router about them.
InParts(parts) ==
    LET own == SelectSeq(parts, LAMBDA q : /\ q.says \in {"own", "json", "fallback"}
                                           /\ q.piece # <<>>)
    IN  [k \in DOMAIN own |-> own[k].piece]

InMessage(m) ==
    m.reasoning.pieces \o InParts(m.parts) \o [k \in DOMAIN m.calls |-> m.calls[k].piece]

InChat == FlattenSeq([i \in DOMAIN sent.body.messages |-> InMessage(sent.body.messages[i])])

InItem(item) == InParts(item.parts) \o (IF item.piece = <<>> THEN <<>> ELSE <<item.piece>>)

InResponses == FlattenSeq([i \in DOMAIN sent.body.input |-> InItem(sent.body.input[i])])

\* The number of the block that holds a payload.
BlockOf(piece) == piece[1]

TurnOf(piece) ==
    LET Before(i) == Len(FlattenSeq([j \in 1..(i - 1) |-> history[j].parts]))
    IN  CHOOSE i \in DOMAIN history :
            Before(i) < BlockOf(piece) /\ BlockOf(piece) <= Before(i) + Len(history[i].parts)

(* A Chat Completions model reads every payload of the history once, turn   *)
(* after turn, and within one message in the order the client gave them:    *)
(* nothing is lost, doubled or moved into another turn when results become  *)
(* messages, their images a sidecar, and thinking reasoning_content.        *)
ChatReadsHistory ==
    ToChat =>
        LET expected == PayloadsIn(Reading)
            Place(piece) == CHOOSE k \in DOMAIN expected : expected[k] = piece
        IN  /\ Len(InChat) = Len(expected)
            /\ ToSet(InChat) = ToSet(expected)
            /\ \A k \in 1..(Len(InChat) - 1) : TurnOf(InChat[k]) <= TurnOf(InChat[k + 1])
            /\ \A m \in ToSet(sent.body.messages) :
                   LET own == InParts(m.parts)
                   IN  \A k \in 1..(Len(own) - 1) : Place(own[k]) < Place(own[k + 1])

(* A Responses model reads every payload in the order of the history; of    *)
(* the reasoning it reads what its own items carry.                         *)
ResponsesReadsHistory ==
    ToResponses =>
        InResponses = PayloadsIn(SelectSeq(Reading, LAMBDA p : p.type # "thinking"))

(* Whichever upstream is asked, its model reads the history.                *)
HistoryRead == ChatReadsHistory /\ ResponsesReadsHistory

(* The items an upstream has answered come back to it as they were, in      *)
(* their order, with their encrypted state, and call ids that are those of  *)
(* the answer or stand for them; turns of other upstreams come without      *)
(* their reasoning (README.md on tool calls and on thinking).               *)
ItemsRoundTrip ==
    ToResponses =>
        LET Output(i) == \/ i.type \in {"reasoning", "function_call"}
                         \/ i.type = "message" /\ i.role = "assistant" /\ i.parts # <<>>
            Said(m)   == IF m.by = "responses" THEN m.said
                         ELSE SelectSeq(m.said, LAMBDA i : i.type # "reasoning")
            said      == FlattenSeq([i \in DOMAIN history |-> Said(history[i])])
            output    == SelectSeq(sent.body.input, Output)
        IN  /\ Len(output) = Len(said)
            /\ \A k \in DOMAIN said : [output[k] EXCEPT !.id = ""] = [said[k] EXCEPT !.id = ""]
            /\ \A k \in DOMAIN said : said[k].id \in Fitting => output[k].id = said[k].id

(* On the wire as in the history every output belongs to the one call       *)
(* before it that it answers, and every id fits: however long ids are, and  *)
(* even if an alias is what another id is called.                           *)
CallsPaired ==
    ToResponses =>
        LET input  == sent.body.input
            calls  == {k \in DOMAIN input : input[k].type = "function_call"}
            Answered(k) == {j \in calls : j < k /\ input[j].id = input[k].id}
        IN  /\ \A k \in DOMAIN input :
                   input[k].type = "function_call_output" =>
                       /\ Cardinality(Answered(k)) = 1
                       /\ \A j \in Answered(k), piece \in ToSet(InParts(input[k].parts)) :
                              LET call   == CHOOSE p \in UNION {Parts(m) : m \in ToSet(history)} :
                                                p.piece = input[j].piece
                                  result == FlattenSeq([i \in DOMAIN history |-> history[i].parts])
                                                [BlockOf(piece)]
                              IN  result.id = call.id
            /\ \A j, k \in calls : input[j].id = input[k].id => j = k
            /\ \A j \in calls : input[j].id \notin Identifiers \ Fitting

\* The tool messages behind message i.
GroupAfter(messages, i) ==
    LET end == CHOOSE n \in i..Len(messages) :
                   /\ \A k \in (i + 1)..n : messages[k].role = "tool"
                   /\ n < Len(messages) => messages[n + 1].role # "tool"
    IN  (i + 1)..end

(* A Chat upstream refuses a request in which anything stands between the   *)
(* calls of a turn and their results: each call has its one result there,   *)
(* and thinking has its reasoning_content when it is on (README.md:594).    *)
ToolGroupsWhole ==
    ToChat =>
        LET messages == sent.body.messages
        IN  /\ \A i \in DOMAIN messages :
                   messages[i].calls # <<>> =>
                       LET group == GroupAfter(messages, i)
                       IN  /\ {messages[k].id : k \in group} = {c.id : c \in ToSet(messages[i].calls)}
                           /\ Cardinality(group) = Len(messages[i].calls)
                           /\ sent.ask.thinking.type \in {"enabled", "adaptive"} =>
                                  messages[i].reasoning.given
            /\ \A i \in DOMAIN messages :
                   messages[i].role = "tool" =>
                       i > 1 /\ (messages[i - 1].role = "tool" \/ messages[i - 1].calls # <<>>)

(* When several results of a group have images or files, each of them is    *)
(* followed in the sidecar by a marker that names its call and its number   *)
(* among the results (README.md:320).                                       *)
SidecarsNamed ==
    ToChat =>
        LET messages == sent.body.messages
            tools    == SelectSeq(messages, LAMBDA m : m.role = "tool")
            Result(q) == FlattenSeq([i \in DOMAIN history |-> history[i].parts])[BlockOf(q.piece)]
            FromResult(q) == q.says = "own" /\ IsMedia(q) /\ IsResult(Result(q))
        IN  \A m \in ToSet(messages) :
                LET moved == {k \in DOMAIN m.parts : FromResult(m.parts[k])}
                    calls == {Result(m.parts[k]).id : k \in moved}
                    After(k) == m.parts[Min({j \in DOMAIN m.parts : j > k /\ j \notin moved})]
                IN  /\ moved # {} => m.role = "user"
                    /\ Cardinality(calls) > 1 =>
                           \A k \in moved :
                               /\ \E j \in DOMAIN m.parts : j > k /\ j \notin moved
                               /\ After(k).says = "marker"
                               /\ After(k).id = Result(m.parts[k]).id
                               /\ tools[After(k).piece[1]].id = After(k).id

(* The model sees the tools that the history leaves in force: the last      *)
(* change decides, whoever makes it, an instruction or the result of a      *)
(* call; without one, those that were not deferred.                         *)
LastChangeDecides ==
    ToChat \/ ToResponses =>
        LET blocks(i) == IF history[i].role = "system" THEN Expanded(history[i].parts)
                         ELSE FlattenSeq([k \in DOMAIN history[i].parts |-> history[i].parts[k].inner])
            changes   == SelectSeq(FlattenSeq([i \in DOMAIN history |-> blocks(i)]),
                                   LAMBDA p : p.type \in ToolChanges)
            InForce(t) == LET own == SelectSeq(changes, LAMBDA c : c.name = t.name)
                          IN  IF own = <<>> THEN ~t.deferred ELSE Last(own).type # "tool_removal"
            names     == IF ToChat THEN ChatNames(Transformed(RequestOf(history, sent.ask)))
                         ELSE NewMap({})
        IN  [k \in DOMAIN sent.body.tools |-> original_name(names, sent.body.tools[k].name)]
                = LET inForce == SelectSeq(Tools, InForce)
                  IN  [k \in DOMAIN inForce |-> inForce[k].name]
=============================================================================
