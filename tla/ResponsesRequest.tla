--------------------------- MODULE ResponsesRequest ---------------------------
(***************************************************************************)
(* transform_responses_request of rust/src/transform/responses.rs: the     *)
(* unified request as the Responses API takes it.  An assistant turn is    *)
(* replayed as the output items it came from, block by block; the items of *)
(* reasoning come out of the signatures.                                   *)
(***************************************************************************)
EXTENDS UnifiedRequest, AliasMap

\* An input item.  item: the reasoning item it repeats, sealed: with its
\* encrypted state; id: the call_id of a function_call or of its output.
Item(type) ==
    [type |-> type, role |-> "", parts |-> <<>>, id |-> "", name |-> "", piece |-> <<>>,
     item |-> <<>>, sealed |-> FALSE]

MessageItem(role, parts) == [Item("message") EXCEPT !.role = role, !.parts = parts]

-----------------------------------------------------------------------------

CallIds(u) ==
    UNION {{c.id : c \in ToSet(m.calls)} : m \in ToSet(u.messages)}
        \cup {m.id : m \in {n \in ToSet(u.messages) : n.role = "tool"}}

\* Mutant: any vendor's signature but this router's own fails the request.
MalformedForeign(signature) == signature.by # "responses"

\* A signature with the prefix of this router that does not decode fails the
\* request; any other vendor's is passed over.
Malformed(signature) == signature.by = "broken"

ReplayedReasoning(signature) ==
    IF signature.by = "responses"
    THEN <<[Item("reasoning") EXCEPT !.item = signature.item, !.sealed = signature.sealed]>>
    ELSE <<>>

BlockItems(block, ids) ==
    CASE block.type = "thinking" -> ReplayedReasoning(block.signature)
      [] block.type = "tool_use" ->
             <<[Item("function_call") EXCEPT !.id = wire_name(ids, block.id),
                                             !.name = block.name, !.piece = block.piece]>>
      [] block.type = "text"     -> <<MessageItem("assistant", <<Own(block)>>)>>

\* Mutant: all reasoning of a turn goes in front of it.
AssistantItemsReasoningFirst(m, ids) ==
    LET Of(blocks) == FlattenSeq([k \in DOMAIN blocks |-> BlockItems(blocks[k], ids)])
        items == Of(SelectSeq(m.blocks, LAMBDA b : b.type = "thinking"))
                     \o Of(SelectSeq(m.blocks, LAMBDA b : b.type # "thinking"))
    IN  IF items = <<>> THEN <<MessageItem("assistant", <<>>)>> ELSE items

AssistantItems(m, ids) ==
    LET items == FlattenSeq([k \in DOMAIN m.blocks |-> BlockItems(m.blocks[k], ids)])
    IN  IF items = <<>> THEN <<MessageItem("assistant", <<>>)>> ELSE items

\* Text, images and files all have their input parts.
ItemsOf(m, ids) ==
    CASE m.role = "assistant" -> AssistantItems(m, ids)
      [] m.role = "tool"      ->
             <<[Item("function_call_output") EXCEPT !.id = wire_name(ids, m.id),
                                                    !.parts = m.parts]>>
      [] OTHER                -> <<MessageItem(m.role, m.parts)>>

Replayable(u) ==
    \A m \in ToSet(u.messages) : \A t \in ToSet(m.thinking) : ~Malformed(t.signature)

\* summary: the upstream is asked for visible reasoning; encrypted: for its
\* encrypted state.
Responses(u) ==
    LET ids == AliasesFor(CallIds(u))
    IN  [input     |-> FlattenSeq([i \in DOMAIN u.messages |-> ItemsOf(u.messages[i], ids)]),
         tools     |-> u.tools,
         choice    |-> u.choice,
         effort    |-> IF u.effort.explicit # "unsaid" THEN u.effort.explicit
                       ELSE u.effort.reasoning,
         summary   |-> u.enabled /\ u.display # "omitted",
         encrypted |-> u.enabled]
=============================================================================
