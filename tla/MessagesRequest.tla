--------------------------- MODULE MessagesRequest ---------------------------
(***************************************************************************)
(* An Anthropic Messages request, and validate_request of                  *)
(* rust/src/transform/request.rs: which requests the router takes.  A      *)
(* client sends its whole history with every request.                      *)
(*                                                                         *)
(* Members have the JSON types Anthropic gives them; what varies is which  *)
(* are there, which are empty and how they combine.  A payload (a text, an *)
(* input, the bytes of an image) is a tuple that names it, <<>> when it is *)
(* empty.  A string as content is its one text block.                      *)
(***************************************************************************)
EXTENDS Integers, FiniteSets, SequencesExt

\* What a router or a vendor has put into the signature of a thinking block:
\* by |-> "none" (no signature), "foreign" (not this router's), "broken" (its
\* prefix before something else), "chat" or "responses"; what reasoning item
\* it carries, and whether that carries its encrypted state.
Signature(by, item, sealed) == [by |-> by, item |-> item, sealed |-> sealed]
Unsigned == Signature("none", <<>>, FALSE)

\* One content block; the members a type does not have keep these values.
\* name: of a tool, or the title and source of a search result; source: the
\* type of a source, "unusable" if a member it needs is missing; inner: the
\* blocks of a result, a document, a search result or a mid_conv_system.
Part(type, piece) ==
    [type |-> type, piece |-> piece, id |-> "", name |-> "", source |-> "none",
     context |-> FALSE, cited |-> FALSE, error |-> FALSE, signature |-> Unsigned,
     inner |-> <<>>]

Parts(message) == ToSet(message.parts)

-----------------------------------------------------------------------------
(* Blocks.                                                                  *)

ServerResults ==
    {"web_search_tool_result", "web_fetch_tool_result", "code_execution_tool_result",
     "bash_code_execution_tool_result", "text_editor_code_execution_tool_result",
     "mcp_tool_result"}

ServerHistory ==
    ServerResults \cup {"server_tool_use", "mcp_tool_use", "tool_search_tool_result",
                        "advisor_tool_result"}

Opaque == {"redacted_thinking", "compaction", "fallback", "container_upload"}

TextAllowed(p) == ~p.cited

\* No request has a file map, so that every file source is refused.
ImageAllowed(p) == p.source \notin {"none", "unusable", "file"}

DocumentAllowed(p) ==
    /\ p.source \notin {"none", "unusable", "file"}
    /\ p.source = "content" =>
           \A q \in ToSet(p.inner) :
               /\ q.type # ""
               /\ q.type = "text" => TextAllowed(q)
               /\ q.type = "image" => ImageAllowed(q)

SearchAllowed(p) ==
    /\ p.name # ""
    /\ p.inner # <<>>
    /\ \A q \in ToSet(p.inner) : q.type = "text" /\ q.piece # <<>> /\ TextAllowed(q)

\* A result with search results holds nothing else that is visible.
ResultAllowed(p) ==
    LET types == {q.type : q \in ToSet(p.inner)}
    IN  /\ p.id # ""
        /\ \A q \in ToSet(p.inner) :
               CASE q.type = "text"           -> TextAllowed(q)
                 [] q.type = "image"          -> ImageAllowed(q)
                 [] q.type = "document"       -> DocumentAllowed(q)
                 [] q.type = "search_result"  -> SearchAllowed(q)
                 [] q.type = "tool_reference" -> q.name # ""
                 [] OTHER                     -> TRUE
        /\ "search_result" \in types => types \cap {"text", "image", "document"} = {}

MidConversationAllowed(p) ==
    \A q \in ToSet(p.inner) : q.type \in {"text", "tool_addition", "tool_removal"}

\* The role whose messages hold blocks of this type.
Belongs(role, p) ==
    CASE p.type \in {"image", "document", "search_result", "tool_result"} -> role = "user"
      [] p.type \in {"tool_use", "thinking"}                              -> role = "assistant"
      [] p.type \in {"mid_conv_system", "tool_addition", "tool_removal"}  -> role = "system"
      [] OTHER                                                            -> TRUE

\* The caller of a tool_use is not modelled: only a direct one is taken.
PartAllowed(role, p) ==
    /\ p.type \notin ServerHistory \cup Opaque \cup {""}
    /\ Belongs(role, p)
    /\ CASE p.type = "text"            -> TextAllowed(p)
         [] p.type = "image"           -> ImageAllowed(p)
         [] p.type = "document"        -> DocumentAllowed(p)
         [] p.type = "search_result"   -> SearchAllowed(p)
         [] p.type = "mid_conv_system" -> MidConversationAllowed(p)
         [] p.type = "tool_use"        -> p.id # "" /\ p.name # ""
         [] p.type = "tool_result"     -> ResultAllowed(p)
         [] p.type = "thinking"        -> p.signature.by # "none"
         [] OTHER                      -> TRUE

\* Citations are switched on for a source, or for one within a result.
Cites(p) ==
    LET Source(q) == q.type \in {"document", "search_result"} /\ q.cited
    IN  Source(p) \/ (p.type = "tool_result" /\ \E q \in ToSet(p.inner) : Source(q))

-----------------------------------------------------------------------------
(* The history.                                                             *)

EndsWithServerResult(message) ==
    /\ message.role = "assistant" /\ message.parts # <<>>
    /\ Last(message.parts).type \in ServerResults /\ Last(message.parts).id # ""

\* System messages within a history come in groups, behind a user turn or a
\* server's result, last of all or before an assistant turn.
SystemPlaced(messages) ==
    \A i \in 1..Len(messages) :
        messages[i].role = "system" =>
            /\ i > 1
            /\ messages[i - 1].role \in {"system", "user"} \/ EndsWithServerResult(messages[i - 1])
            /\ i = Len(messages) \/ messages[i + 1].role \in {"system", "assistant"}

\* The history adds, removes or names tools.
ToolChanges == {"tool_reference", "tool_addition", "tool_removal"}

ReferencesTools(message) ==
    \E p \in Parts(message) :
        \/ p.type \in ToolChanges
        \/ /\ p.type = "mid_conv_system"
           /\ \E q \in ToSet(p.inner) : q.type \in ToolChanges
        \/ /\ p.type = "tool_result"
           /\ \E q \in ToSet(p.inner) : q.type = "tool_reference"

-----------------------------------------------------------------------------
(* What the request says beside its history.                                *)

\* kind: "client", "server" or "typed"; programmatic: a caller other than
\* "direct" is allowed.
ToolsAllowed(tools) ==
    /\ \A t \in ToSet(tools) : t.kind = "client" /\ t.name # "" /\ ~t.programmatic
    /\ \A i, j \in 1..Len(tools) : tools[i].name = tools[j].name => i = j
    /\ tools # <<>> => \E t \in ToSet(tools) : ~t.deferred

ChoiceAllowed(choice) ==
    /\ choice.type \in {"absent", "auto", "any", "tool", "none"}
    /\ choice.type = "tool" => choice.name # ""
    /\ choice.type = "none" => choice.parallel = "unsaid"

Forced(choice) == choice.type \in {"any", "tool"}

MinBudget == 1024

ThinkingAllowed(thinking, choice) ==
    /\ thinking.type \in {"absent", "enabled", "adaptive", "disabled"}
    /\ thinking.display \in {"unsaid", "summarized", "omitted"}
    /\ thinking.type = "disabled" => thinking.display = "unsaid"
    /\ IF thinking.type = "enabled" THEN thinking.budget >= MinBudget ELSE thinking.budget = 0
    /\ ~(thinking.type = "enabled" /\ Forced(choice))

Efforts == {"low", "medium", "high", "xhigh", "max"}

\* format: whether a JSON schema is asked for, which changes only the text of
\* the refusal when sources are cited.
Valid(r) ==
    /\ \A p \in ToSet(r.system) : p.type # "" /\ (p.type = "text" => TextAllowed(p))
    /\ ~r.container
    /\ \A i \in 1..Len(r.messages) :
           \A p \in Parts(r.messages[i]) : PartAllowed(r.messages[i].role, p) /\ ~Cites(p)
    /\ SystemPlaced(r.messages)
    /\ (\E i \in 1..Len(r.messages) : ReferencesTools(r.messages[i])) => r.tools # <<>>
    /\ ToolsAllowed(r.tools)
    /\ ChoiceAllowed(r.choice)
    /\ r.effort \in Efforts \cup {"unsaid"}
    /\ ThinkingAllowed(r.thinking, r.choice)
=============================================================================
