---------------------------- MODULE MCConversation ----------------------------
(***************************************************************************)
(* TLC instance of Conversation: three call ids, two of them too long and  *)
(* with the same first alias, which is what the third is called; a tool    *)
(* whose name does not fit and one that is deferred.                       *)
(***************************************************************************)
EXTENDS Conversation

MCIdentifiers == {"call-long-1", "call-long-2", "alias", "mcp.search", "read"}
MCFitting == {"alias", "read"}

MCCandidate(s, k) == IF k = 0 THEN "alias" ELSE s \o ToString(k)

MCCallNames == <<"call-long-1", "call-long-2", "alias">>

Tool(name, deferred) ==
    [name |-> name, kind |-> "client", deferred |-> deferred, programmatic |-> FALSE]

MCTools == <<Tool("mcp.search", FALSE), Tool("read", TRUE)>>

NoControls == [map |-> [e \in {} |-> ""], levels |-> {}]

AskFor(thinking, budget, display, effort, choice, controls) ==
    [thinking |-> [type |-> thinking, budget |-> budget, display |-> display],
     effort |-> effort, choice |-> [type |-> choice, name |-> "", parallel |-> "unsaid"],
     limit |-> 1, stream |-> TRUE, controls |-> controls]

MCAsks ==
    {AskFor("enabled", 2048, "unsaid", "unsaid", "absent", NoControls),
     AskFor("adaptive", 0, "omitted", "max", "auto",
            [map |-> [e \in {"max"} |-> "xhigh"], levels |-> {"high", "max"}]),
     AskFor("absent", 0, "unsaid", "max", "any", [map |-> [e \in {"*"} |-> "off"], levels |-> {"low"}])}

Some == <<0>>
Text == Part("text", Some)
CitedText == [Text EXCEPT !.cited = TRUE]
Image(source) == [Part("image", Some) EXCEPT !.source = source]
Document(source) == [Part("document", Some) EXCEPT !.source = source]
Search == [Part("search_result", Some) EXCEPT !.name = "title", !.inner = <<Text, Text>>]
Result(inner) == [Part("tool_result", <<>>) EXCEPT !.inner = inner]

MCUserShows ==
    {Text, Part("text", <<>>), [Document("url") EXCEPT !.context = TRUE],
     [Document("content") EXCEPT !.inner = <<Text, Image("url"), Image("other")>>]}

Reference == [Part("tool_reference", <<>>) EXCEPT !.name = "read"]

MCResults ==
    {[Result(<<Text>>) EXCEPT !.error = TRUE], Result(<<Image("base64")>>),
     Result(<<Text, Document("text"), Text>>), Result(<<Reference, Search>>),
     Result(<<[Search EXCEPT !.inner = <<Text, CitedText>>]>>)}

Change(type, name) == [Part(type, <<>>) EXCEPT !.name = name]

MCNotes ==
    {Text, Change("tool_addition", "read"),
     [Part("mid_conv_system", <<>>) EXCEPT
         !.inner = <<CitedText, Change("tool_removal", "read"), Change("tool_removal", "mcp.search")>>]}

Thinking(by) == [Part("thinking", Some) EXCEPT !.signature = Signature(by, <<>>, FALSE)]

MCImports ==
    {Thinking("foreign"), Thinking("broken"), CitedText,
     Part("redacted_thinking", Some)}

Question == [Turn("user", "client") EXCEPT !.parts = <<Part("text", <<1>>)>>]

CallBlock(id, piece) == [Part("tool_use", piece) EXCEPT !.id = id, !.name = "mcp.search"]
CallItem(id, piece) ==
    [Item("function_call") EXCEPT !.id = id, !.name = "mcp.search", !.piece = piece]

TwoCalls ==
    [Turn("assistant", "responses") EXCEPT
        !.parts = <<[Part("thinking", <<>>) EXCEPT !.signature = Signature("responses", <<2>>, TRUE)],
                    CallBlock("call-long-1", <<3>>), CallBlock("call-long-2", <<4>>)>>,
        !.said  = <<[Item("reasoning") EXCEPT !.item = <<2>>, !.sealed = TRUE],
                    CallItem("call-long-1", <<3>>), CallItem("call-long-2", <<4>>)>>]

\* A session from its first question, and one in the middle of two calls.
MCSessions ==
    {[history |-> <<Question>>, left |-> 4], [history |-> <<Question, TwoCalls>>, left |-> 4]}
=============================================================================
