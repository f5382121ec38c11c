---------------------------- MODULE MCChatStream ----------------------------
(***************************************************************************)
(* TLC instance of ChatStream: two upstreams, either of which may speak.   *)
(* One lets three pieces of output, two tool calls among them, meet in     *)
(* every order; its calls are whole or anonymous.  The other has less      *)
(* output and builds calls from fragments, so that ids, names and          *)
(* arguments may be missing, cut short or changed (a second id arises from *)
(* function_call).  Of all they say together there would be too much.      *)
(***************************************************************************)
EXTENDS ChatStream

VARIABLE upstream

WholeCalls == {[id |-> "a", named |-> TRUE, args |-> "{}"]}

CallsInParts ==
    {[id |-> "a", named |-> named, args |-> ""] : named \in BOOLEAN}
        \cup {[id |-> "", named |-> FALSE, args |-> args] : args \in {"{", "}"}}
        \cup {[id |-> "", named |-> TRUE, args |-> ""]}

AllCalls == WholeCalls \cup CallsInParts

Talkative ==
    INSTANCE ChatStream WITH
        Members <- {"reasoning_content", "signature", "content", "tool_calls"},
        Fragments <- WholeCalls

Halting ==
    INSTANCE ChatStream WITH
        Members <- Members \ {"reasoning_content", "signature", "content"},
        Fragments <- CallsInParts

MCInit == Init /\ upstream \in {"talkative", "halting"}

MCNext ==
    /\ \/ upstream = "talkative" /\ Talkative!Next
       \/ upstream = "halting" /\ Halting!Next
    /\ UNCHANGED upstream

MCSpec == MCInit /\ [][MCNext]_<<vars, upstream>>
=============================================================================
