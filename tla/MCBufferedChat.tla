--------------------------- MODULE MCBufferedChat ---------------------------
(***************************************************************************)
(* TLC instance of BufferedChat: up to three pieces of output, two calls   *)
(* among them, whole or in parts, with an id that may be missing or        *)
(* change.                                                                 *)
(***************************************************************************)
EXTENDS BufferedChat

CallParts ==
    {[id |-> "a", named |-> TRUE, args |-> "{}"],
     [id |-> "a", named |-> TRUE, args |-> ""],
     [id |-> "b", named |-> FALSE, args |-> "{"],
     [id |-> "", named |-> FALSE, args |-> "}"]}
=============================================================================
