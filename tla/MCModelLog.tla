----------------------------- MODULE MCModelLog -----------------------------
(***************************************************************************)
(* TLC instance of ModelLog: two exchanges of at most three entries each   *)
(* behind a queue of two, so that entries are refused in every position.   *)
(***************************************************************************)
EXTENDS ModelLog

CONSTANTS x1, x2

MCEntries == [x : Exchanges, ev : Requests \cup Terminals, n : Calls]
=============================================================================
