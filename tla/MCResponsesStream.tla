-------------------------- MODULE MCResponsesStream --------------------------
(***************************************************************************)
(* TLC instance of ResponsesStream: two output items of two parts, and two *)
(* pieces in all: enough for text behind a second part or another item,    *)
(* for a call with whole arguments beside a text or a refusal, for two     *)
(* calls one of which is cut short, and for a snapshot that says more than *)
(* the text forwarded so far.                                              *)
(***************************************************************************)
EXTENDS ResponsesStream
=============================================================================
