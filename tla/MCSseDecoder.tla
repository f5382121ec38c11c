----------------------------- MODULE MCSseDecoder -----------------------------
(***************************************************************************)
(* TLC instance of SseDecoder: every body of up to seven tokens, in chunks  *)
(* of up to three.                                                         *)
(***************************************************************************)
EXTENDS SseDecoder
=============================================================================
