---------------------------- MODULE MCLensIngest ----------------------------
(***************************************************************************)
(* TLC instance of LensIngest: one exchange, its two requests, a terminal  *)
(* with a body and one without, over two daily files.  The two terminals   *)
(* left out differ from these by their outcome alone; the proofs have all. *)
(***************************************************************************)
EXTENDS LensIngest

CONSTANT x1

MCEntries ==
    [x : {x1}, ev : Events \ {"model_http_error", "model_cancelled"}]
=============================================================================
