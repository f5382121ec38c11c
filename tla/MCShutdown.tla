----------------------------- MODULE MCShutdown -----------------------------
(***************************************************************************)
(* TLC instance of the two ends of a shutdown, LogWriter and Entrypoint.   *)
(* They share no state, so each runs while the other rests: the writer     *)
(* beside a script that has ended, the script beside a writer without      *)
(* entries.  The log has three entries, one of them longer than a file     *)
(* buffer, behind a queue of two: enough for a full queue, for two tasks   *)
(* racing for the mutex, and for a short line written between the halves   *)
(* of the long one.  The dashboard is restarted twice before it is given   *)
(* up, and the container is told to stop up to two times.                  *)
(***************************************************************************)
EXTENDS LogWriter, Entrypoint

CONSTANTS e1, e2, e3

VARIABLE running

ScriptOver ==
    /\ pc = "ended"
    /\ child = [c \in Children |-> "exited"]
    /\ known = {} /\ signalled = FALSE /\ failures = 0 /\ told = 0
    /\ termed = {} /\ launched = 1 /\ spare = 0 /\ streak = 0

MCInit ==
    /\ WriterInit
    /\ \/ running = "script" /\ Init
       \/ running = "writer" /\ ScriptOver

MCNext ==
    /\ \/ running = "script" /\ Next /\ UNCHANGED writerVars
       \/ running = "writer" /\ WriterNext /\ UNCHANGED vars
    /\ UNCHANGED running

\* The one that rests has nothing to do that its fairness could ask for.
MCSpec ==
    /\ MCInit /\ [][MCNext]_<<writerVars, vars, running>>
    /\ WriterFairness /\ ScriptFairness
=============================================================================
