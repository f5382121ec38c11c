----------------------------- MODULE BoundedSink -----------------------------
(***************************************************************************)
(* What the router's audit log promises its callers, whatever the writer   *)
(* tasks, the write lock, the pending counter and the wake-up do.          *)
(*                                                                         *)
(* An entry is offered once; it is accepted or, when MaxPending accepted   *)
(* entries are still unsettled, dropped on the spot (the caller is never   *)
(* blocked: the log is fail-open).  An accepted entry is settled once the  *)
(* writer is through with it.  A barrier, once called, passes only in a    *)
(* state in which no accepted entry is unsettled.                          *)
(***************************************************************************)
EXTENDS Naturals, FiniteSets

CONSTANTS Entries,     \* the entries that may ever be offered
          MaxPending   \* how many accepted entries may be unsettled at once

VARIABLES fate,        \* fate[e]: what has become of entry e
          barrier      \* "idle", "waiting" or "passed"

sinkVars == <<fate, barrier>>

Fates == {"new", "queued", "dropped", "settled"}

Queued == {e \in Entries : fate[e] = "queued"}

SinkInit ==
    /\ fate = [e \in Entries |-> "new"]
    /\ barrier = "idle"

Accept(e) ==
    /\ fate[e] = "new"
    /\ Cardinality(Queued) < MaxPending
    /\ fate' = [fate EXCEPT ![e] = "queued"]
    /\ UNCHANGED barrier

Refuse(e) ==
    /\ fate[e] = "new"
    /\ Cardinality(Queued) >= MaxPending
    /\ fate' = [fate EXCEPT ![e] = "dropped"]
    /\ UNCHANGED barrier

Settle(e) ==
    /\ fate[e] = "queued"
    /\ fate' = [fate EXCEPT ![e] = "settled"]
    /\ UNCHANGED barrier

CallBarrier ==
    /\ barrier = "idle"
    /\ barrier' = "waiting"
    /\ UNCHANGED fate

PassBarrier ==
    /\ barrier = "waiting"
    /\ Queued = {}
    /\ barrier' = "passed"
    /\ UNCHANGED fate

SinkNext ==
    \/ \E e \in Entries : Accept(e) \/ Refuse(e) \/ Settle(e)
    \/ CallBarrier
    \/ PassBarrier

SinkSpec == SinkInit /\ [][SinkNext]_sinkVars

\* Accepted entries are settled and a called barrier passes in the end.
SinkFairness ==
    /\ \A e \in Entries : WF_sinkVars(Settle(e))
    /\ WF_sinkVars(PassBarrier)

FairSinkSpec == SinkSpec /\ SinkFairness
=============================================================================
