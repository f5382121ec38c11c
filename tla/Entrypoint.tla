------------------------------ MODULE Entrypoint ------------------------------
(***************************************************************************)
(* docker-entrypoint.sh with LENS_ENABLED: the script starts the router    *)
(* and the dashboard, waits for whichever goes first, and either ends the  *)
(* container or restarts the dashboard.                                    *)
(*                                                                         *)
(* Of bash 5.2 the model has what decides what the script sees: a trap     *)
(* runs between commands and interrupts a wait but not a sleep; wait -n    *)
(* returns at once for a child of its list that has died before, unless    *)
(* the child was killed by a signal while the script was not waiting: then *)
(* the shell has reported it and dropped it from its table of jobs, and    *)
(* wait -n passes over it.                                                 *)
(***************************************************************************)
EXTENDS Naturals

CONSTANTS MaxRestarts,   \* LENS_MAX_RESTARTS
          MaxTerms       \* bound: SIGTERMs sent to the container

ASSUME EntrypointAssumption == MaxRestarts \in Nat /\ MaxTerms \in Nat

Children == {"router", "lens"}

VARIABLES
    pc,        \* "top", "wait", "router", "lens", "sleep", "launch", "only",
               \* "terminate", "reap" or "ended"
    child,     \* ROUTER_PID and LENS_PID: "up", "exited" or "killed"
    known,     \* children in the shell's table of jobs
    signalled, \* a signal has arrived and its trap has not run
    failures,  \* lens_failures
    told,      \* history: SIGTERMs sent to the container
    termed,    \* history: children that were sent a SIGTERM
    launched,  \* history: dashboards started
    spare,     \* history: dashboards left running behind another
    streak     \* history: failures since a dashboard last served

vars == <<pc, child, known, signalled, failures, told, termed, launched, spare, streak>>

historyVars == <<told, termed, launched, spare, streak>>

Init ==
    /\ pc = "top"
    /\ child = [c \in Children |-> "up"]
    /\ known = Children
    /\ signalled = FALSE
    /\ failures = 0
    /\ told = 0
    /\ termed = {}
    /\ launched = 1
    /\ spare = 0
    /\ streak = 0

Up(c) == child[c] = "up"

\* What wait -n can still return, of these, when the next command begins.
Remembered(children) == {c \in children : child[c] # "killed"}

-----------------------------------------------------------------------------
(* The children and the orchestrator.                                       *)

Exits(c) ==
    /\ Up(c)
    /\ child' = [child EXCEPT ![c] = "exited"]
    /\ UNCHANGED <<pc, known, signalled, failures, historyVars>>

\* By the kernel, by a panic (both programs abort), or by a SIGTERM that the
\* dashboard does not handle.
IsKilled(c) ==
    /\ Up(c)
    /\ child' = [child EXCEPT ![c] = "killed"]
    /\ UNCHANGED <<pc, known, signalled, failures, historyVars>>

Dies(c) == pc # "ended" /\ (Exits(c) \/ IsKilled(c))

\* A child that is told to stop does, the router after its shutdown.
Stops(c) == c \in termed /\ Dies(c)

Term ==
    /\ told < MaxTerms /\ pc # "ended"
    /\ told' = told + 1
    /\ signalled' = TRUE
    /\ UNCHANGED <<pc, child, known, failures, termed, launched, spare, streak>>

\* The dashboard has come up and does its work: whatever fails later is
\* another failure.
Serves ==
    /\ Up("lens") /\ pc # "ended" /\ streak > 0
    /\ streak' = 0
    /\ UNCHANGED <<pc, child, known, signalled, failures, told, termed, launched, spare>>

-----------------------------------------------------------------------------
(* The script.                                                              *)

At(p) == pc = p /\ ~signalled

\* Mutant: only the dashboard is told.
AddresseesLens == {"lens"}

Addressees == {"router", "lens"}

\* terminate()
Told == termed' = termed \cup {c \in Addressees : Up(c)}

\* The trap; "|| true" swallows the status of the wait it interrupts.
Trap ==
    /\ signalled /\ pc \notin {"sleep", "ended"}
    /\ signalled' = FALSE
    /\ Told
    /\ pc' = CASE pc = "wait" -> "router"
               [] pc = "only" -> "terminate"
               [] pc = "reap" -> "ended"
               [] OTHER       -> pc
    /\ known' = Remembered(known)
    /\ UNCHANGED <<child, failures, told, launched, spare, streak>>

Wait ==
    /\ At("top")
    /\ pc' = "wait"
    /\ known' = Remembered(known)
    /\ UNCHANGED <<child, signalled, failures, historyVars>>

\* It returns a child of its list that is dead; with none left it fails.
WaitReturns ==
    /\ At("wait")
    /\ \/ \E c \in known : ~Up(c) /\ known' = Remembered(known \ {c})
       \/ known = {} /\ UNCHANGED known
    /\ pc' = "router"
    /\ UNCHANGED <<child, signalled, failures, historyVars>>

\* Mutant: only a dead dashboard is looked for.
RouterGoneNever == FALSE

RouterGone == ~Up("router")

CheckRouter ==
    /\ At("router")
    /\ pc' = IF RouterGone THEN "terminate" ELSE "lens"
    /\ known' = Remembered(known)
    /\ UNCHANGED <<child, signalled, failures, historyVars>>

DashboardGone == ~Up("lens")

StraySignal ==
    /\ At("lens") /\ ~DashboardGone
    /\ pc' = "top"
    /\ known' = Remembered(known)
    /\ UNCHANGED <<child, signalled, failures, historyVars>>

\* Mutant: one failure too early.
GivesUpEarly(n) == n >= MaxRestarts

GivesUp(n) == n > MaxRestarts

AfterGivingUp == "only"

CountFailure ==
    /\ At("lens") /\ DashboardGone
    /\ failures' = failures + 1
    /\ pc' = IF GivesUp(failures + 1) THEN AfterGivingUp ELSE "sleep"
    /\ known' = Remembered(known)
    /\ streak' = streak + 1
    /\ UNCHANGED <<child, signalled, told, termed, launched, spare>>

SleepEnds ==
    /\ pc = "sleep"
    /\ pc' = "launch"
    /\ known' = Remembered(known)
    /\ UNCHANGED <<child, signalled, failures, historyVars>>

\* Mutant: the loop goes on without a new dashboard.
LaunchNothing ==
    /\ At("launch")
    /\ pc' = "top"
    /\ UNCHANGED <<child, known, signalled, failures, historyVars>>

Launch ==
    /\ At("launch")
    /\ child' = [child EXCEPT !["lens"] = "up"]
    /\ known' = Remembered(known) \cup {"lens"}
    /\ termed' = termed \ {"lens"}
    /\ launched' = launched + 1
    /\ spare' = IF Up("lens") THEN spare + 1 ELSE spare
    /\ pc' = "top"
    /\ UNCHANGED <<signalled, failures, told, streak>>

\* A wait for one child also knows those the shell has forgotten.
WaitForRouter ==
    /\ At("only") /\ ~Up("router")
    /\ pc' = "terminate"
    /\ known' = Remembered(known)
    /\ UNCHANGED <<child, signalled, failures, historyVars>>

\* Mutant: the script ends without the last wait.
AfterTerminateEnd == "ended"

AfterTerminate == "reap"

Terminate ==
    /\ At("terminate")
    /\ Told
    /\ pc' = AfterTerminate
    /\ known' = Remembered(known)
    /\ UNCHANGED <<child, signalled, failures, told, launched, spare, streak>>

WaitForAll ==
    /\ At("reap") /\ \A c \in Children : ~Up(c)
    /\ pc' = "ended"
    /\ UNCHANGED <<child, known, signalled, failures, historyVars>>

-----------------------------------------------------------------------------
Script ==
    \/ Trap \/ Wait \/ WaitReturns \/ CheckRouter \/ StraySignal \/ CountFailure
    \/ SleepEnds \/ Launch \/ WaitForRouter \/ Terminate \/ WaitForAll

Next == Script \/ Term \/ Serves \/ \E c \in Children : Dies(c)

Spec == Init /\ [][Next]_vars

\* The shell is scheduled, and a child that is told to stop does.
ScriptFairness == WF_vars(Script) /\ \A c \in Children : WF_vars(Stops(c))

FairSpec == Spec /\ ScriptFairness

-----------------------------------------------------------------------------
TypeOK ==
    /\ pc \in {"top", "wait", "router", "lens", "sleep", "launch", "only",
               "terminate", "reap", "ended"}
    /\ child \in [Children -> {"up", "exited", "killed"}]
    /\ known \subseteq Children
    /\ signalled \in BOOLEAN
    /\ failures \in 0..(MaxRestarts + 1)
    /\ told \in 0..MaxTerms
    /\ termed \subseteq Children
    /\ launched \in Nat /\ spare \in Nat /\ streak \in 0..failures

(* A crash loop does not spin for ever, nor is it cut short: dashboards     *)
(* that fail in a row are started again LENS_MAX_RESTARTS times, and one    *)
(* that was never seen to serve is not given up before, whatever signals    *)
(* arrive in between.  Nothing is promised to a dashboard that served       *)
(* between its failures: docker-entrypoint.sh:20 and README.md:447 count    *)
(* failures in a row, the script all of them, for lens_failures is never    *)
(* set back.                                                                *)
CrashLoopEnds ==
    /\ streak <= MaxRestarts + 1
    /\ pc = "only" /\ streak = failures => launched = MaxRestarts + 1

(* Two dashboards never run at once: they would tail the log into the same  *)
(* database.                                                                *)
OneDashboard == spare = 0

(* Dashboards in a crash loop are bounded in number, and never two at a     *)
(* time.                                                                    *)
DashboardBounded == CrashLoopEnds /\ OneDashboard

(* However the dashboard fails, the router is told to stop only because the *)
(* container was.                                                           *)
DashboardHarmless == "router" \in termed => told > 0

(* The router's shutdown is not cut off: the script does not end while it   *)
(* runs, unless the container was told to stop a second time.               *)
DrainRespected == pc = "ended" /\ Up("router") => told > 1

(* The router is stopped only when the container is, and then in peace.     *)
RouterSpared == DashboardHarmless /\ DrainRespected

(* A router that exits ends the container, also if that happens while the   *)
(* script is busy with the dashboard.  A router that a signal kills while   *)
(* the script sleeps does not: wait -n passes over it, and the script waits *)
(* for the dashboard alone, although docker-entrypoint.sh:6 says that the   *)
(* router going down ends the container.                                    *)
RouterExitEndsContainer == child["router"] = "exited" ~> pc = "ended"

(* A container that is told to stop does, whatever the script was doing.    *)
StopsWhenTold == told > 0 ~> pc = "ended" \/ child["router"] = "killed"

(* A dashboard that exits comes back until it is given up.                  *)
DashboardComesBack ==
    child["lens"] = "exited" ~>
        Up("lens") \/ failures > MaxRestarts \/ ~Up("router") \/ pc = "ended"
=============================================================================
