---------------------------- MODULE JobLifecycle ----------------------------
(***************************************************************************)
(* What the job subsystem promises an administrator who only looks at the  *)
(* rows of background_jobs and backtest_runs: a job is queued, becomes     *)
(* active, and settles exactly once; only work that published its result   *)
(* is completed; only a job somebody asked to cancel is cancelled; nothing *)
(* but a restart interrupts a job, and a restart interrupts all of them.   *)
(* Threads, the event loop, the semaphore and checkpoints are not visible  *)
(* here; JobRunner implements this specification.                          *)
(***************************************************************************)
CONSTANT Jobs

VARIABLES phase,    \* phase[j]: what the row's status amounts to
          asked,    \* asked[j]: somebody asked for j to be cancelled
          published \* published[j]: the result of j is stored

vars == <<phase, asked, published>>

Settled == {"completed", "failed", "cancelled", "interrupted"}
Live(j) == phase[j] \in {"queued", "active"}

Init ==
    /\ phase = [j \in Jobs |-> "absent"]
    /\ asked = [j \in Jobs |-> FALSE]
    /\ published = [j \in Jobs |-> FALSE]

Become(j, p) == phase' = [phase EXCEPT ![j] = p] /\ UNCHANGED <<asked, published>>

Submit(j) == phase[j] = "absent" /\ Become(j, "queued")

Start(j) == phase[j] = "queued" /\ Become(j, "active")

AskToCancel(j) ==
    /\ Live(j)
    /\ asked' = [asked EXCEPT ![j] = TRUE]
    /\ UNCHANGED <<phase, published>>

Publish(j) ==
    /\ phase[j] = "active" /\ ~published[j]
    /\ published' = [published EXCEPT ![j] = TRUE]
    /\ UNCHANGED <<phase, asked>>

Complete(j) == phase[j] = "active" /\ published[j] /\ Become(j, "completed")

Fail(j) == phase[j] = "active" /\ Become(j, "failed")

Cancel(j) == Live(j) /\ asked[j] /\ Become(j, "cancelled")

(* A restart settles every live job in one statement. *)
Interrupt ==
    /\ phase' = [j \in Jobs |-> IF Live(j) THEN "interrupted" ELSE phase[j]]
    /\ UNCHANGED <<asked, published>>

Next ==
    \/ Interrupt
    \/ \E j \in Jobs :
         \/ Submit(j) \/ Start(j) \/ AskToCancel(j) \/ Publish(j)
         \/ Complete(j) \/ Fail(j) \/ Cancel(j)

Safety == Init /\ [][Next]_vars

(* Submitted work is not forgotten: a live job settles in the end. *)
Settles == \A j \in Jobs : Live(j) ~> phase[j] \in Settled

Spec == Safety /\ Settles
=============================================================================
