----------------------------- MODULE JobRunner ------------------------------
(***************************************************************************)
(* Background jobs: JobRunner, JobExecutionContext and JobRepository       *)
(* (jobs/) running BacktestJobSpec (backtest/service.py) in one process.   *)
(*                                                                         *)
(* Every task runs on one event loop: it keeps the loop until it awaits,   *)
(* which it does when it waits for the semaphore and at the end of each    *)
(* checkpoint.  The cancel endpoint runs on a worker thread and the        *)
(* process may die at any point, so each database call is a step of its    *)
(* own.  A call commits one statement, and only task j writes the status   *)
(* of row j, so `transition` (SELECT, then UPDATE ... WHERE status = the   *)
(* one read) is one step.                                                  *)
(***************************************************************************)
EXTENDS Integers, Sequences, FiniteSets

CONSTANTS Jobs,           \* the jobs that may be submitted
          NoTask,         \* the value of `loop` when the event loop is idle
          MaxConcurrency, \* size of the runner's semaphore
          Units,          \* symbols of a backtest, over the three universes
          MaxCrashes,     \* bound: how often the process dies
          MaxFaults       \* bound: how often a database call raises

ASSUME JobRunnerAssumption ==
    /\ IsFiniteSet(Jobs)
    /\ NoTask \notin Jobs
    /\ MaxConcurrency \in Nat \ {0}
    /\ Units \in Nat \ {0}
    /\ MaxCrashes \in Nat
    /\ MaxFaults \in Nat

VARIABLES
    \* background_jobs and backtest_runs
    status, progress, error, cancelRequested, runs,
    \* the process: is it up, the tasks, the loop, the semaphore
    up, pc, unit, loop, slots, waiters,
    \* bookkeeping of the environment and of the properties
    crashes, faults, late

rows == <<status, progress, error, cancelRequested, runs>>
process == <<up, pc, unit, loop, slots, waiters>>
bounds == <<crashes, faults>>
vars == <<rows, process, bounds, late>>

-----------------------------------------------------------------------------
(* Job statuses and the table of allowed transitions. *)

Active == {"downloading", "validating", "running", "aggregating"}
Terminal == {"completed", "failed", "cancelled", "interrupted"}
Cancellable == {"queued"} \cup Active
Statuses == {"absent"} \cup Cancellable \cup Terminal

AllowedFrom(s) ==
    CASE s = "queued" -> Active \cup {"cancelled", "interrupted"}
      [] s \in Active -> Active \cup Terminal
      [] OTHER -> {}

Allowed(s, t) == s = t \/ t \in AllowedFrom(s)

(* The program of a task; the labels between "start" and "complete" hold a *)
(* slot of the semaphore, which is released before the except clauses run. *)
Checkpoints == {"start", "next", "validate?", "run?", "aggregate?", "done?"}
Working == {"begin", "download", "fetch", "report", "validate", "run",
            "engine", "aggregate", "save", "complete"}
Inside == Checkpoints \cup Working
Handlers == {"cancelling", "failing"}
Labels == {"none", "waiting", "gone"} \cup Inside \cup Handlers

(* The label a task resumes at when its checkpoint found no cancellation. *)
Resume(l) ==
    CASE l = "start" -> "begin"
      [] l = "next" -> "fetch"
      [] l = "validate?" -> "validate"
      [] l = "run?" -> "run"
      [] l = "aggregate?" -> "aggregate"
      [] OTHER -> "complete"

(* Percent completed after u symbols: 0.05 + (u / total) * 0.45. *)
DownloadProgress(u) == 5 + (45 * u) \div Units

HasLoop(j) == up /\ loop \in {NoTask, j}

-----------------------------------------------------------------------------
Init ==
    /\ status = [j \in Jobs |-> "absent"]
    /\ progress = [j \in Jobs |-> 0]
    /\ error = [j \in Jobs |-> FALSE]
    /\ cancelRequested = [j \in Jobs |-> FALSE]
    /\ runs = [j \in Jobs |-> 0]
    /\ up = TRUE
    /\ pc = [j \in Jobs |-> "none"]
    /\ unit = [j \in Jobs |-> 0]
    /\ loop = NoTask
    /\ slots = MaxConcurrency
    /\ waiters = <<>>
    /\ crashes = 0 /\ faults = 0
    /\ late = [j \in Jobs |-> 0]

(* JobRunner.submit: insert the row and create the task without awaiting.  *)
(* Tasks first run, and so reach the semaphore, in submission order.       *)
Submit(j) ==
    /\ up /\ loop = NoTask /\ status[j] = "absent"
    /\ status' = [status EXCEPT ![j] = "queued"]
    /\ pc' = [pc EXCEPT ![j] = "waiting"]
    /\ waiters' = Append(waiters, j)
    /\ UNCHANGED <<progress, error, cancelRequested, runs, up, unit, loop,
                   slots, bounds, late>>

(* The semaphore hands a slot to the task that has waited longest. *)
Acquire(j) ==
    /\ up /\ loop = NoTask
    /\ slots > 0 /\ waiters # <<>> /\ Head(waiters) = j
    /\ slots' = slots - 1
    /\ waiters' = Tail(waiters)
    /\ pc' = [pc EXCEPT ![j] = "start"]
    /\ loop' = j
    /\ UNCHANGED <<rows, up, unit, bounds, late>>

(* Faulty variant: the failure path forgets the slot. *)
RaiseKeepingSlot(j, handler) ==
    /\ pc' = [pc EXCEPT ![j] = handler]
    /\ loop' = j
    /\ UNCHANGED slots

(* An exception leaves the `async with`, which frees the slot; the task    *)
(* keeps the loop and goes on in the except clause.                        *)
Raise(j, handler) ==
    /\ pc' = [pc EXCEPT ![j] = handler]
    /\ slots' = slots + 1
    /\ loop' = j

(* The task runs on to label l without awaiting. *)
GoOn(j, l) ==
    /\ pc' = [pc EXCEPT ![j] = l]
    /\ loop' = j
    /\ UNCHANGED slots

(* Faulty variant: the slot is freed in `finally` as well. *)
EndFreeingTwice(j, free) ==
    /\ pc' = [pc EXCEPT ![j] = "gone"]
    /\ slots' = slots + 1
    /\ loop' = NoTask

(* The task ends; `free` is 1 when it still held its slot. *)
End(j, free) ==
    /\ pc' = [pc EXCEPT ![j] = "gone"]
    /\ slots' = slots + free
    /\ loop' = NoTask

(* JobExecutionContext.checkpoint: read the flag, then yield the loop. *)
Checkpoint(j) ==
    /\ HasLoop(j) /\ pc[j] \in Checkpoints
    /\ IF cancelRequested[j]
       THEN Raise(j, "cancelling")
       ELSE /\ pc' = [pc EXCEPT ![j] = Resume(pc[j])]
            /\ loop' = NoTask
            /\ UNCHANGED slots
    /\ UNCHANGED <<rows, up, unit, waiters, bounds, late>>

(* JobRepository.transition on a call that succeeds. *)
Transition(j, s, p, failed) ==
    /\ Allowed(status[j], s)
    /\ status' = [status EXCEPT ![j] = s]
    /\ progress' = [progress EXCEPT ![j] = p]
    /\ error' = [error EXCEPT ![j] = failed]
    /\ UNCHANGED <<cancelRequested, runs>>

(* context.stage, and the runner's own transition to running. *)
Stage(j, at, s, p, next) ==
    /\ HasLoop(j) /\ pc[j] = at
    /\ Transition(j, s, p, FALSE)
    /\ GoOn(j, next)
    /\ UNCHANGED <<up, unit, waiters, bounds, late>>

Begin(j) == Stage(j, "begin", "running", progress[j], "download")
Download(j) == Stage(j, "download", "downloading", 5, "next")
Validate(j) == Stage(j, "validate", "validating", 55, "run?")
Run(j) == Stage(j, "run", "running", 65, "engine")
(* Faulty variant: the result is not saved. *)
AggregateUnsaved(j) == Stage(j, "aggregate", "aggregating", 95, "done?")
Aggregate(j) == Stage(j, "aggregate", "aggregating", 95, "save")

(* A unit of work done although cancellation had been accepted before. *)
CountLate(j) ==
    late' = [late EXCEPT ![j] =
                IF cancelRequested[j] /\ @ < 2 THEN @ + 1 ELSE @]

(* ensure_range returned a valid dataset for one symbol. *)
Fetch(j) ==
    /\ HasLoop(j) /\ pc[j] = "fetch"
    /\ unit' = [unit EXCEPT ![j] = @ + 1]
    /\ GoOn(j, "report") /\ CountLate(j)
    /\ UNCHANGED <<rows, up, waiters, bounds>>

(* Faulty variant: no checkpoint between two symbols. *)
ReportUnchecked(j) ==
    /\ HasLoop(j) /\ pc[j] = "report"
    /\ Transition(j, status[j], DownloadProgress(unit[j]), FALSE)
    /\ GoOn(j, IF unit[j] < Units THEN "fetch" ELSE "validate?")
    /\ UNCHANGED <<up, unit, waiters, bounds, late>>

(* context.set_progress: the status read a moment before is written back. *)
Report(j) ==
    /\ HasLoop(j) /\ pc[j] = "report"
    /\ Transition(j, status[j], DownloadProgress(unit[j]), FALSE)
    /\ GoOn(j, IF unit[j] < Units THEN "next" ELSE "validate?")
    /\ UNCHANGED <<up, unit, waiters, bounds, late>>

(* BacktestEngine.run returned a result. *)
Engine(j) ==
    /\ HasLoop(j) /\ pc[j] = "engine"
    /\ GoOn(j, "aggregate?") /\ CountLate(j)
    /\ UNCHANGED <<rows, up, unit, waiters, bounds>>

(* BacktestRepository.save_completed: one more row in backtest_runs. *)
Save(j) ==
    /\ HasLoop(j) /\ pc[j] = "save"
    /\ runs' = [runs EXCEPT ![j] = @ + 1]
    /\ GoOn(j, "done?") /\ CountLate(j)
    /\ UNCHANGED <<status, progress, error, cancelRequested, up, unit,
                   waiters, bounds>>

Complete(j) ==
    /\ HasLoop(j) /\ pc[j] = "complete"
    /\ Transition(j, "completed", 100, FALSE)
    /\ End(j, 1)
    /\ UNCHANGED <<up, unit, waiters, bounds, late>>

(* A download fails, a dataset is invalid or too short, the engine raises. *)
WorkFails(j) ==
    /\ HasLoop(j) /\ pc[j] \in {"fetch", "run?", "engine"}
    /\ Raise(j, "failing")
    /\ UNCHANGED <<rows, up, unit, waiters, bounds, late>>

(* Faulty variant: a cancelled task just returns. *)
ReturnWhenCancelled(j) ==
    /\ HasLoop(j) /\ pc[j] = "cancelling"
    /\ End(j, 0)
    /\ UNCHANGED <<rows, up, unit, waiters, bounds, late>>

(* except JobCancelled *)
RecordCancelled(j) ==
    /\ HasLoop(j) /\ pc[j] = "cancelling"
    /\ Transition(j, "cancelled", progress[j], FALSE)
    /\ End(j, 0)
    /\ UNCHANGED <<up, unit, waiters, bounds, late>>

(* except Exception; a job that is still queued may not become failed, and *)
(* the InvalidJobTransition raised here ends the task with its row as is.  *)
RecordFailed(j) ==
    /\ HasLoop(j) /\ pc[j] = "failing"
    /\ \/ Transition(j, "failed", progress[j], TRUE)
       \/ ~Allowed(status[j], "failed") /\ UNCHANGED rows
    /\ End(j, 0)
    /\ UNCHANGED <<up, unit, waiters, bounds, late>>

(* A database call of the task raises before it commits.  Inside the       *)
(* semaphore that is one more failure; inside an except clause nothing     *)
(* catches it.                                                             *)
DbFault(j) ==
    /\ HasLoop(j) /\ faults < MaxFaults
    /\ faults' = faults + 1
    /\ \/ pc[j] \in Inside \ {"fetch", "engine"} /\ Raise(j, "failing")
       \/ pc[j] \in Handlers /\ End(j, 0)
    /\ UNCHANGED <<rows, up, unit, waiters, crashes, late>>

(* Faulty variants: cancel without the status condition; cancel that       *)
(* settles the row itself instead of asking the task.                      *)
RequestCancelOfAnyRow(j) ==
    /\ up /\ status[j] # "absent"
    /\ cancelRequested' = [cancelRequested EXCEPT ![j] = TRUE]
    /\ UNCHANGED <<status, progress, error, runs, process, bounds, late>>
CancelAtOnce(j) ==
    /\ up /\ status[j] \in Cancellable
    /\ status' = [status EXCEPT ![j] = "cancelled"]
    /\ UNCHANGED <<progress, error, cancelRequested, runs, process, bounds, late>>

(* POST /jobs/{id}/cancel on a worker thread: one conditional UPDATE. *)
RequestCancel(j) ==
    /\ up /\ status[j] \in Cancellable
    /\ cancelRequested' = [cancelRequested EXCEPT ![j] = TRUE]
    /\ UNCHANGED <<status, progress, error, runs, process, bounds, late>>

(* The process dies, or shuts down: CancelledError passes `except          *)
(* Exception`, so the tasks leave their rows as they are.                  *)
Crash ==
    /\ up /\ crashes < MaxCrashes
    /\ crashes' = crashes + 1
    /\ up' = FALSE
    /\ pc' = [j \in Jobs |-> IF pc[j] = "none" THEN "none" ELSE "gone"]
    /\ loop' = NoTask /\ slots' = MaxConcurrency /\ waiters' = <<>>
    /\ UNCHANGED <<rows, unit, faults, late>>

(* The lifespan of the next process starts with mark_interrupted_jobs. *)
Restart ==
    /\ ~up
    /\ up' = TRUE
    /\ status' = [j \in Jobs |->
                    IF status[j] \in Cancellable THEN "interrupted"
                                                 ELSE status[j]]
    /\ UNCHANGED <<progress, error, cancelRequested, runs, pc, unit, loop,
                   slots, waiters, bounds, late>>

Task(j) ==
    \/ Acquire(j) \/ Checkpoint(j)
    \/ Begin(j) \/ Download(j) \/ Fetch(j) \/ Report(j) \/ Validate(j)
    \/ Run(j) \/ Engine(j) \/ Aggregate(j) \/ Save(j) \/ Complete(j)
    \/ WorkFails(j) \/ RecordCancelled(j) \/ RecordFailed(j)

Next ==
    \/ \E j \in Jobs : Submit(j) \/ Task(j) \/ DbFault(j) \/ RequestCancel(j)
    \/ Crash \/ Restart

Spec == Init /\ [][Next]_vars

(* The loop runs every ready task (asyncio's ready queue is FIFO), and the *)
(* container's restart policy starts a process that died.                  *)
FairSpec == Spec /\ WF_vars(Restart) /\ \A j \in Jobs : WF_vars(Task(j))
-----------------------------------------------------------------------------
(* Type invariant. *)
TypeOK ==
    /\ status \in [Jobs -> Statuses]
    /\ progress \in [Jobs -> 0..100]
    /\ error \in [Jobs -> BOOLEAN]
    /\ cancelRequested \in [Jobs -> BOOLEAN]
    /\ runs \in [Jobs -> Nat]
    /\ up \in BOOLEAN
    /\ pc \in [Jobs -> Labels]
    /\ unit \in [Jobs -> 0..Units]
    /\ loop \in Jobs \cup {NoTask}
    /\ slots \in 0..MaxConcurrency
    /\ waiters \in Seq(Jobs)
    /\ crashes \in 0..MaxCrashes
    /\ faults \in 0..MaxFaults
    /\ late \in [Jobs -> 0..2]

InsideTasks == {j \in Jobs : pc[j] \in Inside}

(* The semaphore neither leaks nor invents a slot on any of the paths out  *)
(* of `async with` (return, cancellation, failure), so that never more     *)
(* than MaxConcurrency jobs work at once (jobs/runner.py:74).              *)
SlotsConserved == slots + Cardinality(InsideTasks) = MaxConcurrency

(* A completed job processed every symbol and has exactly one result, no   *)
(* job has two, and no job that never aggregated has one: what the list of *)
(* runs shows is never partial (backtest/service.py:112-119).              *)
ResultsAreWhole ==
    \A j \in Jobs :
        /\ runs[j] <= 1
        /\ status[j] = "completed" => runs[j] = 1 /\ ~error[j]
        /\ runs[j] = 1 => unit[j] = Units /\ status[j] \in Terminal \cup {"aggregating"}

(* What JobRunner is about to write is always a legal transition, so that  *)
(* a task never dies of InvalidJobTransition, with one exception: a job    *)
(* whose first checkpoint or first transition failed is still queued.      *)
Target(j) ==
    CASE pc[j] \in {"begin", "run"} -> "running"
      [] pc[j] = "download" -> "downloading"
      [] pc[j] = "validate" -> "validating"
      [] pc[j] = "aggregate" -> "aggregating"
      [] pc[j] = "complete" -> "completed"
      [] pc[j] = "cancelling" -> "cancelled"
      [] pc[j] = "failing" -> "failed"
      [] OTHER -> status[j]

TransitionsAccepted ==
    \A j \in Jobs :
        \/ Allowed(status[j], Target(j))
        \/ pc[j] = "failing" /\ status[j] = "queued" /\ faults > 0

(* A row no task will touch again is settled, unless a database call       *)
(* failed under it or the process is down (jobs/runner.py:81-84).          *)
NoOrphans ==
    \A j \in Jobs :
        up /\ faults = 0 /\ status[j] \in Cancellable => pc[j] \notin {"none", "gone"}

(* Once cancellation is accepted at most one more unit (one symbol's       *)
(* download, one engine run or one save) is done (jobs/runner.py:26-29).   *)
CancelStopsWork == \A j \in Jobs : late[j] <= 1

(* A settled row never changes again: not by a late cancel, by its task or *)
(* by mark_interrupted_jobs (jobs/repository.py:93-110,118-126,136-138).   *)
SettledRowsFrozen ==
    [][\A j \in Jobs :
         status[j] \in Terminal =>
           /\ status'[j] = status[j]
           /\ progress'[j] = progress[j] /\ error'[j] = error[j]
           /\ cancelRequested'[j] = cancelRequested[j] /\ runs'[j] = runs[j]]_vars

-----------------------------------------------------------------------------
(* What an administrator sees of it. *)
Phase(s) == CASE s \in Active -> "active" [] OTHER -> s

Lifecycle == INSTANCE JobLifecycle WITH
    phase <- [j \in Jobs |-> Phase(status[j])],
    asked <- cancelRequested,
    published <- [j \in Jobs |-> runs[j] > 0]

(* The rows evolve as JobLifecycle allows, and without database failures   *)
(* every submitted job settles.                                            *)
Implements == Lifecycle!Spec
=============================================================================
