--------------------------- MODULE JobRunnerProofs --------------------------
(***************************************************************************)
(* Proofs about JobRunner for every set of jobs, semaphore size, number of *)
(* symbols, crashes and database faults.  IInv is inductive; the safety    *)
(* properties follow from it.                                              *)
(***************************************************************************)
EXTENDS JobRunner, FiniteSetTheorems, SequenceTheorems, TLAPS

USE JobRunnerAssumption

-----------------------------------------------------------------------------
(* What the semaphore's queue, the labels and the rows have to do with     *)
(* each other; inductive together with TypeOK and SlotsConserved, and the  *)
(* reason why TransitionsAccepted, CancelStopsWork and SettledRowsFrozen   *)
(* hold.                                                                   *)
NotFetchedAll == {"none", "waiting", "start", "begin", "download", "next", "fetch"}
BeforeWork == {"none", "waiting", "start", "begin", "download", "fetch",
               "validate", "run", "engine", "aggregate", "save", "complete"}

WaitersDistinct ==
    /\ \A i \in 1..Len(waiters) : pc[waiters[i]] = "waiting"
    /\ \A i, k \in 1..Len(waiters) : waiters[i] = waiters[k] => i = k

RowFitsLabel(j) ==
    /\ status[j] = "absent" <=> pc[j] = "none"
    /\ pc[j] \in {"waiting", "start", "begin"} => status[j] = "queued"
    /\ pc[j] \in Inside \ {"start", "begin"} => status[j] \in Active
    /\ pc[j] \in Handlers => status[j] \in Cancellable
    /\ pc[j] = "failing" /\ status[j] = "queued" => faults > 0
    /\ ~up => pc[j] \in {"none", "gone"}

WorkFitsLabel(j) ==
    /\ pc[j] \in NotFetchedAll => unit[j] < Units
    /\ pc[j] \in BeforeWork => late[j] = 0
    /\ late[j] > 0 => late[j] = 1 /\ cancelRequested[j]

IInv ==
    /\ TypeOK
    /\ SlotsConserved
    /\ WaitersDistinct
    /\ \A j \in Jobs : RowFitsLabel(j) /\ WorkFitsLabel(j)

(* Which labels know that every symbol was fetched or that the result was  *)
(* saved, and what a task leaves behind when it ends; inductive given IInv *)
(* and the reason why ResultsAreWhole, NoOrphans and the safety half of    *)
(* Implements hold.                                                        *)
FetchedAll == {"validate?", "validate", "run?", "run", "engine",
               "aggregate?", "aggregate", "save", "done?", "complete"}

ResultFits(j) ==
    /\ runs[j] \in {0, 1}
    /\ pc[j] \in FetchedAll => unit[j] = Units
    /\ pc[j] = "save" => status[j] = "aggregating"
    /\ pc[j] \in {"done?", "complete"} => runs[j] = 1
    /\ runs[j] = 1 =>
         /\ pc[j] \in {"done?", "complete", "gone"} \cup Handlers
         /\ unit[j] = Units /\ status[j] \in Terminal \cup {"aggregating"}
    /\ status[j] = "completed" => runs[j] = 1 /\ ~error[j]

TaskAnswers(j) ==
    /\ pc[j] = "cancelling" => cancelRequested[j]
    /\ up /\ faults = 0 /\ status[j] \in Cancellable => pc[j] # "gone"

ResultInv == \A j \in Jobs : ResultFits(j) /\ TaskAnswers(j)

-----------------------------------------------------------------------------
(* The slots held, as the labels of the tasks change. *)

(* The tasks inside the semaphore are finitely many. *)
LEMMA InsideFinite == IsFiniteSet(InsideTasks)
  BY FS_Subset DEF InsideTasks

(* A task that neither enters nor leaves keeps the number of slots.        *)
LEMMA StaySlots ==
  ASSUME SlotsConserved, slots' = slots,
         \A k \in Jobs : pc[k] \in Inside <=> pc'[k] \in Inside
  PROVE  SlotsConserved'
  <1>1. InsideTasks' = InsideTasks
    BY DEF InsideTasks
  <1> QED
    BY <1>1 DEF SlotsConserved

(* A task that leaves `async with` gives its slot back. *)
LEMMA LeaveSlots ==
  ASSUME SlotsConserved, slots \in Nat, slots' = slots + 1,
         NEW j \in Jobs, pc[j] \in Inside, pc'[j] \notin Inside,
         \A k \in Jobs \ {j} : pc'[k] = pc[k]
  PROVE  SlotsConserved' /\ slots' \in 0..MaxConcurrency
  <1>1. InsideTasks' = InsideTasks \ {j} /\ j \in InsideTasks
    BY DEF InsideTasks
  <1>2. Cardinality(InsideTasks') = Cardinality(InsideTasks) - 1
    BY <1>1, InsideFinite, FS_RemoveElement
  <1>3. IsFiniteSet(InsideTasks')
    BY <1>1, InsideFinite, FS_RemoveElement
  <1>4. Cardinality(InsideTasks') \in Nat /\ Cardinality(InsideTasks) \in Nat
    BY <1>3, InsideFinite, FS_CardinalityType
  <1> QED
    BY <1>2, <1>4 DEF SlotsConserved

(* A task that enters takes a slot that was free. *)
LEMMA EnterSlots ==
  ASSUME SlotsConserved, slots \in Nat, slots > 0, slots' = slots - 1,
         NEW j \in Jobs, pc[j] \notin Inside, pc'[j] \in Inside,
         \A k \in Jobs \ {j} : pc'[k] = pc[k]
  PROVE  SlotsConserved'
  <1>1. InsideTasks' = InsideTasks \cup {j} /\ j \notin InsideTasks
    BY DEF InsideTasks
  <1>2. Cardinality(InsideTasks') = Cardinality(InsideTasks) + 1
    BY <1>1, InsideFinite, FS_AddElement
  <1>3. Cardinality(InsideTasks) \in Nat
    BY InsideFinite, FS_CardinalityType
  <1> QED
    BY <1>2, <1>3 DEF SlotsConserved

(* Initially no slot is taken. *)
LEMMA InitSlots == Init => SlotsConserved
  <1> SUFFICES ASSUME Init PROVE SlotsConserved
    OBVIOUS
  <1>1. InsideTasks = {}
    BY DEF Init, InsideTasks, Inside, Checkpoints, Working
  <1> QED
    BY <1>1, FS_EmptySet DEF SlotsConserved, Init

(* After a crash every slot is free again. *)
LEMMA CrashSlots == Crash => SlotsConserved'
  <1> SUFFICES ASSUME Crash PROVE SlotsConserved'
    OBVIOUS
  <1>1. InsideTasks' = {}
    BY DEF Crash, InsideTasks, Inside, Checkpoints, Working
  <1> QED
    BY <1>1, FS_EmptySet DEF SlotsConserved, Crash
-----------------------------------------------------------------------------
(* One lemma per way a task moves; each gives the whole invariant back.     *)

(* Abbreviation: the parts of IInv about a single job, for every job.       *)
JobsOK == \A j \in Jobs : RowFitsLabel(j) /\ WorkFitsLabel(j)

(* No task has started: everything holds. *)
LEMMA InitInv == Init => IInv
  <1> SUFFICES ASSUME Init PROVE IInv
    OBVIOUS
  <1>1. TypeOK
    BY DEF Init, TypeOK, Statuses, Cancellable, Active, Terminal, Labels
  <1>2. WaitersDistinct
    BY DEF Init, WaitersDistinct
  <1>3. JobsOK
    BY DEF Init, JobsOK, RowFitsLabel, WorkFitsLabel, Inside, Checkpoints,
           Working, Handlers
  <1> QED
    BY <1>1, <1>2, <1>3, InitSlots DEF IInv, JobsOK

(* The queue of the semaphore is untouched while no waiter moves. *)
LEMMA KeepWaiters ==
  ASSUME WaitersDistinct, UNCHANGED waiters,
         \A k \in Jobs : pc[k] = "waiting" => pc'[k] = "waiting", TypeOK
  PROVE  WaitersDistinct'
  BY ElementOfSeq DEF WaitersDistinct, TypeOK

(* A new task has a queued row and waits for the semaphore. *)
LEMMA SubmitInv ==
  ASSUME IInv, NEW j \in Jobs, Submit(j)
  PROVE  IInv'
  <1> USE DEF IInv
  <1>1. TypeOK'
    <2>1. waiters' \in Seq(Jobs)
      BY AppendProperties DEF Submit, TypeOK
    <2> QED
      BY <2>1 DEF Submit, TypeOK, rows, bounds, Statuses, Cancellable, Labels
  <1>2. SlotsConserved'
    <2>1. pc[j] = "none"
      BY DEF Submit, RowFitsLabel
    <2> QED
      BY <2>1, StaySlots DEF Submit, TypeOK, Inside, Checkpoints, Working
  <1>3. WaitersDistinct'
    <2>1. pc[j] = "none"
      BY DEF Submit, RowFitsLabel
    <2>2. waiters \in Seq(Jobs) /\ waiters' = Append(waiters, j)
      BY DEF Submit, TypeOK
    <2>3. \A i \in 1..Len(waiters) : waiters[i] \in Jobs /\ waiters[i] # j
      BY <2>1, <2>2, ElementOfSeq DEF WaitersDistinct
    <2>4. /\ Len(waiters') = Len(waiters) + 1
          /\ waiters'[Len(waiters) + 1] = j
          /\ \A i \in 1..Len(waiters) : waiters'[i] = waiters[i]
          /\ Len(waiters) \in Nat
      BY <2>2, AppendProperties, LenProperties
    <2>5. \A i \in 1..Len(waiters') : pc'[waiters'[i]] = "waiting"
      <3>1. pc'[j] = "waiting" /\ \A k \in Jobs \ {j} : pc'[k] = pc[k]
        BY DEF Submit, TypeOK
      <3>2. \A i \in 1..Len(waiters) : pc'[waiters[i]] = "waiting"
        BY <2>3, <3>1 DEF WaitersDistinct
      <3> QED
        BY <2>4, <3>1, <3>2
    <2>6. \A i, k \in 1..Len(waiters') : waiters'[i] = waiters'[k] => i = k
      BY <2>3, <2>4 DEF WaitersDistinct
    <2> QED
      BY <2>5, <2>6 DEF WaitersDistinct
  <1>4. JobsOK'
    BY DEF Submit, JobsOK, RowFitsLabel, WorkFitsLabel, TypeOK, Inside, Checkpoints,
           Working, Handlers, NotFetchedAll, BeforeWork, Active, Cancellable, bounds
  <1> QED
    BY <1>1, <1>2, <1>3, <1>4 DEF JobsOK

(* The first waiter enters when a slot is free. *)
LEMMA AcquireInv ==
  ASSUME IInv, NEW j \in Jobs, Acquire(j)
  PROVE  IInv'
  <1> USE DEF IInv
  <1>1. /\ waiters \in Seq(Jobs) /\ waiters # <<>>
        /\ waiters[1] = j /\ Len(waiters) \in Nat /\ Len(waiters) > 0
        /\ waiters' \in Seq(Jobs) /\ Len(waiters') = Len(waiters) - 1
        /\ \A i \in 1..Len(waiters') : waiters'[i] = waiters[i + 1]
    BY HeadTailProperties, EmptySeq, LenProperties DEF Acquire, TypeOK
  <1>2. pc[j] = "waiting"
    BY <1>1 DEF WaitersDistinct
  <1>3. TypeOK'
    BY <1>1 DEF Acquire, TypeOK, rows, bounds, Labels, Inside, Checkpoints
  <1>4. SlotsConserved'
    <2>1. slots \in Nat /\ slots > 0 /\ slots' = slots - 1
      BY DEF Acquire, TypeOK
    <2>2. pc'[j] = "start" /\ \A k \in Jobs \ {j} : pc'[k] = pc[k]
      BY DEF Acquire, TypeOK
    <2>3. pc[j] \notin Inside /\ pc'[j] \in Inside
      BY <1>2, <2>2 DEF Inside, Checkpoints, Working
    <2> QED
      BY <2>1, <2>2, <2>3, EnterSlots
  <1>5. WaitersDistinct'
    <2>1. \A i \in 1..Len(waiters') : waiters[i + 1] # j /\ waiters[i + 1] \in Jobs
      BY <1>1, ElementOfSeq DEF WaitersDistinct
    <2>2. \A i \in 1..Len(waiters') : pc'[waiters'[i]] = "waiting"
      BY <1>1, <2>1 DEF Acquire, WaitersDistinct, TypeOK
    <2>3. \A i, k \in 1..Len(waiters') : waiters'[i] = waiters'[k] => i = k
      BY <1>1 DEF WaitersDistinct
    <2> QED
      BY <2>2, <2>3 DEF WaitersDistinct
  <1>6. JobsOK'
    BY <1>2 DEF Acquire, JobsOK, RowFitsLabel, WorkFitsLabel, TypeOK, Inside,
           Checkpoints, Working, Handlers, NotFetchedAll, BeforeWork, Active,
           Cancellable, bounds, rows
  <1> QED
    BY <1>3, <1>4, <1>5, <1>6 DEF JobsOK

(* A step of task j that is neither Submit nor Acquire: the queue and the  *)
(* other jobs are not concerned, and the slots follow j's label.           *)
LEMMA TaskStepInv ==
  ASSUME IInv, NEW j \in Jobs,
         pc[j] \in Inside \cup Handlers,
         pc'[j] \in Inside \cup Handlers \cup {"gone"},
         \/ pc[j] \in Inside /\ pc'[j] \in Inside /\ slots' = slots
         \/ pc[j] \in Inside /\ pc'[j] \notin Inside /\ slots' = slots + 1
         \/ pc[j] \notin Inside /\ pc'[j] \notin Inside /\ slots' = slots,
         \A k \in Jobs \ {j} :
            /\ pc'[k] = pc[k] /\ status'[k] = status[k] /\ unit'[k] = unit[k]
            /\ late'[k] = late[k] /\ cancelRequested'[k] = cancelRequested[k],
         UNCHANGED <<waiters, up>>, faults' \in Nat, faults' >= faults,
         slots' \in 0..MaxConcurrency => TypeOK',
         RowFitsLabel(j)', WorkFitsLabel(j)'
  PROVE  IInv'
  <1> USE DEF IInv
  <1>1. SlotsConserved' /\ slots' \in 0..MaxConcurrency
    <2>1. slots \in Nat /\ slots \in 0..MaxConcurrency
      BY DEF TypeOK
    <2>2. CASE pc[j] \in Inside /\ pc'[j] \notin Inside /\ slots' = slots + 1
      BY <2>1, <2>2, LeaveSlots
    <2>3. CASE slots' = slots /\ (pc[j] \in Inside <=> pc'[j] \in Inside)
      <3>1. \A k \in Jobs : pc[k] \in Inside <=> pc'[k] \in Inside
        BY <2>3
      <3> QED
        BY <2>1, <2>3, <3>1, StaySlots
    <2> QED
      BY <2>2, <2>3
  <1>2. WaitersDistinct'
    <2>1. pc[j] # "waiting"
      BY DEF Inside, Checkpoints, Working, Handlers
    <2>2. \A k \in Jobs : pc[k] = "waiting" => pc'[k] = "waiting"
      BY <2>1
    <2> QED
      BY <2>2, KeepWaiters
  <1>3. ASSUME NEW k \in Jobs \ {j} PROVE (RowFitsLabel(k) /\ WorkFitsLabel(k))'
    BY <1>3 DEF RowFitsLabel, WorkFitsLabel, TypeOK
  <1> QED
    BY <1>1, <1>2, <1>3

(* A checkpoint leads to a label of Working that fits what was checked.    *)
LEMMA ResumeFits ==
  ASSUME NEW l \in Checkpoints
  PROVE  /\ Resume(l) \in Working
         /\ Resume(l) = "begin" <=> l = "start"
         /\ Resume(l) \in NotFetchedAll => l \in NotFetchedAll
  BY DEF Checkpoints, Working, Resume, NotFetchedAll

(* A checkpoint goes on with the work or sees the cancellation. *)
LEMMA CheckpointInv ==
  ASSUME IInv, NEW j \in Jobs, Checkpoint(j)
  PROVE  IInv'
  <1> USE DEF IInv
  <1>1. pc[j] \in Checkpoints /\ pc[j] \in Inside /\ pc \in [Jobs -> Labels]
    BY DEF Inside, Checkpoint, TypeOK
  <1>2. /\ UNCHANGED <<status, progress, error, cancelRequested, runs, up, unit,
                       waiters, crashes, faults, late>>
        /\ loop' \in Jobs \cup {NoTask}
        /\ \A k \in Jobs \ {j} : pc'[k] = pc[k]
        /\ faults' \in Nat /\ faults' >= faults
    BY DEF Checkpoint, rows, bounds, Raise, TypeOK
  <1>3. RowFitsLabel(j) /\ WorkFitsLabel(j)
    OBVIOUS
  <1>4. CASE cancelRequested[j]
    <2>1. pc' = [pc EXCEPT ![j] = "cancelling"] /\ slots' = slots + 1
      BY <1>4 DEF Checkpoint, Raise
    <2>2. "cancelling" \in Labels /\ "cancelling" \notin Inside /\ "cancelling" \in Handlers
      BY DEF Labels, Handlers, Inside, Checkpoints, Working
    <2>3. pc'[j] = "cancelling" /\ pc' \in [Jobs -> Labels]
      BY <1>1, <2>1, <2>2
    <2>4. slots' \in 0..MaxConcurrency => TypeOK'
      BY <1>2, <2>3 DEF TypeOK
    <2>5. RowFitsLabel(j)'
      BY <1>1, <1>2, <1>3, <2>3 DEF RowFitsLabel, Inside, Checkpoints, Working, Handlers,
         Cancellable, Active
    <2>6. WorkFitsLabel(j)'
      BY <1>2, <1>3, <2>3 DEF WorkFitsLabel, NotFetchedAll, BeforeWork
    <2> QED
      BY <1>1, <1>2, <2>1, <2>2, <2>3, <2>4, <2>5, <2>6, TaskStepInv
  <1>5. CASE ~cancelRequested[j]
    <2>1. pc' = [pc EXCEPT ![j] = Resume(pc[j])] /\ slots' = slots
      BY <1>5 DEF Checkpoint
    <2>2. Working \subseteq Labels /\ Working \subseteq Inside
      BY DEF Labels, Inside
    <2>3. pc'[j] = Resume(pc[j]) /\ pc'[j] \in Working /\ pc' \in [Jobs -> Labels]
      BY <1>1, <2>1, <2>2, ResumeFits
    <2>4. slots' \in 0..MaxConcurrency => TypeOK'
      BY <1>2, <2>3 DEF TypeOK
    <2>5. RowFitsLabel(j)'
      <3>1. CASE pc[j] = "start"
        <4>1. pc'[j] = "begin"
          BY <1>1, <2>3, <3>1, ResumeFits
        <4> QED
          BY <1>2, <1>3, <3>1, <4>1 DEF RowFitsLabel, Inside, Checkpoints, Working, Handlers
      <3>2. CASE pc[j] # "start"
        <4>1. pc'[j] \in Working \ {"begin"}
          BY <1>1, <2>3, <3>2, ResumeFits
        <4>2. status[j] \in Active
          BY <1>1, <1>3, <3>2 DEF RowFitsLabel, Checkpoints
        <4> QED
          BY <1>1, <1>2, <1>3, <4>1, <4>2 DEF RowFitsLabel, Inside, Checkpoints, Working,
             Handlers, Active
      <3> QED
        BY <3>1, <3>2
    <2>6. WorkFitsLabel(j)'
      <3>1. late[j] = 0
        BY <1>3, <1>5 DEF WorkFitsLabel, TypeOK
      <3> QED
        BY <1>1, <1>2, <1>3, <2>3, <3>1, ResumeFits DEF WorkFitsLabel
    <2> QED
      BY <1>1, <1>2, <2>1, <2>2, <2>3, <2>4, <2>5, <2>6, TaskStepInv
  <1> QED
    BY <1>4, <1>5

(* What transition writes when it is one of the active statuses. *)
LEMMA StageInv ==
  ASSUME IInv, NEW j \in Jobs, NEW at, NEW s \in Active, NEW p \in 0..100, NEW next,
         Stage(j, at, s, p, next),
         at \in Inside, late[j] = 0 \/ next \notin BeforeWork,
         next \in Inside \ {"start", "begin"},
         next \in NotFetchedAll => unit[j] < Units
  PROVE  IInv'
  <1> USE DEF IInv
  <1>1. /\ pc \in [Jobs -> Labels] /\ status \in [Jobs -> Statuses]
        /\ pc[j] = at /\ pc' = [pc EXCEPT ![j] = next]
        /\ status' = [status EXCEPT ![j] = s] /\ slots' = slots
        /\ progress' = [progress EXCEPT ![j] = p] /\ error' = [error EXCEPT ![j] = FALSE]
        /\ UNCHANGED <<cancelRequested, runs, up, unit, waiters, crashes, faults, late>>
        /\ loop' = j
    BY DEF Stage, Transition, GoOn, TypeOK, bounds
  <1>2. next \in Labels /\ s \in Statuses
    BY DEF Labels, Statuses, Cancellable
  <1>3. /\ pc'[j] = next /\ status'[j] = s
        /\ \A k \in Jobs \ {j} : pc'[k] = pc[k] /\ status'[k] = status[k]
        /\ faults' \in Nat /\ faults' >= faults
    BY <1>1 DEF TypeOK
  <1>4. TypeOK'
    BY <1>1, <1>2 DEF TypeOK
  <1>5. RowFitsLabel(j)'
    <2>1. RowFitsLabel(j)
      OBVIOUS
    <2> QED
      BY <1>1, <1>3, <2>1 DEF RowFitsLabel, Inside, Checkpoints, Working, Handlers, Active
  <1>6. WorkFitsLabel(j)'
    BY <1>1, <1>3 DEF WorkFitsLabel
  <1> QED
    BY <1>1, <1>3, <1>4, <1>5, <1>6, TaskStepInv

(* The progress of a download is a percentage. *)
LEMMA DownloadProgressType ==
  ASSUME NEW u \in 0..Units PROVE DownloadProgress(u) \in 0..100
  <1>1. Units \in Nat /\ Units > 0 /\ 45 * u \in Nat
    OBVIOUS
  <1> DEFINE q == (45 * u) \div Units
  <1>2. q \in Int /\ Units * q <= 45 * u /\ 45 * u < Units * q + Units
    BY <1>1
  <1>3. 45 * u <= 45 * Units
    BY <1>1
  <1>4. q >= 0 /\ q <= 45
    BY <1>1, <1>2, <1>3
  <1> QED
    BY <1>2, <1>4 DEF DownloadProgress

(* The stages between the checkpoints. *)
LEMMA StagesInv ==
  ASSUME IInv, NEW j \in Jobs,
         Begin(j) \/ Download(j) \/ Validate(j) \/ Run(j) \/ Aggregate(j) \/ Report(j)
  PROVE  IInv'
  <1>1. /\ WorkFitsLabel(j) /\ RowFitsLabel(j)
        /\ progress[j] \in 0..100 /\ unit[j] \in 0..Units
    BY DEF IInv, TypeOK
  <1>2. CASE Begin(j)
    <2>1. Stage(j, "begin", "running", progress[j], "download")
      BY <1>2 DEF Begin
    <2>2. /\ "begin" \in Inside /\ "download" \in Inside \ {"start", "begin"}
          /\ "running" \in Active /\ pc[j] = "begin" /\ progress[j] \in 0..100
      BY <1>1, <2>1 DEF Stage, Inside, Working, Checkpoints, Active
    <2>3. late[j] = 0 /\ ("download" \in NotFetchedAll => unit[j] < Units)
      BY <1>1, <2>2 DEF WorkFitsLabel, NotFetchedAll, BeforeWork
    <2> QED
      BY <2>1, <2>2, <2>3, StageInv
  <1>3. CASE Download(j)
    <2>1. Stage(j, "download", "downloading", 5, "next")
      BY <1>3 DEF Download
    <2>2. /\ "download" \in Inside /\ "next" \in Inside \ {"start", "begin"}
          /\ "downloading" \in Active /\ pc[j] = "download" /\ 5 \in 0..100
      BY <1>1, <2>1 DEF Stage, Inside, Working, Checkpoints, Active
    <2>3. late[j] = 0 /\ ("next" \in NotFetchedAll => unit[j] < Units)
      BY <1>1, <2>2 DEF WorkFitsLabel, NotFetchedAll, BeforeWork
    <2> QED
      BY <2>1, <2>2, <2>3, StageInv
  <1>4. CASE Validate(j)
    <2>1. Stage(j, "validate", "validating", 55, "run?")
      BY <1>4 DEF Validate
    <2>2. /\ "validate" \in Inside /\ "run?" \in Inside \ {"start", "begin"}
          /\ "validating" \in Active /\ pc[j] = "validate" /\ 55 \in 0..100
      BY <1>1, <2>1 DEF Stage, Inside, Working, Checkpoints, Active
    <2>3. late[j] = 0 /\ ("run?" \in NotFetchedAll => unit[j] < Units)
      BY <1>1, <2>2 DEF WorkFitsLabel, NotFetchedAll, BeforeWork
    <2> QED
      BY <2>1, <2>2, <2>3, StageInv
  <1>5. CASE Run(j)
    <2>1. Stage(j, "run", "running", 65, "engine")
      BY <1>5 DEF Run
    <2>2. /\ "run" \in Inside /\ "engine" \in Inside \ {"start", "begin"}
          /\ "running" \in Active /\ pc[j] = "run" /\ 65 \in 0..100
      BY <1>1, <2>1 DEF Stage, Inside, Working, Checkpoints, Active
    <2>3. late[j] = 0 /\ ("engine" \in NotFetchedAll => unit[j] < Units)
      BY <1>1, <2>2 DEF WorkFitsLabel, NotFetchedAll, BeforeWork
    <2> QED
      BY <2>1, <2>2, <2>3, StageInv
  <1>6. CASE Aggregate(j)
    <2>1. Stage(j, "aggregate", "aggregating", 95, "save")
      BY <1>6 DEF Aggregate
    <2>2. /\ "aggregate" \in Inside /\ "save" \in Inside \ {"start", "begin"}
          /\ "aggregating" \in Active /\ pc[j] = "aggregate" /\ 95 \in 0..100
      BY <1>1, <2>1 DEF Stage, Inside, Working, Checkpoints, Active
    <2>3. late[j] = 0 /\ ("save" \in NotFetchedAll => unit[j] < Units)
      BY <1>1, <2>2 DEF WorkFitsLabel, NotFetchedAll, BeforeWork
    <2> QED
      BY <2>1, <2>2, <2>3, StageInv
  <1>7. CASE Report(j)
    <2> DEFINE next == IF unit[j] < Units THEN "next" ELSE "validate?"
    <2>1. status[j] \in Active
      BY <1>1, <1>7 DEF Report, RowFitsLabel, Inside, Working
    <2>2. Stage(j, "report", status[j], DownloadProgress(unit[j]), next)
      BY <1>7 DEF Report, Stage
    <2>3. next \in Inside \ {"start", "begin"} /\ next \notin BeforeWork
      BY DEF Inside, Checkpoints, BeforeWork
    <2>4. next \in NotFetchedAll => unit[j] < Units
      BY DEF NotFetchedAll
    <2>5. DownloadProgress(unit[j]) \in 0..100
      BY <1>1, DownloadProgressType
    <2>6. "report" \in Inside
      BY DEF Inside, Working
    <2> HIDE DEF next
    <2> QED
      BY <2>1, <2>2, <2>3, <2>4, <2>5, <2>6, StageInv
  <1> QED
    BY <1>2, <1>3, <1>4, <1>5, <1>6, <1>7

(* A unit of work: the label moves on inside the semaphore, the row's      *)
(* status stays, and a unit done after a cancellation is counted.          *)
LEMMA WorkInv ==
  ASSUME IInv, NEW j \in Jobs, Fetch(j) \/ Engine(j) \/ Save(j)
  PROVE  IInv'
  <1> USE DEF IInv
  <1>1. pc[j] \in {"fetch", "engine", "save"} /\ pc[j] \in Inside
    BY DEF Fetch, Engine, Save, Inside, Working
  <1>2. late[j] = 0 /\ (pc[j] = "fetch" => unit[j] < Units)
    BY <1>1 DEF WorkFitsLabel, BeforeWork, NotFetchedAll
  <1>3. PICK l \in {"report", "aggregate?", "done?"} :
           pc' = [pc EXCEPT ![j] = l] /\ slots' = slots /\ loop' = j
    BY DEF Fetch, Engine, Save, GoOn
  <1>4. l \in Inside /\ l \in Labels
    BY DEF Inside, Labels, Checkpoints, Working
  <1>5. /\ pc \in [Jobs -> Labels] /\ pc'[j] = l /\ pc' \in [Jobs -> Labels]
        /\ \A k \in Jobs \ {j} : pc'[k] = pc[k]
    BY <1>3, <1>4 DEF TypeOK
  <1>6. /\ UNCHANGED <<status, progress, error, cancelRequested, up, waiters,
                       crashes, faults>>
        /\ runs' \in [Jobs -> Nat] /\ unit' \in [Jobs -> 0..Units]
        /\ \A k \in Jobs \ {j} : unit'[k] = unit[k]
        /\ faults' \in Nat /\ faults' >= faults
    <2>1. CASE Fetch(j)
      BY <1>1, <1>2, <2>1 DEF Fetch, TypeOK, rows, bounds
    <2>2. CASE Engine(j)
      BY <2>2 DEF Engine, TypeOK, rows, bounds
    <2>3. CASE Save(j)
      BY <2>3 DEF Save, TypeOK, bounds
    <2> QED
      BY <2>1, <2>2, <2>3
  <1>7. /\ late' \in [Jobs -> 0..2]
        /\ late'[j] = IF cancelRequested[j] THEN 1 ELSE 0
        /\ \A k \in Jobs \ {j} : late'[k] = late[k]
    <2>1. CountLate(j) /\ late \in [Jobs -> 0..2]
      BY DEF Fetch, Engine, Save, TypeOK
    <2>2. late' = [late EXCEPT ![j] = IF cancelRequested[j] THEN 1 ELSE 0]
      BY <1>2, <2>1 DEF CountLate
    <2> QED
      BY <2>1, <2>2
  <1>8. TypeOK'
    BY <1>3, <1>5, <1>6, <1>7 DEF TypeOK
  <1>9. RowFitsLabel(j)'
    <2>1. status[j] \in Active /\ RowFitsLabel(j)
      BY <1>1 DEF RowFitsLabel, Inside
    <2> QED
      BY <1>1, <1>3, <1>4, <1>5, <1>6, <2>1 DEF RowFitsLabel, Inside, Checkpoints, Working,
         Handlers, Active
  <1>10. WorkFitsLabel(j)'
    BY <1>3, <1>5, <1>6, <1>7 DEF WorkFitsLabel, NotFetchedAll, BeforeWork
  <1> QED
    BY <1>1, <1>3, <1>4, <1>5, <1>6, <1>7, <1>8, <1>9, <1>10, TaskStepInv

(* An exception leaves the semaphore for the except clause that fails the  *)
(* job; only a database fault can do that before the job is running.       *)
LEMMA RaiseInv ==
  ASSUME IInv, NEW j \in Jobs, pc[j] \in Inside, Raise(j, "failing"),
         UNCHANGED <<rows, up, unit, waiters, crashes, late>>,
         \/ faults' = faults /\ pc[j] \in {"fetch", "run?", "engine"}
         \/ faults' = faults + 1 /\ faults < MaxFaults
  PROVE  IInv'
  <1> USE DEF IInv
  <1>1. "failing" \in Labels /\ "failing" \in Handlers /\ "failing" \notin Inside
    BY DEF Labels, Handlers, Inside, Checkpoints, Working
  <1>2. /\ pc \in [Jobs -> Labels] /\ pc' \in [Jobs -> Labels] /\ pc'[j] = "failing"
        /\ \A k \in Jobs \ {j} : pc'[k] = pc[k]
        /\ slots' = slots + 1 /\ loop' = j
    BY <1>1 DEF Raise, TypeOK
  <1>3. /\ UNCHANGED <<status, progress, error, cancelRequested, runs>>
        /\ faults' \in 0..MaxFaults /\ faults' >= faults /\ faults' \in Nat
    BY DEF rows, TypeOK
  <1>4. slots' \in 0..MaxConcurrency => TypeOK'
    BY <1>2, <1>3 DEF TypeOK
  <1>5. RowFitsLabel(j)'
    <2>1. RowFitsLabel(j)
      OBVIOUS
    <2>2. status[j] \in Cancellable
      BY <2>1 DEF RowFitsLabel, Cancellable
    <2>3. status[j] = "queued" => faults' > 0
      BY <2>1, <1>3 DEF RowFitsLabel, Inside, Working, Checkpoints, Active, TypeOK
    <2>4. up /\ status[j] # "absent"
      BY <2>1, <2>2 DEF RowFitsLabel, Inside, Working, Checkpoints, Cancellable, Active
    <2>5. pc'[j] = "failing" /\ UNCHANGED <<up, status>>
      BY <1>2, <1>3
    <2> QED
      BY <1>1, <2>2, <2>3, <2>4, <2>5 DEF RowFitsLabel
  <1>6. WorkFitsLabel(j)'
    BY <1>2, <1>3 DEF WorkFitsLabel, NotFetchedAll, BeforeWork
  <1> QED
    BY <1>1, <1>2, <1>3, <1>4, <1>5, <1>6, TaskStepInv

(* The last step of a task writes a terminal status, or nothing when that  *)
(* write is refused or fails.                                              *)
RowEnds(j) ==
    /\ status' \in [Jobs -> Statuses] /\ progress' \in [Jobs -> 0..100]
    /\ error' \in [Jobs -> BOOLEAN]
    /\ \A k \in Jobs \ {j} : status'[k] = status[k]
    /\ status'[j] \in Terminal \cup {status[j]}

LEMMA EndRow ==
  ASSUME TypeOK, NEW j \in Jobs,
         \/ UNCHANGED <<status, progress, error>>
         \/ \E s \in Terminal, p \in 0..100, e \in BOOLEAN :
               /\ status' = [status EXCEPT ![j] = s]
               /\ progress' = [progress EXCEPT ![j] = p]
               /\ error' = [error EXCEPT ![j] = e]
  PROVE  RowEnds(j)
  <1>1. /\ status \in [Jobs -> Statuses] /\ progress \in [Jobs -> 0..100]
        /\ error \in [Jobs -> BOOLEAN] /\ Terminal \subseteq Statuses
    BY DEF TypeOK, Statuses
  <1>2. CASE UNCHANGED <<status, progress, error>>
    BY <1>1, <1>2 DEF RowEnds
  <1>3. CASE \E s \in Terminal, p \in 0..100, e \in BOOLEAN :
               /\ status' = [status EXCEPT ![j] = s]
               /\ progress' = [progress EXCEPT ![j] = p]
               /\ error' = [error EXCEPT ![j] = e]
    <2>1. PICK s \in Terminal, p \in 0..100, e \in BOOLEAN :
               /\ status' = [status EXCEPT ![j] = s]
               /\ progress' = [progress EXCEPT ![j] = p]
               /\ error' = [error EXCEPT ![j] = e]
      BY <1>3
    <2>2. /\ status' \in [Jobs -> Statuses] /\ status'[j] = s
          /\ \A k \in Jobs \ {j} : status'[k] = status[k]
      BY <1>1, <2>1
    <2>3. progress' \in [Jobs -> 0..100] /\ error' \in [Jobs -> BOOLEAN]
      BY <1>1, <2>1
    <2> QED
      BY <2>2, <2>3 DEF RowEnds
  <1> QED
    BY <1>2, <1>3

(* Such a step keeps the invariant, whichever slot the task still held.    *)
LEMMA EndInv ==
  ASSUME IInv, NEW j \in Jobs, NEW free, End(j, free),
         \/ pc[j] \in Inside /\ free = 1
         \/ pc[j] \in Handlers /\ free = 0,
         UNCHANGED <<cancelRequested, runs, up, unit, waiters, crashes, late>>,
         RowEnds(j), faults' \in 0..MaxFaults, faults' >= faults
  PROVE  IInv'
  <1>1. "gone" \in Labels /\ "gone" \notin Inside /\ "gone" \notin Handlers
    BY DEF Labels, Handlers, Inside, Checkpoints, Working
  <1>2. Inside \cap Handlers = {}
    BY DEF Handlers, Inside, Checkpoints, Working
  <1>3. /\ pc \in [Jobs -> Labels] /\ pc' \in [Jobs -> Labels] /\ pc'[j] = "gone"
        /\ \A k \in Jobs \ {j} : pc'[k] = pc[k]
        /\ slots' = slots + free /\ loop' = NoTask
    BY <1>1 DEF End, TypeOK, IInv
  <1>4. slots' \in 0..MaxConcurrency => TypeOK'
    BY <1>3 DEF TypeOK, IInv, RowEnds
  <1>5. slots \in Nat /\ faults' \in Nat
    BY JobRunnerAssumption DEF TypeOK, IInv
  <1>6. RowFitsLabel(j)'
    <2>1. RowFitsLabel(j) /\ pc[j] # "none"
      BY DEF Inside, Handlers, Checkpoints, Working, IInv
    <2>2. status[j] # "absent" /\ status'[j] # "absent"
      BY <2>1 DEF RowEnds, RowFitsLabel, Terminal
    <2> QED
      BY <1>1, <1>3, <2>2 DEF RowFitsLabel
  <1>7. WorkFitsLabel(j)'
    BY <1>3 DEF WorkFitsLabel, NotFetchedAll, BeforeWork, IInv
  <1> QED
    BY <1>1, <1>2, <1>3, <1>4, <1>5, <1>6, <1>7, TaskStepInv DEF RowEnds

(* The three ways a task ends: completed, cancelled, failed. *)
LEMMA EndsInv ==
  ASSUME IInv, NEW j \in Jobs, Complete(j) \/ RecordCancelled(j) \/ RecordFailed(j)
  PROVE  IInv'
  <1>1. TypeOK /\ progress[j] \in 0..100 /\ 100 \in 0..100 /\ faults \in 0..MaxFaults
    BY DEF IInv, TypeOK
  <1>2. CASE Complete(j)
    <2>1. pc[j] \in Inside /\ "completed" \in Terminal
      BY <1>2 DEF Complete, Inside, Working, Terminal
    <2>2. /\ End(j, 1) /\ status' = [status EXCEPT ![j] = "completed"]
          /\ progress' = [progress EXCEPT ![j] = 100] /\ error' = [error EXCEPT ![j] = FALSE]
          /\ UNCHANGED <<cancelRequested, runs, up, unit, waiters, crashes, late, faults>>
      BY <1>2 DEF Complete, Transition, bounds
    <2>3. \E s \in Terminal, p \in 0..100, e \in BOOLEAN :
             /\ status' = [status EXCEPT ![j] = s]
             /\ progress' = [progress EXCEPT ![j] = p]
             /\ error' = [error EXCEPT ![j] = e]
      BY <1>1, <2>1, <2>2
    <2>4. RowEnds(j)
      BY <1>1, <2>3, EndRow
    <2> QED
      BY <1>1, <2>1, <2>2, <2>4, EndInv
  <1>3. CASE RecordCancelled(j)
    <2>1. pc[j] \in Handlers /\ "cancelled" \in Terminal
      BY <1>3 DEF RecordCancelled, Handlers, Terminal
    <2>2. /\ End(j, 0) /\ status' = [status EXCEPT ![j] = "cancelled"]
          /\ progress' = [progress EXCEPT ![j] = progress[j]]
          /\ error' = [error EXCEPT ![j] = FALSE]
          /\ UNCHANGED <<cancelRequested, runs, up, unit, waiters, crashes, late, faults>>
      BY <1>3 DEF RecordCancelled, Transition, bounds
    <2>3. \E s \in Terminal, p \in 0..100, e \in BOOLEAN :
             /\ status' = [status EXCEPT ![j] = s]
             /\ progress' = [progress EXCEPT ![j] = p]
             /\ error' = [error EXCEPT ![j] = e]
      BY <1>1, <2>1, <2>2
    <2>4. RowEnds(j)
      BY <1>1, <2>3, EndRow
    <2> QED
      BY <1>1, <2>1, <2>2, <2>4, EndInv
  <1>4. CASE RecordFailed(j)
    <2>1. pc[j] \in Handlers /\ "failed" \in Terminal
      BY <1>4 DEF RecordFailed, Handlers, Terminal
    <2>2. /\ End(j, 0)
          /\ UNCHANGED <<cancelRequested, runs, up, unit, waiters, crashes, late, faults>>
      BY <1>4 DEF RecordFailed, Transition, bounds, rows
    <2>3. \/ UNCHANGED <<status, progress, error>>
          \/ /\ status' = [status EXCEPT ![j] = "failed"]
             /\ progress' = [progress EXCEPT ![j] = progress[j]]
             /\ error' = [error EXCEPT ![j] = TRUE]
      BY <1>4 DEF RecordFailed, Transition, rows
    <2>4. RowEnds(j)
      BY <1>1, <2>1, <2>3, EndRow
    <2> QED
      BY <1>1, <2>1, <2>2, <2>4, EndInv
  <1> QED
    BY <1>2, <1>3, <1>4

(* A failing database call or fetch raises. *)
LEMMA FailureInv ==
  ASSUME IInv, NEW j \in Jobs, WorkFails(j) \/ DbFault(j)
  PROVE  IInv'
  <1>1. CASE WorkFails(j)
    BY <1>1, RaiseInv DEF WorkFails, bounds, Inside, Checkpoints, Working
  <1>2. CASE DbFault(j) /\ pc[j] \in Inside /\ Raise(j, "failing")
    BY <1>2, RaiseInv DEF DbFault
  <1>3. CASE DbFault(j) /\ pc[j] \in Handlers /\ End(j, 0)
    <2>1. RowEnds(j)
      BY <1>3, EndRow DEF DbFault, rows, IInv
    <2>2. faults' \in 0..MaxFaults /\ faults' >= faults
      BY <1>3, JobRunnerAssumption DEF DbFault, TypeOK, IInv
    <2> QED
      BY <1>3, <2>1, <2>2, EndInv DEF DbFault, rows
  <1> QED
    BY <1>1, <1>2, <1>3 DEF DbFault

(* Cancelling only raises the flag of a live row. *)
LEMMA RequestCancelInv ==
  ASSUME IInv, NEW j \in Jobs, RequestCancel(j)
  PROVE  IInv'
  <1> USE DEF IInv
  <1>1. /\ UNCHANGED <<status, progress, error, runs, up, pc, unit, loop, slots, waiters,
                       crashes, faults, late>>
        /\ cancelRequested' = [cancelRequested EXCEPT ![j] = TRUE]
    BY DEF RequestCancel, process, bounds
  <1>2. TypeOK' /\ SlotsConserved' /\ WaitersDistinct'
    BY <1>1 DEF TypeOK, SlotsConserved, InsideTasks, WaitersDistinct
  <1>3. \A k \in Jobs : (RowFitsLabel(k) /\ WorkFitsLabel(k))'
    BY <1>1 DEF RowFitsLabel, WorkFitsLabel, TypeOK
  <1> QED
    BY <1>2, <1>3

(* A crash takes every task and keeps every row. *)
LEMMA CrashInv == IInv /\ Crash => IInv'
  <1> SUFFICES ASSUME IInv, Crash PROVE IInv'
    OBVIOUS
  <1> USE DEF IInv
  <1>1. \A k \in Jobs : pc'[k] \in {"none", "gone"} /\ (pc'[k] = "none" <=> pc[k] = "none")
    BY DEF Crash
  <1>2. TypeOK'
    <2>1. pc' \in [Jobs -> Labels]
      BY DEF Crash, Labels
    <2>2. /\ UNCHANGED <<status, progress, error, cancelRequested, runs, unit, faults, late>>
          /\ up' = FALSE /\ loop' = NoTask /\ slots' = MaxConcurrency /\ waiters' = <<>>
      BY DEF Crash, rows
    <2>3. slots' \in 0..MaxConcurrency /\ crashes' \in 0..MaxCrashes
      BY <2>2 DEF Crash, TypeOK
    <2>4. waiters' \in Seq(Jobs)
      BY <2>2, EmptySeq
    <2> QED
      BY <2>1, <2>2, <2>3, <2>4 DEF TypeOK
  <1>3. WaitersDistinct'
    BY DEF Crash, WaitersDistinct
  <1>4. \A k \in Jobs : RowFitsLabel(k)'
    BY <1>1 DEF Crash, RowFitsLabel, rows, Inside, Checkpoints, Working, Handlers
  <1>5. \A k \in Jobs : WorkFitsLabel(k)'
    BY <1>1 DEF Crash, WorkFitsLabel, rows, NotFetchedAll, BeforeWork
  <1> QED
    BY <1>2, <1>3, <1>4, <1>5, CrashSlots

(* A restart settles the rows the crash left active. *)
LEMMA RestartInv == IInv /\ Restart => IInv'
  <1> SUFFICES ASSUME IInv, Restart PROVE IInv'
    OBVIOUS
  <1> USE DEF IInv
  <1>1. /\ UNCHANGED <<progress, error, cancelRequested, runs, pc, unit, loop, slots, waiters,
                       crashes, faults, late>>
        /\ up' = TRUE /\ up = FALSE
        /\ \A k \in Jobs : status'[k] \in Statuses /\ (status'[k] = "absent" <=> status[k] = "absent")
        /\ status' \in [Jobs -> Statuses]
    BY DEF Restart, bounds, TypeOK, Statuses, Terminal, Cancellable, Active
  <1>2. TypeOK' /\ SlotsConserved' /\ WaitersDistinct'
    BY <1>1 DEF TypeOK, SlotsConserved, InsideTasks, WaitersDistinct
  <1>3. \A k \in Jobs : pc[k] \in {"none", "gone"}
    BY <1>1 DEF RowFitsLabel
  <1>4. \A k \in Jobs : RowFitsLabel(k)'
    BY <1>1, <1>3 DEF RowFitsLabel, Inside, Checkpoints, Working, Handlers
  <1>5. \A k \in Jobs : WorkFitsLabel(k)'
    BY <1>1 DEF WorkFitsLabel
  <1> QED
    BY <1>2, <1>4, <1>5

(* A stuttering step changes nothing. *)
LEMMA StutterInv == IInv /\ UNCHANGED vars => IInv'
  BY DEF IInv, vars, rows, process, bounds, TypeOK, SlotsConserved, InsideTasks,
     WaitersDistinct, RowFitsLabel, WorkFitsLabel

(* Every step of every actor keeps IInv. *)
LEMMA NextInv == IInv /\ [Next]_vars => IInv'
  <1> SUFFICES ASSUME IInv, [Next]_vars PROVE IInv'
    OBVIOUS
  <1>1. ASSUME NEW j \in Jobs, Submit(j) \/ RequestCancel(j) PROVE IInv'
    BY <1>1, SubmitInv, RequestCancelInv
  <1>2. ASSUME NEW j \in Jobs, Task(j) PROVE IInv'
    BY <1>2, AcquireInv, CheckpointInv, StagesInv, WorkInv, EndsInv, FailureInv DEF Task
  <1>3. ASSUME NEW j \in Jobs, DbFault(j) PROVE IInv'
    BY <1>3, FailureInv
  <1> QED
    BY <1>1, <1>2, <1>3, CrashInv, RestartInv, StutterInv DEF Next

-----------------------------------------------------------------------------
(* Type correctness, conservation of slots and IInv: in every behaviour of *)
(* the runner each variable has its type, and the slots of the semaphore   *)
(* are taken and given back exactly once per task (jobs/runner.py:72-86).  *)
THEOREM JobRunnerInvariant == Spec => []IInv
  BY InitInv, NextInv, PTL DEF Spec

(* The type invariant of JobRunner. *)
THEOREM TypeCorrect == Spec => []TypeOK
  <1>1. IInv => TypeOK
    BY DEF IInv
  <1> QED
    BY <1>1, JobRunnerInvariant, PTL

(* Never more than MaxConcurrency jobs work at once, and no path out of    *)
(* the semaphore leaks or invents a slot (jobs/runner.py:74).              *)
THEOREM SemaphoreConserved == Spec => []SlotsConserved
  <1>1. IInv => SlotsConserved
    BY DEF IInv
  <1> QED
    BY <1>1, JobRunnerInvariant, PTL

(* After an accepted cancellation at most one more unit of work is done    *)
(* (jobs/runner.py:26-29).                                                 *)
THEOREM CancellationBounded == Spec => []CancelStopsWork
  <1>1. IInv => CancelStopsWork
    <2> SUFFICES ASSUME IInv, NEW j \in Jobs PROVE late[j] <= 1
      BY DEF CancelStopsWork
    <2>1. late[j] \in 0..2 /\ (late[j] > 0 => late[j] = 1)
      BY DEF IInv, TypeOK, WorkFitsLabel
    <2> QED
      BY <2>1
  <1> QED
    BY <1>1, JobRunnerInvariant, PTL

(* JobRunner only ever writes transitions JobRepository accepts, except    *)
(* for failing a job that a database fault caught while it was queued.     *)
THEOREM TransitionsLegal == Spec => []TransitionsAccepted
  <1>1. IInv => TransitionsAccepted
    <2> SUFFICES ASSUME IInv, NEW j \in Jobs
                 PROVE  \/ Allowed(status[j], Target(j))
                        \/ pc[j] = "failing" /\ status[j] = "queued" /\ faults > 0
      BY DEF TransitionsAccepted
    <2>1. RowFitsLabel(j)
      BY DEF IInv
    <2>2. CASE pc[j] = "begin"
      BY <2>1, <2>2 DEF RowFitsLabel, Target, Allowed, AllowedFrom, Active
    <2>3. CASE pc[j] \in {"run", "download", "validate", "aggregate", "complete"}
      <3>1. status[j] \in Active
        BY <2>1, <2>3 DEF RowFitsLabel, Inside, Working
      <3>2. status[j] # "queued" /\ Target(j) \in Active \cup Terminal
        BY <2>3, <3>1 DEF Target, Active, Terminal
      <3> QED
        BY <3>1, <3>2 DEF Allowed, AllowedFrom
    <2>4. CASE pc[j] \in Handlers
      <3>1. status[j] \in Cancellable
        BY <2>1, <2>4 DEF RowFitsLabel
      <3>2. CASE status[j] = "queued"
        <4>1. CASE pc[j] = "failing"
          BY <2>1, <3>2, <4>1 DEF RowFitsLabel
        <4>2. CASE pc[j] = "cancelling"
          <5>1. Target(j) = "cancelled"
            BY <4>2 DEF Target
          <5>2. "cancelled" \in AllowedFrom("queued")
            BY DEF AllowedFrom, Active
          <5> QED
            BY <3>2, <5>1, <5>2 DEF Allowed
        <4> QED
          BY <2>4, <4>1, <4>2 DEF Handlers
      <3>3. CASE status[j] \in Active
        <4>1. status[j] # "queued" /\ Target(j) \in Terminal
          BY <2>4, <3>3 DEF Handlers, Target, Active, Terminal
        <4> QED
          BY <3>3, <4>1 DEF Allowed, AllowedFrom
      <3> QED
        BY <3>1, <3>2, <3>3 DEF Cancellable
    <2>5. CASE pc[j] \notin Handlers \cup {"begin", "run", "download", "validate",
                                          "aggregate", "complete"}
      BY <2>5 DEF Target, Allowed, Handlers
    <2> QED
      BY <2>2, <2>3, <2>4, <2>5
  <1> QED
    BY <1>1, JobRunnerInvariant, PTL

(* A settled row is never written again, whoever acts (jobs/repository.py: *)
(* 93-110,118-126,136-138).                                                *)
RowUnchanged(k) ==
    /\ status'[k] = status[k] /\ progress'[k] = progress[k] /\ error'[k] = error[k]
    /\ cancelRequested'[k] = cancelRequested[k] /\ runs'[k] = runs[k]

(* A step of one task leaves the rows of the others alone. *)
LEMMA OthersUnchanged ==
  ASSUME TypeOK, NEW j \in Jobs, NEW k \in Jobs \ {j},
         Submit(j) \/ Task(j) \/ DbFault(j) \/ RequestCancel(j)
  PROVE  RowUnchanged(k)
  <1> USE DEF TypeOK, RowUnchanged
  <1>1. CASE Submit(j) \/ DbFault(j) \/ RequestCancel(j)
    BY <1>1 DEF Submit, DbFault, RequestCancel, rows
  <1>2. CASE Acquire(j) \/ Checkpoint(j) \/ Fetch(j) \/ Engine(j) \/ WorkFails(j) \/ Save(j)
    BY <1>2 DEF Acquire, Checkpoint, Fetch, Engine, WorkFails, Save, rows
  <1>3. ASSUME NEW s, NEW p, NEW e, Transition(j, s, p, e) PROVE RowUnchanged(k)
    BY <1>3 DEF Transition
  <1>4. CASE \/ Begin(j) \/ Download(j) \/ Validate(j) \/ Run(j) \/ Aggregate(j)
             \/ Report(j) \/ Complete(j) \/ RecordCancelled(j)
    <2> HIDE DEF RowUnchanged
    <2> QED
      BY <1>3, <1>4 DEF Begin, Download, Validate, Run, Aggregate, Stage, Report, Complete,
         RecordCancelled
  <1>5. CASE RecordFailed(j)
    BY <1>3, <1>5 DEF RecordFailed, rows
  <1> QED
    BY <1>1, <1>2, <1>4, <1>5 DEF Task

(* A task that can still take a step has a live row. *)
LEMMA TaskRowLive ==
  ASSUME IInv, NEW j \in Jobs, Submit(j) \/ Task(j) \/ DbFault(j) \/ RequestCancel(j)
  PROVE  status[j] \notin Terminal
  <1>1. RowFitsLabel(j)
    BY DEF IInv
  <1>2. CASE Submit(j)
    BY <1>2 DEF Submit, Terminal
  <1>3. CASE RequestCancel(j)
    BY <1>3 DEF RequestCancel, Terminal, Cancellable, Active
  <1>4. CASE pc[j] \in {"waiting"} \cup Inside \cup Handlers
    <2>1. status[j] \in Cancellable
      BY <1>1, <1>4 DEF RowFitsLabel, Cancellable
    <2> QED
      BY <2>1 DEF Terminal, Cancellable, Active
  <1>5. CASE Acquire(j)
    <2>1. waiters \in Seq(Jobs) /\ waiters # <<>> /\ waiters[1] = j /\ 1 \in 1..Len(waiters)
      BY <1>5, HeadTailProperties, EmptySeq, LenProperties DEF Acquire, IInv, TypeOK
    <2>2. pc[j] = "waiting"
      BY <2>1 DEF IInv, WaitersDistinct
    <2> QED
      BY <1>4, <2>2
  <1>6. CASE DbFault(j)
    BY <1>4, <1>6 DEF DbFault
  <1>7. CASE Task(j) /\ ~Acquire(j)
    <2>1. pc[j] \in Inside \cup Handlers
      BY <1>7 DEF Task, Checkpoint, Begin, Download, Fetch, Report, Validate, Run, Engine,
         Aggregate, Save, Complete, WorkFails, RecordCancelled, RecordFailed, Stage,
         Inside, Checkpoints, Working, Handlers
    <2> QED
      BY <1>4, <2>1
  <1> QED
    BY <1>2, <1>3, <1>5, <1>6, <1>7

(* No step of any actor changes a row once it is settled: neither a late   *)
(* task, nor a cancel request, nor a restart (jobs/repository.py:81-111, *)
(* 113-140).                                                              *)
THEOREM SettledFrozen == Spec => SettledRowsFrozen
  <1> DEFINE Frozen == \A j \in Jobs : status[j] \in Terminal => RowUnchanged(j)
  <1>1. IInv /\ [Next]_vars => Frozen
    <2> SUFFICES ASSUME IInv, [Next]_vars, NEW k \in Jobs, status[k] \in Terminal
                 PROVE  RowUnchanged(k)
      OBVIOUS
    <2>1. CASE UNCHANGED vars
      BY <2>1 DEF vars, rows, RowUnchanged
    <2>2. CASE Crash
      BY <2>2 DEF Crash, rows, RowUnchanged
    <2>3. CASE Restart
      BY <2>3 DEF Restart, RowUnchanged, Terminal, Cancellable, Active
    <2>4. ASSUME NEW j \in Jobs, Submit(j) \/ Task(j) \/ DbFault(j) \/ RequestCancel(j)
          PROVE  RowUnchanged(k)
      <3>1. j # k
        BY <2>4, TaskRowLive
      <3>2. TypeOK
        BY DEF IInv
      <3> QED
        BY <2>4, <3>1, <3>2, OthersUnchanged
    <2> QED
      BY <2>1, <2>2, <2>3, <2>4 DEF Next
  <1>2. Frozen <=> \A j \in Jobs :
           status[j] \in Terminal =>
             /\ status'[j] = status[j]
             /\ progress'[j] = progress[j] /\ error'[j] = error[j]
             /\ cancelRequested'[j] = cancelRequested[j] /\ runs'[j] = runs[j]
    BY DEF RowUnchanged
  <1> QED
    BY <1>1, <1>2, JobRunnerInvariant, PTL DEF Spec, SettledRowsFrozen
-----------------------------------------------------------------------------
(* Results and what tasks leave behind: ResultInv, given IInv.             *)

(* Nothing of task k moves. *)
TaskUnchanged(k) == RowUnchanged(k) /\ pc'[k] = pc[k] /\ unit'[k] = unit[k]

LEMMA OtherTasksUnchanged ==
  ASSUME TypeOK, NEW j \in Jobs, NEW k \in Jobs \ {j},
         Submit(j) \/ Task(j) \/ DbFault(j) \/ RequestCancel(j)
  PROVE  /\ TaskUnchanged(k)
         /\ up' = up /\ faults' \in Nat /\ (faults' = 0 => faults = 0)
  <1>1. pc \in [Jobs -> Labels] /\ unit \in [Jobs -> 0..Units] /\ faults \in Nat
    BY DEF TypeOK
  <1>2. ASSUME NEW l, GoOn(j, l) \/ Raise(j, l) PROVE pc'[k] = pc[k]
    BY <1>1, <1>2 DEF GoOn, Raise
  <1>3. ASSUME NEW free, End(j, free) PROVE pc'[k] = pc[k]
    BY <1>1, <1>3 DEF End
  <1>4. CASE Submit(j) \/ RequestCancel(j) \/ Acquire(j)
    BY <1>1, <1>4, OthersUnchanged DEF Submit, RequestCancel, Acquire, TaskUnchanged, process,
       bounds, Task
  <1>5. CASE DbFault(j)
    <2>1. pc'[k] = pc[k] /\ UNCHANGED <<up, unit>> /\ faults' = faults + 1
      BY <1>2, <1>3, <1>5 DEF DbFault
    <2> QED
      BY <1>1, <1>5, <2>1, OthersUnchanged DEF TaskUnchanged
  <1>6. CASE Task(j) /\ ~Acquire(j)
    <2>1. pc'[k] = pc[k]
      <3>1. CASE Checkpoint(j)
        BY <1>1, <1>2, <3>1 DEF Checkpoint
      <3>2. CASE Begin(j) \/ Download(j) \/ Validate(j) \/ Run(j) \/ Aggregate(j)
        BY <1>2, <3>2 DEF Begin, Download, Validate, Run, Aggregate, Stage
      <3>3. CASE Fetch(j) \/ Report(j) \/ Engine(j) \/ Save(j) \/ WorkFails(j)
        BY <1>2, <3>3 DEF Fetch, Report, Engine, Save, WorkFails
      <3>4. CASE Complete(j) \/ RecordCancelled(j) \/ RecordFailed(j)
        BY <1>3, <3>4 DEF Complete, RecordCancelled, RecordFailed
      <3> QED
        BY <1>6, <3>1, <3>2, <3>3, <3>4 DEF Task
    <2>2. unit'[k] = unit[k] /\ UNCHANGED <<up, faults>>
      BY <1>1, <1>6 DEF Task, Checkpoint, Begin, Download, Validate, Run, Aggregate, Stage,
         Fetch, Report, Engine, Save, WorkFails, Complete, RecordCancelled, RecordFailed, bounds
    <2> QED
      BY <1>1, <1>6, <2>1, <2>2, OthersUnchanged DEF TaskUnchanged
  <1> QED
    BY <1>4, <1>5, <1>6

(* What was known of a task that does not move is still known. *)
LEMMA TaskUnchangedInv ==
  ASSUME NEW k \in Jobs, ResultFits(k), TaskAnswers(k), TaskUnchanged(k),
         up' = up, faults' = 0 => faults = 0
  PROVE  (ResultFits(k) /\ TaskAnswers(k))'
  BY DEF ResultFits, TaskAnswers, TaskUnchanged, RowUnchanged

(* A stage is entered before there is a result. *)
LEMMA StageResult ==
  ASSUME IInv, NEW j \in Jobs, ResultFits(j), TaskAnswers(j),
         NEW at, NEW s \in Active, NEW p, NEW next, Stage(j, at, s, p, next),
         at \in Working \ {"complete"}, next \in Inside \ {"done?", "complete"},
         next \in FetchedAll => unit[j] = Units, next = "save" => s = "aggregating"
  PROVE  (ResultFits(j) /\ TaskAnswers(j))'
  <1>1. /\ pc[j] = at /\ pc'[j] = next /\ status'[j] = s
        /\ UNCHANGED <<cancelRequested, runs, unit>>
    BY DEF Stage, Transition, GoOn, IInv, TypeOK
  <1>2. runs[j] = 0 /\ runs'[j] = 0
    BY <1>1 DEF ResultFits, Working, Handlers
  <1>3. next \notin {"gone", "cancelling"}
    BY DEF Inside, Checkpoints, Working
  <1>4. s # "completed"
    BY DEF Active
  <1> QED
    BY <1>1, <1>2, <1>3, <1>4 DEF ResultFits, TaskAnswers

(* The stages: nothing is saved yet, and Report goes on to validation only *)
(* when every symbol was fetched.                                          *)
LEMMA StagesResult ==
  ASSUME IInv, NEW j \in Jobs, ResultFits(j), TaskAnswers(j),
         Begin(j) \/ Download(j) \/ Validate(j) \/ Run(j) \/ Aggregate(j) \/ Report(j)
  PROVE  (ResultFits(j) /\ TaskAnswers(j))'
  <1> USE DEF Inside, Checkpoints, Working, FetchedAll
  <1>1. RowFitsLabel(j) /\ unit[j] \in 0..Units
    BY DEF IInv, TypeOK
  <1>2. CASE Begin(j)
    <2>1. Stage(j, "begin", "running", progress[j], "download") /\ "running" \in Active
      BY <1>2 DEF Begin, Active
    <2> QED
      BY <2>1, StageResult
  <1>3. CASE Download(j)
    <2>1. Stage(j, "download", "downloading", 5, "next") /\ "downloading" \in Active
      BY <1>3 DEF Download, Active
    <2> QED
      BY <2>1, StageResult
  <1>4. CASE Validate(j)
    <2>1. Stage(j, "validate", "validating", 55, "run?") /\ "validating" \in Active
      BY <1>4 DEF Validate, Active
    <2>2. unit[j] = Units
      BY <2>1 DEF Stage, ResultFits
    <2> QED
      BY <2>1, <2>2, StageResult
  <1>5. CASE Run(j)
    <2>1. Stage(j, "run", "running", 65, "engine") /\ "running" \in Active
      BY <1>5 DEF Run, Active
    <2>2. unit[j] = Units
      BY <2>1 DEF Stage, ResultFits
    <2> QED
      BY <2>1, <2>2, StageResult
  <1>6. CASE Aggregate(j)
    <2>1. Stage(j, "aggregate", "aggregating", 95, "save") /\ "aggregating" \in Active
      BY <1>6 DEF Aggregate, Active
    <2>2. unit[j] = Units
      BY <2>1 DEF Stage, ResultFits
    <2> QED
      BY <2>1, <2>2, StageResult
  <1>7. CASE Report(j)
    <2> DEFINE next == IF unit[j] < Units THEN "next" ELSE "validate?"
    <2>1. status[j] \in Active
      BY <1>1, <1>7 DEF Report, RowFitsLabel
    <2>2. Stage(j, "report", status[j], DownloadProgress(unit[j]), next)
      BY <1>7 DEF Report, Stage
    <2>3. /\ next \in Inside \ {"done?", "complete"} /\ next # "save"
          /\ next \in FetchedAll => unit[j] = Units
      BY <1>1
    <2> HIDE DEF next
    <2> QED
      BY <2>1, <2>2, <2>3, StageResult
  <1> QED
    BY <1>2, <1>3, <1>4, <1>5, <1>6, <1>7

(* Entering the semaphore, the checkpoints and the units of work: Save is  *)
(* the one step that publishes, and it is taken once.                      *)
LEMMA WorkResult ==
  ASSUME IInv, NEW j \in Jobs, ResultFits(j), TaskAnswers(j),
         Acquire(j) \/ Checkpoint(j) \/ Fetch(j) \/ Engine(j) \/ Save(j)
  PROVE  (ResultFits(j) /\ TaskAnswers(j))'
  <1>1. RowFitsLabel(j) /\ pc \in [Jobs -> Labels] /\ unit \in [Jobs -> 0..Units]
    BY DEF IInv, TypeOK
  <1>2. CASE Acquire(j)
    <2>1. /\ waiters \in Seq(Jobs) /\ waiters # <<>> /\ waiters[1] = j
          /\ 1 \in 1..Len(waiters)
      BY <1>2, HeadTailProperties, EmptySeq, LenProperties DEF Acquire, IInv, TypeOK
    <2>2. pc[j] = "waiting"
      BY <2>1 DEF IInv, WaitersDistinct
    <2>3. /\ pc'[j] = "start" /\ UNCHANGED <<status, error, runs, unit, cancelRequested>>
      BY <1>1, <1>2 DEF Acquire, rows
    <2> QED
      BY <2>2, <2>3 DEF ResultFits, TaskAnswers, FetchedAll, Handlers
  <1>3. CASE Checkpoint(j) /\ cancelRequested[j]
    <2>1. /\ pc'[j] = "cancelling" /\ pc[j] \in Checkpoints
          /\ UNCHANGED <<status, error, runs, unit, cancelRequested>>
      BY <1>1, <1>3 DEF Checkpoint, Raise, rows
    <2> QED
      BY <1>3, <2>1 DEF ResultFits, TaskAnswers, FetchedAll, Handlers
  <1>4. CASE Checkpoint(j) /\ ~cancelRequested[j]
    <2>1. /\ pc'[j] = Resume(pc[j]) /\ pc[j] \in Checkpoints
          /\ UNCHANGED <<status, error, runs, unit, cancelRequested>>
      BY <1>1, <1>4 DEF Checkpoint, rows
    <2>2. /\ pc'[j] \in {"begin", "fetch", "validate", "run", "aggregate", "complete"}
          /\ pc'[j] \in FetchedAll => pc[j] \in FetchedAll
          /\ pc'[j] = "complete" <=> pc[j] = "done?"
      BY <2>1 DEF Checkpoints, Resume, FetchedAll
    <2>3. runs[j] = 1 => pc[j] = "done?"
      BY <2>1 DEF ResultFits, Checkpoints, Handlers
    <2> QED
      BY <2>1, <2>2, <2>3 DEF ResultFits, TaskAnswers
  <1>5. CASE Fetch(j)
    <2>1. /\ pc[j] = "fetch" /\ pc'[j] = "report"
          /\ UNCHANGED <<status, error, runs, cancelRequested>>
      BY <1>1, <1>5 DEF Fetch, GoOn, rows
    <2> QED
      BY <2>1 DEF ResultFits, TaskAnswers, FetchedAll, Handlers
  <1>6. CASE Engine(j)
    <2>1. /\ pc[j] = "engine" /\ pc'[j] = "aggregate?"
          /\ UNCHANGED <<status, error, runs, unit, cancelRequested>>
      BY <1>1, <1>6 DEF Engine, GoOn, rows
    <2> QED
      BY <2>1 DEF ResultFits, TaskAnswers, FetchedAll, Handlers
  <1>7. CASE Save(j)
    <2>1. /\ pc[j] = "save" /\ pc'[j] = "done?" /\ runs'[j] = runs[j] + 1
          /\ UNCHANGED <<status, error, unit, cancelRequested>>
      BY <1>1, <1>7 DEF Save, GoOn, IInv, TypeOK
    <2>2. runs[j] = 0 /\ unit[j] = Units /\ status[j] = "aggregating"
      BY <2>1 DEF ResultFits, FetchedAll, Handlers
    <2> QED
      BY <2>1, <2>2 DEF ResultFits, TaskAnswers, FetchedAll
  <1> QED
    BY <1>2, <1>3, <1>4, <1>5, <1>6, <1>7

(* A task ends with its row settled, or because a database call failed.    *)
LEMMA EndsResult ==
  ASSUME IInv, NEW j \in Jobs, ResultFits(j), TaskAnswers(j),
         \/ Complete(j) \/ RecordCancelled(j) \/ RecordFailed(j)
         \/ WorkFails(j) \/ DbFault(j)
  PROVE  (ResultFits(j) /\ TaskAnswers(j))'
  <1>1. /\ RowFitsLabel(j) /\ pc \in [Jobs -> Labels] /\ faults \in Nat
        /\ status \in [Jobs -> Statuses] /\ error \in [Jobs -> BOOLEAN]
    BY DEF IInv, TypeOK
  <1>2. CASE Complete(j)
    <2>1. /\ pc[j] = "complete" /\ pc'[j] = "gone" /\ status'[j] = "completed"
          /\ error' = [error EXCEPT ![j] = FALSE] /\ UNCHANGED <<runs, unit>>
      BY <1>1, <1>2 DEF Complete, End, Transition
    <2>2. ~error'[j]
      BY <1>1, <2>1
    <2> QED
      BY <2>1, <2>2 DEF ResultFits, TaskAnswers, FetchedAll, Terminal, Cancellable, Active
  <1>3. ASSUME NEW s \in {"cancelled", "failed"}, status'[j] = s, pc'[j] = "gone",
               UNCHANGED <<runs, unit>>
        PROVE  (ResultFits(j) /\ TaskAnswers(j))'
    BY <1>3 DEF ResultFits, TaskAnswers, FetchedAll, Terminal, Cancellable, Active
  <1>4. CASE RecordCancelled(j)
    BY <1>1, <1>3, <1>4 DEF RecordCancelled, End, Transition
  <1>5. CASE RecordFailed(j) /\ Transition(j, "failed", progress[j], TRUE)
    BY <1>1, <1>3, <1>5 DEF RecordFailed, End, Transition
  <1>6. CASE RecordFailed(j) /\ ~Allowed(status[j], "failed") /\ UNCHANGED rows
    <2>1. /\ pc[j] = "failing" /\ pc'[j] = "gone"
          /\ UNCHANGED <<status, error, runs, unit, faults>>
      BY <1>1, <1>6 DEF RecordFailed, End, rows, bounds
    <2>2. status[j] = "queued"
      BY <1>1, <1>6, <2>1 DEF RowFitsLabel, Handlers, Cancellable, Allowed, AllowedFrom, Active,
         Terminal
    <2>3. faults' # 0
      BY <1>1, <2>1, <2>2 DEF RowFitsLabel
    <2> QED
      BY <2>1, <2>2, <2>3 DEF ResultFits, TaskAnswers, FetchedAll
  <1>7. CASE Raise(j, "failing") /\ pc[j] \in Inside /\ UNCHANGED <<rows, unit>>
    <2>1. pc'[j] = "failing" /\ UNCHANGED <<status, error, runs, unit>>
      BY <1>1, <1>7 DEF Raise, rows
    <2> QED
      BY <2>1 DEF ResultFits, TaskAnswers, FetchedAll, Handlers
  <1>8. CASE DbFault(j) /\ pc[j] \in Handlers /\ End(j, 0)
    <2>1. /\ pc'[j] = "gone" /\ UNCHANGED <<status, error, runs, unit>> /\ faults' = faults + 1
      BY <1>1, <1>8 DEF DbFault, End, rows
    <2> QED
      BY <1>1, <1>8, <2>1 DEF ResultFits, TaskAnswers, FetchedAll
  <1>9. WorkFails(j) => pc[j] \in Inside
    BY DEF WorkFails, Inside, Checkpoints, Working
  <1> QED
    BY <1>2, <1>4, <1>5, <1>6, <1>7, <1>8, <1>9 DEF RecordFailed, WorkFails, DbFault

(* Every step of every actor keeps ResultInv. *)
LEMMA NextResult == IInv /\ ResultInv /\ [Next]_vars => ResultInv'
  <1> SUFFICES ASSUME IInv, ResultInv, [Next]_vars, NEW k \in Jobs
               PROVE  (ResultFits(k) /\ TaskAnswers(k))'
    BY DEF ResultInv
  <1>1. ResultFits(k) /\ TaskAnswers(k) /\ RowFitsLabel(k)
    BY DEF ResultInv, IInv
  <1>2. pc \in [Jobs -> Labels] /\ status \in [Jobs -> Statuses] /\ TypeOK
    BY DEF IInv, TypeOK
  <1>3. CASE UNCHANGED vars
    BY <1>1, <1>3 DEF vars, rows, process, bounds, ResultFits, TaskAnswers
  <1>4. CASE Crash
    <2>1. /\ pc'[k] = (IF pc[k] = "none" THEN "none" ELSE "gone") /\ up' = FALSE
          /\ UNCHANGED <<status, error, runs, unit>>
      BY <1>4 DEF Crash, rows
    <2> QED
      BY <1>1, <2>1 DEF ResultFits, TaskAnswers, FetchedAll, Handlers
  <1>5. CASE Restart
    <2>1. /\ status'[k] = (IF status[k] \in Cancellable THEN "interrupted" ELSE status[k])
          /\ UNCHANGED <<pc, error, runs, unit, cancelRequested>> /\ ~up
      BY <1>5 DEF Restart
    <2>2. pc[k] \in {"none", "gone"} /\ "interrupted" \in Terminal \ Cancellable
      BY <1>1, <2>1 DEF RowFitsLabel, Terminal, Cancellable, Active
    <2> QED
      BY <1>1, <2>1, <2>2 DEF ResultFits, TaskAnswers, FetchedAll
  <1>6. ASSUME NEW j \in Jobs \ {k}, Submit(j) \/ Task(j) \/ DbFault(j) \/ RequestCancel(j)
        PROVE  (ResultFits(k) /\ TaskAnswers(k))'
    <2>1. TaskUnchanged(k) /\ up' = up /\ (faults' = 0 => faults = 0)
      BY <1>2, <1>6, OtherTasksUnchanged
    <2> QED
      BY <1>1, <2>1, TaskUnchangedInv
  <1>7. CASE Submit(k)
    <2>1. pc[k] = "none" /\ pc'[k] = "waiting" /\ status'[k] = "queued" /\ UNCHANGED <<runs, unit>>
      BY <1>1, <1>2, <1>7 DEF Submit, RowFitsLabel
    <2> QED
      BY <1>1, <2>1 DEF ResultFits, TaskAnswers, FetchedAll, Handlers
  <1>8. CASE RequestCancel(k)
    <2>1. /\ UNCHANGED <<status, error, runs, pc, unit, up, faults>>
          /\ cancelRequested' = [cancelRequested EXCEPT ![k] = TRUE]
      BY <1>8 DEF RequestCancel, process, bounds
    <2>2. cancelRequested'[k]
      BY <1>2, <2>1 DEF TypeOK
    <2> QED
      BY <1>1, <2>1, <2>2 DEF ResultFits, TaskAnswers
  <1>9. CASE Task(k) \/ DbFault(k)
    BY <1>1, <1>9, StagesResult, WorkResult, EndsResult DEF Task
  <1> QED
    BY <1>3, <1>4, <1>5, <1>6, <1>7, <1>8, <1>9 DEF Next

(* No task, no result. *)
LEMMA InitResult == Init => ResultInv
  BY DEF Init, ResultInv, ResultFits, TaskAnswers, FetchedAll, Handlers, Cancellable, Active

(* What a task has fetched and saved fits its label and its row, and a     *)
(* task ends only when its row is settled or a database call failed.       *)
THEOREM ResultInvariant == Spec => [](IInv /\ ResultInv)
  BY InitInv, InitResult, NextInv, NextResult, PTL DEF Spec

(* A completed job fetched every symbol and has exactly one result, and no *)
(* other job shows one before it aggregates (backtest/service.py:112-119). *)
THEOREM ResultsAreWholeHolds == Spec => []ResultsAreWhole
  <1>1. ResultInv => ResultsAreWhole
    BY DEF ResultInv, ResultFits, ResultsAreWhole
  <1> QED
    BY <1>1, ResultInvariant, PTL

(* While the process runs and no database call failed, a live row has a    *)
(* task that will still write it (jobs/runner.py:72-86).                   *)
THEOREM NoOrphansHolds == Spec => []NoOrphans
  <1>1. IInv /\ ResultInv => NoOrphans
    <2> SUFFICES ASSUME IInv, ResultInv, NEW j \in Jobs,
                        up, faults = 0, status[j] \in Cancellable
                 PROVE  pc[j] \notin {"none", "gone"}
      BY DEF NoOrphans
    <2>1. RowFitsLabel(j) /\ TaskAnswers(j)
      BY DEF IInv, ResultInv
    <2> QED
      BY <2>1 DEF RowFitsLabel, TaskAnswers, Cancellable, Active
  <1> QED
    BY <1>1, ResultInvariant, PTL

-----------------------------------------------------------------------------
(* The refinement of JobLifecycle, without its liveness half.              *)

PhaseOf == [j \in Jobs |-> Phase(status[j])]
Published == [j \in Jobs |-> runs[j] > 0]

(* A result is published when its row exists. *)
LEMMA PublishedAt ==
  ASSUME NEW j \in Jobs PROVE Published[j] <=> runs[j] > 0
  BY Zenon DEF Published

(* Saving the first result publishes it. *)
LEMMA PublishStep ==
  ASSUME NEW j \in Jobs, runs \in [Jobs -> Nat], runs' = [runs EXCEPT ![j] = @ + 1]
  PROVE  Published' = [Published EXCEPT ![j] = TRUE]
  <1>1. \A k \in Jobs : (runs'[k] > 0) <=> (k = j \/ runs[k] > 0)
    <2> SUFFICES ASSUME NEW k \in Jobs PROVE (runs'[k] > 0) <=> (k = j \/ runs[k] > 0)
      OBVIOUS
    <2>1. runs[k] \in Nat /\ runs'[k] = IF k = j THEN runs[k] + 1 ELSE runs[k]
      OBVIOUS
    <2> QED
      BY <2>1
  <1>2. Published \in [Jobs -> BOOLEAN] /\ Published' \in [Jobs -> BOOLEAN]
    BY DEF Published
  <1>3. \A k \in Jobs : Published'[k] <=> (k = j \/ Published[k])
    BY <1>1, Zenon DEF Published
  <1>4. \A k \in Jobs : Published'[k] = IF k = j THEN TRUE ELSE Published[k]
    BY <1>2, <1>3
  <1> QED
    BY <1>2, <1>4

(* What a status amounts to. *)
LEMMA PhaseTable ==
  ASSUME NEW s \in Statuses
  PROVE  /\ s \in Active => Phase(s) = "active"
         /\ s \notin Active => Phase(s) = s
         /\ Phase(s) \in {"queued", "active"} <=> s \in Cancellable
  BY DEF Statuses, Cancellable, Active, Terminal, Phase

(* The phases follow one status; the results stay. *)
LEMMA PhaseStep ==
  ASSUME TypeOK, NEW j \in Jobs, NEW s \in Statuses, status' = [status EXCEPT ![j] = s],
         runs' = runs
  PROVE  /\ PhaseOf' = [PhaseOf EXCEPT ![j] = Phase(s)]
         /\ PhaseOf[j] = Phase(status[j]) /\ status[j] \in Statuses
         /\ Published' = Published
  <1>1. status \in [Jobs -> Statuses]
    BY DEF TypeOK
  <1>2. \A k \in Jobs : Phase(status'[k]) = IF k = j THEN Phase(s) ELSE Phase(status[k])
    BY <1>1
  <1> HIDE DEF Phase
  <1> QED
    BY <1>1, <1>2 DEF PhaseOf, Published

(* Rows that do not change are not seen to change. *)
LEMMA RowsKept ==
  ASSUME status' = status, runs' = runs, cancelRequested' = cancelRequested
  PROVE  UNCHANGED Lifecycle!vars
  BY DEF Lifecycle!vars

(* A stage makes a queued job active and keeps an active one so. *)
LEMMA StageImplements ==
  ASSUME IInv, NEW j \in Jobs, NEW s \in Active, NEW p, NEW e, Transition(j, s, p, e),
         status[j] \in {"queued"} \cup Active
  PROVE  Lifecycle!Start(j) \/ UNCHANGED Lifecycle!vars
  <1>1. /\ status' = [status EXCEPT ![j] = s] /\ runs' = runs
        /\ cancelRequested' = cancelRequested /\ TypeOK
        /\ s \in Statuses /\ Phase(s) = "active"
    BY PhaseTable DEF Transition, IInv, Statuses, Cancellable
  <1>2. PhaseOf' = [PhaseOf EXCEPT ![j] = "active"] /\ Published' = Published
    BY <1>1, PhaseStep
  <1>3. CASE status[j] = "queued"
    <2>1. PhaseOf[j] = "queued"
      BY <1>3 DEF PhaseOf, Phase, Active
    <2> QED
      BY <1>1, <1>2, <2>1 DEF Lifecycle!Start, Lifecycle!Become, PhaseOf, Published
  <1>4. CASE status[j] \in Active
    <2>1. PhaseOf[j] = "active"
      BY <1>4 DEF PhaseOf, Phase
    <2>2. PhaseOf' = PhaseOf
      BY <1>2, <2>1 DEF PhaseOf
    <2> QED
      BY <1>1, <1>2, <2>2 DEF Lifecycle!vars, PhaseOf, Published
  <1> QED
    BY <1>3, <1>4

(* A task settles its row as JobLifecycle allows. *)
LEMMA EndsImplement ==
  ASSUME IInv, ResultInv, NEW j \in Jobs, Complete(j) \/ RecordCancelled(j) \/ RecordFailed(j)
  PROVE  \/ Lifecycle!Complete(j) \/ Lifecycle!Cancel(j) \/ Lifecycle!Fail(j)
         \/ UNCHANGED Lifecycle!vars
  <1>1. TypeOK /\ RowFitsLabel(j) /\ ResultFits(j) /\ TaskAnswers(j)
    BY DEF IInv, ResultInv
  <1>2. status[j] \in Statuses
    BY <1>1 DEF TypeOK
  <1>3. ASSUME NEW s \in Terminal, NEW p, NEW e, Transition(j, s, p, e)
        PROVE  Lifecycle!Become(j, s)
    <2>1. s \in Statuses /\ Phase(s) = s
      BY DEF Statuses, Terminal, Phase, Active
    <2>2. status' = [status EXCEPT ![j] = s] /\ UNCHANGED <<runs, cancelRequested>>
      BY <1>3 DEF Transition
    <2> QED
      BY <1>1, <2>1, <2>2, PhaseStep DEF Lifecycle!Become, PhaseOf, Published
  <1>4. CASE Complete(j)
    <2>1. status[j] \in Active /\ runs[j] = 1 /\ "completed" \in Terminal
      BY <1>1, <1>4 DEF Complete, RowFitsLabel, ResultFits, Inside, Working, Terminal
    <2>2. PhaseOf[j] = "active" /\ Published[j]
      <3>1. PhaseOf[j] = "active"
        BY <2>1 DEF PhaseOf, Phase
      <3>2. runs[j] > 0
        BY <2>1
      <3> QED
        BY <3>1, <3>2, PublishedAt
    <2>3. Lifecycle!Become(j, "completed")
      BY <1>3, <1>4, <2>1 DEF Complete
    <2> QED
      BY <2>2, <2>3 DEF Lifecycle!Complete, PhaseOf, Published
  <1>5. CASE RecordCancelled(j)
    <2>1. status[j] \in Cancellable /\ cancelRequested[j] /\ "cancelled" \in Terminal
      BY <1>1, <1>5 DEF RecordCancelled, RowFitsLabel, TaskAnswers, Handlers, Terminal
    <2>2. PhaseOf[j] \in {"queued", "active"}
      BY <1>2, <2>1, PhaseTable DEF PhaseOf
    <2>3. Lifecycle!Become(j, "cancelled")
      BY <1>3, <1>5, <2>1 DEF RecordCancelled
    <2> QED
      BY <2>1, <2>2, <2>3 DEF Lifecycle!Cancel, Lifecycle!Live, PhaseOf
  <1>6. CASE RecordFailed(j) /\ Transition(j, "failed", progress[j], TRUE)
    <2>1. status[j] \in Cancellable /\ Allowed(status[j], "failed") /\ "failed" \in Terminal
      BY <1>1, <1>6 DEF RecordFailed, RowFitsLabel, Handlers, Terminal, Transition
    <2>2. status[j] \in Active
      BY <2>1 DEF Allowed, AllowedFrom, Cancellable, Active
    <2>3. PhaseOf[j] = "active"
      BY <2>2 DEF PhaseOf, Phase
    <2>4. Lifecycle!Become(j, "failed")
      BY <1>3, <1>6, <2>1
    <2> QED
      BY <2>3, <2>4 DEF Lifecycle!Fail, PhaseOf
  <1>7. CASE RecordFailed(j) /\ UNCHANGED rows
    BY <1>7, RowsKept DEF rows
  <1> QED
    BY <1>4, <1>5, <1>6, <1>7 DEF RecordFailed

(* Every step of a task is a step of JobLifecycle or not seen there. *)
LEMMA TaskImplements ==
  ASSUME IInv, ResultInv, NEW j \in Jobs, Task(j) \/ DbFault(j)
  PROVE  [Lifecycle!Next]_(Lifecycle!vars)
  <1>1. RowFitsLabel(j) /\ ResultFits(j) /\ TypeOK
    BY DEF IInv, ResultInv
  <1>2. CASE \/ DbFault(j) \/ Acquire(j) \/ Checkpoint(j) \/ Fetch(j) \/ Engine(j)
             \/ WorkFails(j)
    <2>1. UNCHANGED rows
      BY <1>2 DEF DbFault, Acquire, Checkpoint, Fetch, Engine, WorkFails
    <2> QED
      BY <2>1, RowsKept DEF rows
  <1>3. CASE \/ Begin(j) \/ Download(j) \/ Validate(j) \/ Run(j) \/ Aggregate(j) \/ Report(j)
    <2>1. status[j] \in {"queued"} \cup Active
      BY <1>1, <1>3 DEF Begin, Download, Validate, Run, Aggregate, Report, Stage, RowFitsLabel,
         Inside, Working
    <2>2. CASE Report(j)
      <3>1. status[j] \in Active
        BY <1>1, <2>2 DEF Report, RowFitsLabel, Inside, Working
      <3> QED
        BY <2>1, <2>2, <3>1, StageImplements DEF Report, Lifecycle!Next
    <2>3. CASE Begin(j) \/ Download(j) \/ Validate(j) \/ Run(j) \/ Aggregate(j)
      <3>1. \E s \in Active, p \in 0..100 : Transition(j, s, p, FALSE)
        <4>1. progress[j] \in 0..100
          BY <1>1 DEF TypeOK
        <4>2. CASE Begin(j)
          <5>1. Transition(j, "running", progress[j], FALSE)
            BY <4>2 DEF Begin, Stage
          <5> QED
            BY <4>1, <5>1 DEF Active
        <4>3. CASE Download(j)
          <5>1. Transition(j, "downloading", 5, FALSE)
            BY <4>3 DEF Download, Stage
          <5>2. "downloading" \in Active /\ 5 \in 0..100
            BY DEF Active
          <5> QED
            BY <5>1, <5>2, Zenon
        <4>4. CASE Validate(j)
          <5>1. Transition(j, "validating", 55, FALSE)
            BY <4>4 DEF Validate, Stage
          <5>2. "validating" \in Active /\ 55 \in 0..100
            BY DEF Active
          <5> QED
            BY <5>1, <5>2, Zenon
        <4>5. CASE Run(j)
          <5>1. Transition(j, "running", 65, FALSE)
            BY <4>5 DEF Run, Stage
          <5>2. "running" \in Active /\ 65 \in 0..100
            BY DEF Active
          <5> QED
            BY <5>1, <5>2, Zenon
        <4>6. CASE Aggregate(j)
          <5>1. Transition(j, "aggregating", 95, FALSE)
            BY <4>6 DEF Aggregate, Stage
          <5>2. "aggregating" \in Active /\ 95 \in 0..100
            BY DEF Active
          <5> QED
            BY <5>1, <5>2, Zenon
        <4> QED
          BY <2>3, <4>2, <4>3, <4>4, <4>5, <4>6
      <3> QED
        BY <2>1, <3>1, StageImplements DEF Lifecycle!Next
    <2> QED
      BY <1>3, <2>2, <2>3
  <1>4. CASE Save(j)
    <2>1. /\ pc[j] = "save" /\ runs' = [runs EXCEPT ![j] = @ + 1]
          /\ UNCHANGED <<status, cancelRequested>>
      BY <1>4 DEF Save
    <2>2. status[j] = "aggregating" /\ runs[j] = 0 /\ runs \in [Jobs -> Nat]
      BY <1>1, <2>1 DEF ResultFits, Handlers, TypeOK
    <2>3. PhaseOf[j] = "active" /\ ~Published[j]
      <3>1. PhaseOf[j] = "active"
        BY <2>2 DEF PhaseOf, Phase, Active
      <3>2. ~(runs[j] > 0)
        BY <2>2
      <3> QED
        BY <3>1, <3>2, PublishedAt
    <2>4. Published' = [Published EXCEPT ![j] = TRUE]
      BY <2>1, <2>2, PublishStep
    <2>5. Lifecycle!Publish(j)
      BY <2>1, <2>3, <2>4 DEF Lifecycle!Publish, PhaseOf, Published
    <2> QED
      BY <2>5 DEF Lifecycle!Next
  <1>5. CASE Complete(j) \/ RecordCancelled(j) \/ RecordFailed(j)
    BY <1>5, EndsImplement DEF Lifecycle!Next
  <1> QED
    BY <1>2, <1>3, <1>4, <1>5 DEF Task

(* The environment's steps: submissions, cancel requests, death, restart.  *)
LEMMA EnvironmentImplements ==
  ASSUME IInv, (\E j \in Jobs : Submit(j) \/ RequestCancel(j)) \/ Crash \/ Restart
  PROVE  [Lifecycle!Next]_(Lifecycle!vars)
  <1>1. TypeOK /\ status \in [Jobs -> Statuses]
    BY DEF IInv, TypeOK
  <1>2. ASSUME NEW j \in Jobs, Submit(j) PROVE Lifecycle!Submit(j)
    <2>1. /\ status' = [status EXCEPT ![j] = "queued"] /\ UNCHANGED <<runs, cancelRequested>>
          /\ status[j] = "absent" /\ "queued" \in Statuses
      BY <1>2 DEF Submit, Statuses, Cancellable
    <2>2. Phase("queued") = "queued" /\ PhaseOf[j] = "absent"
      BY <2>1 DEF Phase, PhaseOf, Active
    <2> QED
      BY <1>1, <2>1, <2>2, PhaseStep DEF Lifecycle!Submit, Lifecycle!Become, PhaseOf, Published
  <1>3. ASSUME NEW j \in Jobs, RequestCancel(j) PROVE Lifecycle!AskToCancel(j)
    <2>1. PhaseOf[j] \in {"queued", "active"}
      BY <1>1, <1>3, PhaseTable DEF RequestCancel, PhaseOf
    <2> QED
      BY <1>3, <2>1 DEF RequestCancel, Lifecycle!AskToCancel, Lifecycle!Live, PhaseOf
  <1>4. CASE Crash
    BY <1>4, RowsKept DEF Crash, rows
  <1>5. CASE Restart
    <2>1. \A j \in Jobs : Phase(status'[j]) =
            IF Phase(status[j]) \in {"queued", "active"} THEN "interrupted" ELSE Phase(status[j])
      <3> SUFFICES ASSUME NEW j \in Jobs
                   PROVE  Phase(status'[j]) =
                            IF Phase(status[j]) \in {"queued", "active"} THEN "interrupted"
                                                                        ELSE Phase(status[j])
        OBVIOUS
      <3>1. status'[j] = IF status[j] \in Cancellable THEN "interrupted" ELSE status[j]
        BY <1>5 DEF Restart
      <3>2. Phase("interrupted") = "interrupted"
        BY DEF Phase, Active
      <3> QED
        BY <1>1, <3>1, <3>2, PhaseTable
    <2>2. Lifecycle!Interrupt
      BY <1>5, <2>1 DEF Restart, Lifecycle!Interrupt, Lifecycle!Live
    <2> QED
      BY <2>2 DEF Lifecycle!Next
  <1> QED
    BY <1>2, <1>3, <1>4, <1>5 DEF Lifecycle!Next

(* The rows evolve as JobLifecycle allows: a job settles once, is          *)
(* completed only with a published result, cancelled only when somebody    *)
(* asked, failed only from an active status, and interrupted only by a     *)
(* restart, which settles every live row (jobs/repository.py:20-32,81-142).*)
THEOREM LifecycleImplemented == Spec => Lifecycle!Safety
  <1>1. Init => Lifecycle!Init
    <2> SUFFICES ASSUME Init PROVE Lifecycle!Init
      OBVIOUS
    <2>1. \A j \in Jobs : Phase(status[j]) = "absent" /\ ~(runs[j] > 0)
      BY DEF Init, Phase, Active
    <2>2. PhaseOf = [j \in Jobs |-> "absent"]
      BY <2>1 DEF PhaseOf
    <2>3. Published = [j \in Jobs |-> FALSE]
      <3>1. \A j \in Jobs : ~Published[j]
        BY <2>1, PublishedAt
      <3>2. Published \in [Jobs -> BOOLEAN]
        BY DEF Published
      <3>3. \A j \in Jobs : Published[j] = FALSE
        BY <3>1, <3>2
      <3> QED
        BY <3>2, <3>3
    <2> QED
      BY <2>2, <2>3 DEF Init, Lifecycle!Init, PhaseOf, Published
  <1>2. IInv /\ ResultInv /\ [Next]_vars => [Lifecycle!Next]_(Lifecycle!vars)
    <2> SUFFICES ASSUME IInv, ResultInv, [Next]_vars
                 PROVE  [Lifecycle!Next]_(Lifecycle!vars)
      OBVIOUS
    <2>1. CASE UNCHANGED vars
      BY <2>1, RowsKept DEF vars, rows
    <2> QED
      BY <2>1, TaskImplements, EnvironmentImplements DEF Next
  <1> QED
    BY <1>1, <1>2, ResultInvariant, PTL DEF Spec, Lifecycle!Safety

=============================================================================
