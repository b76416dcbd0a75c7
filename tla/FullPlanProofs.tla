--------------------------- MODULE FullPlanProofs ---------------------------
(***************************************************************************)
(* Theorems about FullPlan for every number of Gates, supervisors, retries *)
(* and migrations.                                                         *)
(***************************************************************************)
EXTENDS FullPlan, SequenceTheorems, TLAPS

-----------------------------------------------------------------------------
(* Generations stay well typed. *)

\* Overwriting one item of a queue leaves a queue.
LEMMA ItemReplaced ==
    ASSUME NEW q \in Seq(Item), NEW i \in DOMAIN q, NEW it \in Item
    PROVE  [q EXCEPT ![i] = it] \in Seq(Item)
  BY ExceptSeq

\* Every index of a generation's queue holds an item.
LEMMA ItemOfQueue ==
    ASSUME NEW g \in Generation, NEW i \in DOMAIN g.queue
    PROVE  g.queue \in Seq(Item) /\ g.queue[i] \in Item
  BY ElementOfSeq DEF Generation

\* A fresh queue item of a Gate of the plan is well typed.
LEMMA QueueItemType ==
    ASSUME NEW g \in Gates
    PROVE  QueueItem(g) \in Item
  BY DEF QueueItem, Item, QUEUE_STATES

\* The generation a registered run starts from is well typed.
LEMMA InitialType == Initial \in Generation
  <1>1. 1 \in Gates /\ 0 \in 0 .. N /\ 1 \in 0 .. N
    BY PlanAssumption DEF Gates
  <1>2. <<QueueItem(1)>> \in Seq(Item)
    BY <1>1, QueueItemType
  <1>3. NoToken \in Token
    BY <1>1 DEF NoToken, Token
  <1> QED
    BY <1>1, <1>2, <1>3 DEF Initial, Generation, ALL_STATES, ACTIVE_STATES,
       WaitReasons, FailureClasses, TerminalReasons, MigrationIds

\* Replacing one item of the queue keeps a generation well typed.
LEMMA ItemSet ==
    ASSUME NEW g \in Generation, NEW i \in DOMAIN g.queue, NEW it \in Item
    PROVE  [g EXCEPT !.queue[i] = it] \in Generation
  <1>1. [g.queue EXCEPT ![i] = it] \in Seq(Item)
    BY ItemOfQueue, ItemReplaced
  <1> QED
    BY <1>1 DEF Generation

\* So does a new status of one item ...
LEMMA StatusSet ==
    ASSUME NEW g \in Generation, NEW i \in DOMAIN g.queue, NEW s \in QUEUE_STATES
    PROVE  [g EXCEPT !.queue[i].status = s] \in Generation
  <1>1. [g.queue[i] EXCEPT !.status = s] \in Item
    BY ItemOfQueue DEF Item
  <1>2. [g.queue EXCEPT ![i] = [g.queue[i] EXCEPT !.status = s]] \in Seq(Item)
    BY <1>1, ItemOfQueue, ItemReplaced
  <1> QED
    BY <1>2 DEF Generation

\* ... and putting it back to be resumed, as the same attempt or a new one.
LEMMA ResumableSet ==
    ASSUME NEW g \in Generation, NEW i \in DOMAIN g.queue
    PROVE  /\ [g EXCEPT !.queue[i] = Resumable(@)] \in Generation
           /\ [g EXCEPT !.queue[i] = NextAttempt(@)] \in Generation
  <1>1. g.queue[i] \in Item
    BY ItemOfQueue
  <1>2. Resumable(g.queue[i]) \in Item
    BY <1>1 DEF Resumable, Item, QUEUE_STATES
  <1>3. NextAttempt(g.queue[i]) \in Item
    BY <1>2 DEF NextAttempt, Item
  <1> QED
    BY <1>2, <1>3, ItemSet

\* What startup reconciliation writes is well typed.
LEMMA ReconciledType ==
    ASSUME NEW g \in Generation
    PROVE  /\ Restored(g) \in Generation
           /\ QueueMissing(g) \in Generation
           /\ \A i \in DOMAIN g.queue : Requeued(g, i) \in Generation
  <1>1. Restored(g) \in Generation
    BY DEF Restored, Generation, ALL_STATES, ACTIVE_STATES, FailureClasses
  <1>2. QueueMissing(g) \in Generation
    BY DEF QueueMissing, Generation, ALL_STATES, TERMINAL_STATES, FailureClasses,
           TerminalReasons
  <1>3. ASSUME NEW i \in DOMAIN g.queue
        PROVE  Requeued(g, i) \in Generation
    BY ResumableSet DEF Requeued, Generation, ALL_STATES, ACTIVE_STATES
  <1> QED
    BY <1>1, <1>2, <1>3

\* What _handle_failure writes is well typed.
LEMMA FailedType ==
    ASSUME NEW g \in Generation, NEW i \in DOMAIN g.queue
    PROVE  /\ \A w \in WAIT_STATES, why \in VerdictReasons :
                FailedToWait(g, i, w, why) \in Generation
           /\ \A c \in FailureClasses : Failed(g, i, c) \in Generation
  <1>1. ASSUME NEW w \in WAIT_STATES, NEW why \in VerdictReasons
        PROVE  FailedToWait(g, i, w, why) \in Generation
    <2>1. WaitReasonFor(g, w, why) \in WaitReasons
      BY DEF WaitReasonFor, VerdictReasons, WaitReasons, Generation, WAIT_STATES
    <2> QED
      BY <2>1, ResumableSet DEF FailedToWait, Generation, ALL_STATES, FailureClasses
  <1>2. ProviderWait(g, i) \in Generation
    BY ResumableSet DEF ProviderWait, WAIT_STATES, WaitReasons, Generation, ALL_STATES,
       FailureClasses, TerminalReasons
  <1>3. ASSUME NEW c \in FailureClasses, NEW why \in TerminalReasons
        PROVE  Quarantined(g, i, c, why) \in Generation
    <2>1. [g EXCEPT !.queue[i].status = "BLOCKED"] \in Generation
      BY StatusSet DEF QUEUE_STATES
    <2> QED
      BY <2>1 DEF Quarantined, Generation, ALL_STATES, TERMINAL_STATES
  <1>4. Retried(g, i) \in Generation
    BY ResumableSet DEF Retried, Generation, ALL_STATES, ACTIVE_STATES, FailureClasses
  <1>5. ASSUME NEW c \in FailureClasses
        PROVE  Failed(g, i, c) \in Generation
    BY <1>2, <1>3, <1>4 DEF Failed, TerminalReasons
  <1> QED
    BY <1>1, <1>5

\* Completing a Gate never leaves the plan: the Gate that is completed lies
\* beyond the completed ones, and a successor exists unless it was the last.
LEMMA GateCompletedType ==
    ASSUME NEW g \in Generation, NEW i \in DOMAIN g.queue
    PROVE  GateCompleted(g, i) \in Generation
  <1> DEFINE c == IF g.queue[i].gate <= g.completed THEN g.completed
                                                   ELSE g.completed + 1
             d == [g EXCEPT !.queue[i].status = "COMPLETED", !.lease = 0,
                            !.error = "EXECUTION_FAILURE", !.completed = c]
  <1>1. g.queue[i].gate \in 1 .. N /\ g.completed \in 0 .. N
    BY ItemOfQueue DEF Generation, Item, Gates
  <1>2. c \in 0 .. N
    BY <1>1, PlanAssumption
  <1>3. [g EXCEPT !.queue[i].status = "COMPLETED"] \in Generation
    BY StatusSet DEF QUEUE_STATES
  <1>4. d \in Generation /\ d.completed = c
    BY <1>2, <1>3 DEF Generation, FailureClasses
  <1> HIDE DEF c, d
  <1>5. GateCompleted(g, i) =
            IF d.completed = N
            THEN [d EXCEPT !.state = "COMPLETED", !.current = 0,
                           !.reason = "ALL_GATES_COMPLETED"]
            ELSE [d EXCEPT !.current = d.completed + 1, !.state = "READY",
                           !.queue = Append(d.queue, QueueItem(d.completed + 1))]
    BY DEF GateCompleted, c, d
  <1>6. CASE d.completed = N
    <2>1. 0 \in 0 .. N
      BY PlanAssumption
    <2>2. "COMPLETED" \in ALL_STATES /\ "ALL_GATES_COMPLETED" \in TerminalReasons
      BY DEF ALL_STATES, TERMINAL_STATES, TerminalReasons
    <2> QED
      BY <1>4, <1>5, <1>6, <2>1, <2>2 DEF Generation
  <1>7. CASE d.completed # N
    <2>1. d.completed + 1 \in Gates /\ d.completed + 1 \in 0 .. N
      BY <1>2, <1>4, <1>7, PlanAssumption DEF Gates
    <2>2. Append(d.queue, QueueItem(d.completed + 1)) \in Seq(Item)
      BY <1>4, <2>1, QueueItemType, AppendProperties DEF Generation
    <2> QED
      BY <1>4, <1>5, <1>7, <2>1, <2>2 DEF Generation, ALL_STATES, ACTIVE_STATES
  <1> QED
    BY <1>6, <1>7

\* Whatever a classified result leads to is well typed.
LEMMA SettledType ==
    ASSUME NEW g \in Generation, NEW i \in DOMAIN g.queue, NEW r \in Results,
           NEW why \in VerdictReasons
    PROVE  Settled(g, i, r, why) \in Generation
  <1>1. CASE r = "COMPLETED"
    BY <1>1, GateCompletedType DEF Settled, WAIT_STATES
  <1>2. CASE r = "CANCELLED"
    <2>1. [g EXCEPT !.queue[i].status = "CANCELLED"] \in Generation
      BY StatusSet DEF QUEUE_STATES
    <2> QED
      BY <1>2, <2>1 DEF Settled, Generation, ALL_STATES, TERMINAL_STATES,
         TerminalReasons, WAIT_STATES
  <1>3. CASE r \in WAIT_STATES
    BY <1>3, FailedType DEF Settled, WAIT_STATES
  <1>4. CASE r \in FailureClasses
    BY <1>4, FailedType DEF Settled, FailureClasses, WAIT_STATES
  <1> QED
    BY <1>1, <1>2, <1>3, <1>4 DEF Results

-----------------------------------------------------------------------------
(* Files and processes stay well typed. *)

\* The generation that load returns is well typed.
LEMMA LoadedType ==
    ASSUME FilesTyped
    PROVE  Loaded \in Generation
  BY DEF FilesTyped, File, Loaded

\* A save keeps both files and both observers well typed ...
LEMMA PersistType ==
    ASSUME FilesTyped, NEW g \in Generation, Persist(g)
    PROVE  FilesTyped'
  <1>1. primary' \in File /\ previous' \in File
    BY DEF FilesTyped, File, Persist, Stored, Rotated
  <1>2. \A at \in Copies : CopiesRotated(at) \in Copies
    BY DEF CopiesRotated, Copies
  <1> QED
    BY <1>1, <1>2 DEF FilesTyped, Persist, Observation, Directive

\* ... and so does a save torn by a crash.
LEMMA TornSaveType ==
    ASSUME FilesTyped, TornSave
    PROVE  FilesTyped'
  <1>1. primary' \in File /\ previous' \in File
    BY DEF FilesTyped, File, TornSave, Rotated
  <1>2. observed' \in Observation /\ directive' \in Directive
    BY DEF FilesTyped, TornSave, Observation, Directive, Copies
  <1> QED
    BY <1>1, <1>2 DEF FilesTyped

\* A supervisor's own step keeps files, memory and label well typed.
LEMMA CommitType ==
    ASSUME TypeOK, NEW p \in Supervisors, NEW g \in Generation, NEW l \in Labels,
           Commit(p, g, l)
    PROVE  FilesTyped' /\ mem' \in [Supervisors -> Generation]
                       /\ pc' \in [Supervisors -> Labels]
  <1>1. FilesTyped'
    BY PersistType DEF Commit, TypeOK
  <1> QED
    BY <1>1 DEF Commit, TypeOK, ProcessesTyped

\* A supervisor that leaves the run stays well typed.
LEMMA IdleType ==
    ASSUME TypeOK, NEW p \in Supervisors, Idle(p)
    PROVE  /\ mem' \in [Supervisors -> Generation]
           /\ pc' \in [Supervisors -> Labels]
           /\ outcome' \in [Supervisors -> Results \union {"NONE"}]
  BY InitialType DEF Idle, TypeOK, ProcessesTyped, Labels

-----------------------------------------------------------------------------
(* Every step keeps the type invariant and ResultsKnown. *)

\* A step that only writes a generation and moves on, other than to settle.
LEMMA CommitStep ==
    ASSUME TypeOK, ResultsKnown, NEW p \in Supervisors, NEW g \in Generation,
           NEW l \in Labels \ {"verifying"}, Commit(p, g, l),
           UNCHANGED <<lock, worker, outcome, tokens, transaction, history, budgets>>
    PROVE  TypeOK' /\ ResultsKnown'
  <1>1. FilesTyped' /\ mem' \in [Supervisors -> Generation]
                    /\ pc' \in [Supervisors -> Labels]
    BY CommitType
  <1>2. TypeOK'
    BY <1>1 DEF TypeOK, ProcessesTyped, RecordsTyped, history, budgets
  <1>3. ResultsKnown'
    BY DEF TypeOK, ProcessesTyped, ResultsKnown, Commit
  <1> QED
    BY <1>2, <1>3

\* A supervisor that leaves the run without touching the files.
LEMMA LeaveStep ==
    ASSUME TypeOK, ResultsKnown, NEW p \in Supervisors, Idle(p), lock' = NoOne,
           UNCHANGED <<files, worker, observed, directive, tokens, transaction,
                       history, budgets>>
    PROVE  TypeOK' /\ ResultsKnown'
  <1>1. TypeOK'
    BY IdleType DEF TypeOK, FilesTyped, ProcessesTyped, RecordsTyped, files,
       history, budgets
  <1>2. ResultsKnown'
    BY DEF TypeOK, ProcessesTyped, ResultsKnown, Idle
  <1> QED
    BY <1>1, <1>2

\* An operation that writes one generation under the lock.
LEMMA InterveneStep ==
    ASSUME TypeOK, ResultsKnown, NEW g \in Generation, Intervene(g),
           tokens' \subseteq HeldToken
    PROVE  TypeOK' /\ ResultsKnown'
  <1>1. FilesTyped'
    BY PersistType DEF Intervene, TypeOK
  <1>2. TypeOK'
    BY <1>1 DEF Intervene, TypeOK, ProcessesTyped, RecordsTyped, history
  <1>3. ResultsKnown'
    BY DEF Intervene, ResultsKnown
  <1> QED
    BY <1>2, <1>3

\* Startup reconciliation.
LEMMA ReconcileStep ==
    ASSUME TypeOK, ResultsKnown, NEW p \in Supervisors,
           ReconcileStartup(p) \/ ReconcileRefused(p)
    PROVE  TypeOK' /\ ResultsKnown'
  <1> DEFINE g == Restored(Loaded)
  <1>1. g \in Generation
    BY LoadedType, ReconciledType DEF TypeOK
  <1>2. "loop" \in Labels \ {"verifying"}
    BY DEF Labels
  <1>3. CASE ReconcileRefused(p)
    BY <1>3, LeaveStep DEF ReconcileRefused
  <1>4. CASE ReconcileStartup(p)
    <2> HIDE DEF g
    <2>1. UNCHANGED <<lock, worker, outcome, tokens, transaction, history, budgets>>
      BY <1>4 DEF ReconcileStartup
    <2>2. \/ \E h \in Generation : Commit(p, h, "loop")
          \/ /\ mem' = [mem EXCEPT ![p] = g]
             /\ pc'  = [pc EXCEPT ![p] = "loop"]
             /\ UNCHANGED <<files, observed, directive>>
      BY <1>1, <1>4, ReconciledType DEF ReconcileStartup, g
    <2>3. CASE \E h \in Generation : Commit(p, h, "loop")
      BY <1>2, <2>1, <2>3, CommitStep
    <2>4. CASE /\ mem' = [mem EXCEPT ![p] = g]
               /\ pc'  = [pc EXCEPT ![p] = "loop"]
               /\ UNCHANGED <<files, observed, directive>>
      <3>1. TypeOK'
        BY <1>1, <1>2, <2>1, <2>4 DEF TypeOK, FilesTyped, ProcessesTyped,
           RecordsTyped, files, history, budgets
      <3>2. ResultsKnown'
        BY <2>1, <2>4 DEF TypeOK, ProcessesTyped, ResultsKnown
      <3> QED
        BY <3>1, <3>2
    <2> QED
      BY <2>2, <2>3, <2>4
  <1> QED
    BY <1>3, <1>4

\* The dispatch loop up to the dispatch intent.
LEMMA LoopStep ==
    ASSUME TypeOK, ResultsKnown, NEW p \in Supervisors,
           \/ Return(p) \/ NothingQueued(p) \/ LowResources(p)
           \/ PreflightWaits(p) \/ PreflightBlocks(p) \/ Dispatch(p)
    PROVE  TypeOK' /\ ResultsKnown'
  <1>1. mem[p] \in Generation
    BY DEF TypeOK, ProcessesTyped
  <1>2. {"loop", "dispatched"} \subseteq Labels \ {"verifying"}
    BY DEF Labels
  <1>3. CASE Return(p)
    BY <1>3, LeaveStep DEF Return
  <1>4. CASE NothingQueued(p)
    <2>1. \E h \in Generation : Commit(p, h, "loop")
      BY <1>1, <1>4 DEF NothingQueued, Generation, ALL_STATES, TERMINAL_STATES,
         TerminalReasons, FailureClasses
    <2> QED
      BY <1>2, <1>4, <2>1, CommitStep DEF NothingQueued
  <1>5. CASE LowResources(p)
    <2>1. \E h \in Generation : Commit(p, h, "loop")
      BY <1>1, <1>5 DEF LowResources, Generation, ALL_STATES, WAIT_STATES,
         WaitReasons, FailureClasses
    <2> QED
      BY <1>2, <1>5, <2>1, CommitStep DEF LowResources
  <1>6. CASE PreflightWaits(p)
    <2>1. \E h \in Generation : Commit(p, h, "loop")
      BY <1>1, <1>6, FailedType DEF PreflightWaits
    <2> QED
      BY <1>2, <1>6, <2>1, CommitStep DEF PreflightWaits
  <1>7. CASE PreflightBlocks(p)
    <2>1. PICK i \in DOMAIN mem[p].queue, c \in FailureClasses :
             Commit(p, [mem[p] EXCEPT !.queue[i].status = "BLOCKED",
                                      !.state = "BLOCKED", !.error = c,
                                      !.reason = "PREFLIGHT_BLOCKED"], "loop")
      BY <1>7 DEF PreflightBlocks
    <2>2. [mem[p] EXCEPT !.queue[i].status = "BLOCKED"] \in Generation
      BY <1>1, StatusSet DEF QUEUE_STATES
    <2>3. [mem[p] EXCEPT !.queue[i].status = "BLOCKED", !.state = "BLOCKED",
                         !.error = c, !.reason = "PREFLIGHT_BLOCKED"] \in Generation
      BY <1>1, <2>2 DEF Generation, ALL_STATES, TERMINAL_STATES, TerminalReasons
    <2> QED
      BY <1>2, <1>7, <2>1, <2>3, CommitStep DEF PreflightBlocks
  <1>8. CASE Dispatch(p)
    <2>1. PICK i \in DOMAIN mem[p].queue :
             Commit(p, [mem[p] EXCEPT !.queue[i].status = "DISPATCHED",
                                      !.state = "DISPATCHED"], "dispatched")
      BY <1>8 DEF Dispatch
    <2>2. [mem[p] EXCEPT !.queue[i].status = "DISPATCHED"] \in Generation
      BY <1>1, StatusSet DEF QUEUE_STATES
    <2>3. [mem[p] EXCEPT !.queue[i].status = "DISPATCHED",
                         !.state = "DISPATCHED"] \in Generation
      BY <1>1, <2>2 DEF Generation, ALL_STATES, ACTIVE_STATES
    <2> QED
      BY <1>2, <1>8, <2>1, <2>3, CommitStep DEF Dispatch
  <1> QED
    BY <1>3, <1>4, <1>5, <1>6, <1>7, <1>8

\* The Gate process from its fork to the end of its heartbeats.
LEMMA ProcessStep ==
    ASSUME TypeOK, ResultsKnown, NEW p \in Supervisors,
           Fork(p) \/ RecordRunning(p) \/ Heartbeat(p) \/ WorkerExits(p)
    PROVE  TypeOK' /\ ResultsKnown'
  <1>1. mem[p] \in Generation
    BY DEF TypeOK, ProcessesTyped
  <1>2. CASE Fork(p)
    <2>1. PICK i \in DOMAIN mem[p].queue :
             /\ worker' = [worker EXCEPT ![p] =
                   [phase |-> "running", gate |-> mem[p].queue[i].gate,
                    resume |-> mem[p].queue[i].resume, result |-> "NONE"]]
             /\ fresh' = IF mem[p].queue[i].resume THEN fresh
                         ELSE [fresh EXCEPT ![mem[p].queue[i].gate] = @ + 1]
      BY <1>2 DEF Fork
    <2>2. mem[p].queue[i] \in Item
      BY <1>1, ItemOfQueue
    <2>3. worker' \in [Supervisors -> Worker]
      BY <2>1, <2>2 DEF TypeOK, ProcessesTyped, Worker, Item, Gates
    <2>4. fresh' \in [Gates -> Nat]
      BY <2>1, <2>2 DEF TypeOK, RecordsTyped, Item
    <2>5. TypeOK'
      BY <1>2, <2>3, <2>4 DEF Fork, TypeOK, FilesTyped, ProcessesTyped,
         RecordsTyped, Labels, files, budgets
    <2>6. ResultsKnown'
      BY <1>2, <2>1 DEF Fork, TypeOK, ProcessesTyped, ResultsKnown
    <2> QED
      BY <2>5, <2>6
  <1>3. CASE RecordRunning(p)
    <2>1. PICK i \in DOMAIN mem[p].queue :
             Commit(p, [mem[p] EXCEPT !.lease = mem[p].epoch + 1, !.epoch = @ + 1,
                                      !.state = "RUNNING",
                                      !.queue[i].status = "RUNNING"], "running")
      BY <1>3 DEF RecordRunning
    <2>2. [mem[p] EXCEPT !.queue[i].status = "RUNNING"] \in Generation
      BY <1>1, StatusSet DEF QUEUE_STATES
    <2>3. mem[p].epoch + 1 \in Nat
      BY <1>1 DEF Generation
    <2>4. [mem[p] EXCEPT !.lease = mem[p].epoch + 1, !.epoch = @ + 1,
                         !.state = "RUNNING", !.queue[i].status = "RUNNING"]
             \in Generation
      BY <1>1, <2>2, <2>3 DEF Generation, ALL_STATES, ACTIVE_STATES
    <2>5. "running" \in Labels \ {"verifying"}
      BY DEF Labels
    <2> QED
      BY <1>3, <2>1, <2>4, <2>5, CommitStep DEF RecordRunning
  <1>4. CASE Heartbeat(p)
    BY <1>1, <1>4, CommitStep DEF Heartbeat, Labels
  <1>5. CASE WorkerExits(p)
    <2>1. PICK r \in Results :
             worker' = [worker EXCEPT ![p] = [@ EXCEPT !.phase = "exited", !.result = r]]
      BY <1>5 DEF WorkerExits
    <2>2. worker' \in [Supervisors -> Worker]
      <3>1. [worker[p] EXCEPT !.phase = "exited", !.result = r] \in Worker
        BY DEF TypeOK, ProcessesTyped, Worker
      <3> QED
        BY <2>1, <3>1 DEF TypeOK, ProcessesTyped
    <2>3. TypeOK'
      BY <1>5, <2>2 DEF WorkerExits, TypeOK, FilesTyped, ProcessesTyped,
         RecordsTyped, files, history, budgets
    <2>4. ResultsKnown'
      BY <1>5, <2>1 DEF WorkerExits, TypeOK, ProcessesTyped, Worker, ResultsKnown
    <2> QED
      BY <2>3, <2>4
  <1> QED
    BY <1>2, <1>3, <1>4, <1>5

\* The result of a Gate process: received, failed, timed out or settled.
LEMMA ResultStep ==
    ASSUME TypeOK, ResultsKnown, NEW p \in Supervisors,
           ResultReceived(p) \/ WorkerFailed(p) \/ WorkerTimesOut(p) \/ Settle(p)
    PROVE  TypeOK' /\ ResultsKnown'
  <1>1. mem[p] \in Generation
    BY DEF TypeOK, ProcessesTyped
  <1>2. NoWorker \in Worker
    BY PlanAssumption DEF NoWorker, Worker
  <1>3. "loop" \in Labels /\ "verifying" \in Labels
    BY DEF Labels
  <1>4. ASSUME NEW i \in DOMAIN mem[p].queue, NEW c, CountRetry(mem[p], i, c)
        PROVE  retries' \in [Gates -> Nat]
    <2>1. mem[p].queue[i].gate \in Gates
      BY <1>1, ItemOfQueue DEF Item
    <2> QED
      BY <1>4, <2>1 DEF CountRetry, TypeOK, RecordsTyped
  <1>5. CASE ResultReceived(p)
    <2>1. [mem[p] EXCEPT !.state = "VERIFYING"] \in Generation
      BY <1>1 DEF Generation, ALL_STATES, ACTIVE_STATES
    <2>2. FilesTyped' /\ mem' \in [Supervisors -> Generation]
                      /\ pc' \in [Supervisors -> Labels]
      BY <1>3, <1>5, <2>1, CommitType DEF ResultReceived
    <2>3. worker[p].result \in Results
      BY <1>5 DEF ResultReceived, ResultsKnown
    <2>4. TypeOK'
      BY <1>2, <1>5, <2>2, <2>3 DEF ResultReceived, TypeOK, ProcessesTyped,
         RecordsTyped, history, budgets
    <2>5. ResultsKnown'
      BY <1>5, <2>3 DEF ResultReceived, Commit, TypeOK, ProcessesTyped,
         ResultsKnown, NoWorker
    <2> QED
      BY <2>4, <2>5
  <1>6. CASE WorkerFailed(p) \/ WorkerTimesOut(p)
    <2>1. PICK i \in DOMAIN mem[p].queue, c \in FailureClasses :
             Commit(p, Failed(mem[p], i, c), "loop") /\ CountRetry(mem[p], i, c)
      BY <1>6 DEF WorkerFailed, WorkerTimesOut, FailureClasses
    <2>2. FilesTyped' /\ mem' \in [Supervisors -> Generation]
                      /\ pc' \in [Supervisors -> Labels]
      BY <1>1, <1>3, <2>1, FailedType, CommitType
    <2>3. /\ worker' = [worker EXCEPT ![p] = NoWorker]
          /\ UNCHANGED <<lock, outcome, tokens, transaction, fresh, budgets>>
      BY <1>6 DEF WorkerFailed, WorkerTimesOut
    <2>4. TypeOK'
      BY <1>2, <1>4, <2>1, <2>2, <2>3 DEF TypeOK, ProcessesTyped, RecordsTyped, budgets
    <2>5. ResultsKnown'
      BY <2>1, <2>3 DEF Commit, TypeOK, ProcessesTyped, ResultsKnown, NoWorker
    <2> QED
      BY <2>4, <2>5
  <1>7. CASE Settle(p)
    <2>1. outcome[p] \in Results
      BY <1>7 DEF Settle, ResultsKnown
    <2>2. PICK i \in DOMAIN mem[p].queue, why \in VerdictReasons :
             /\ Commit(p, Settled(mem[p], i, outcome[p], why), "loop")
             /\ CountRetry(mem[p], i, outcome[p])
      BY <1>7 DEF Settle
    <2>3. FilesTyped' /\ mem' \in [Supervisors -> Generation]
                      /\ pc' \in [Supervisors -> Labels]
      BY <1>1, <1>3, <2>1, <2>2, SettledType, CommitType
    <2>4. TypeOK'
      BY <1>4, <1>7, <2>2, <2>3 DEF Settle, TypeOK, ProcessesTyped, RecordsTyped, budgets
    <2>5. ResultsKnown'
      BY <1>7, <2>2 DEF Settle, Commit, TypeOK, ProcessesTyped, ResultsKnown
    <2> QED
      BY <2>4, <2>5
  <1> QED
    BY <1>5, <1>6, <1>7

\* Crashes, failed saves and the end of the children they leave behind.
LEMMA CrashStep ==
    ASSUME TypeOK, ResultsKnown, NEW p \in Supervisors,
           Crash(p) \/ SaveFails(p) \/ OrphanExits(p) \/ AbandonedExits(p)
    PROVE  TypeOK' /\ ResultsKnown'
  <1>1. NoWorker \in Worker
    BY PlanAssumption DEF NoWorker, Worker
  <1>2. ASSUME TornSave \/ UNCHANGED <<files, observed, directive>>
        PROVE  FilesTyped'
    <2>1. CASE UNCHANGED <<files, observed, directive>>
      BY <2>1 DEF TypeOK, FilesTyped, files
    <2> QED
      BY <1>2, <2>1, TornSaveType DEF TypeOK
  <1>3. CASE Crash(p)
    <2>1. FilesTyped'
      BY <1>2, <1>3 DEF Crash
    <2>2. lock' \in Supervisors \union {NoOne, Transaction}
      BY <1>3 DEF Crash, LockAfterCrash
    <2>3. worker' \in [Supervisors -> Worker]
      BY <1>1, <1>3 DEF Crash, TypeOK, ProcessesTyped
    <2>4. TypeOK'
      BY <1>3, <2>1, <2>2, <2>3, IdleType DEF Crash, TypeOK, ProcessesTyped,
         RecordsTyped, history
    <2>5. ResultsKnown'
      BY <1>3 DEF Crash, Idle, TypeOK, ProcessesTyped, ResultsKnown, NoWorker
    <2> QED
      BY <2>4, <2>5
  <1>4. CASE SaveFails(p)
    <2>1. FilesTyped'
      BY <1>2, <1>4 DEF SaveFails
    <2>2. worker' \in [Supervisors -> Worker]
      BY <1>4 DEF SaveFails, TypeOK, ProcessesTyped, Worker
    <2>3. TypeOK'
      BY <1>4, <2>1, <2>2, IdleType DEF SaveFails, TypeOK, ProcessesTyped,
         RecordsTyped, history
    <2>4. ResultsKnown'
      BY <1>4 DEF SaveFails, Idle, TypeOK, ProcessesTyped, ResultsKnown, Worker
    <2> QED
      BY <2>3, <2>4
  <1>5. CASE OrphanExits(p) \/ AbandonedExits(p)
    <2>1. worker' = [worker EXCEPT ![p] = NoWorker]
      BY <1>5 DEF OrphanExits, AbandonedExits
    <2>2. TypeOK'
      BY <1>1, <1>5, <2>1 DEF OrphanExits, AbandonedExits, TypeOK, FilesTyped,
         ProcessesTyped, RecordsTyped, files, history, budgets
    <2>3. ResultsKnown'
      BY <1>5, <2>1 DEF OrphanExits, AbandonedExits, TypeOK, ProcessesTyped,
         ResultsKnown, NoWorker
    <2> QED
      BY <2>2, <2>3
  <1> QED
    BY <1>3, <1>4, <1>5

\* The lock and continuation transactions; damage of the primary file.
LEMMA LockStep ==
    ASSUME TypeOK, ResultsKnown,
           \/ \E p \in Supervisors : Acquire(p)
           \/ \E h \in tokens : BeginTransaction(h)
           \/ EndTransaction
           \/ \E k \in {"garbled", "drifted"} : Corrupt(k)
    PROVE  TypeOK' /\ ResultsKnown'
  <1>1. NoToken \in Token
    BY PlanAssumption DEF NoToken, Token
  <1>2. ASSUME NEW p \in Supervisors, Acquire(p)
        PROVE  TypeOK' /\ ResultsKnown'
    <2>1. TypeOK'
      BY <1>2 DEF Acquire, TypeOK, FilesTyped, ProcessesTyped, RecordsTyped,
         Labels, files, history, budgets
    <2>2. ResultsKnown'
      BY <1>2 DEF Acquire, TypeOK, ProcessesTyped, ResultsKnown
    <2> QED
      BY <2>1, <2>2
  <1>3. ASSUME NEW h \in tokens, BeginTransaction(h)
        PROVE  TypeOK' /\ ResultsKnown'
    <2>1. h.token \in Token /\ [h EXCEPT !.used = TRUE] \in HeldToken
      BY DEF TypeOK, RecordsTyped, HeldToken
    <2>2. TypeOK'
      BY <1>3, <2>1 DEF BeginTransaction, TypeOK, FilesTyped, ProcessesTyped,
         RecordsTyped, files, history, budgets
    <2>3. ResultsKnown'
      BY <1>3 DEF BeginTransaction, ResultsKnown
    <2> QED
      BY <2>2, <2>3
  <1>4. CASE EndTransaction
    BY <1>1, <1>4 DEF EndTransaction, TypeOK, FilesTyped, ProcessesTyped,
       RecordsTyped, ResultsKnown, files, history, budgets
  <1>5. ASSUME NEW k \in {"garbled", "drifted"}, Corrupt(k)
        PROVE  TypeOK' /\ ResultsKnown'
    <2>1. Damaged(k) \in File
      BY InitialType DEF Damaged, File
    <2>2. observed' \in Observation /\ directive' \in Directive
      BY <1>5 DEF Corrupt, TypeOK, FilesTyped, Observation, Directive, Copies
    <2>3. TypeOK'
      BY <1>5, <2>1, <2>2 DEF Corrupt, TypeOK, FilesTyped, ProcessesTyped,
         RecordsTyped, history
    <2>4. ResultsKnown'
      BY <1>5 DEF Corrupt, ResultsKnown
    <2> QED
      BY <2>3, <2>4
  <1> QED
    BY <1>2, <1>3, <1>4, <1>5

\* Remote directives.
LEMMA DirectiveStep ==
    ASSUME TypeOK, ResultsKnown,
           IssueDirective \/ \E p \in Supervisors : ExecuteDirective(p)
    PROVE  TypeOK' /\ ResultsKnown'
  <1>1. Loaded \in Generation
    BY LoadedType DEF TypeOK
  <1>2. NextOwnerEpoch(Loaded) \in Nat
    BY <1>1 DEF NextOwnerEpoch, Larger, Generation, Token
  <1>3. CASE IssueDirective
    <2>1. directive' \in Directive
      BY <1>1, <1>2, <1>3 DEF IssueDirective, Directive, Copies, Generation
    <2>2. TypeOK'
      BY <1>3, <2>1 DEF IssueDirective, TypeOK, FilesTyped, ProcessesTyped,
         RecordsTyped, files, history
    <2>3. ResultsKnown'
      BY <1>3 DEF IssueDirective, ResultsKnown
    <2> QED
      BY <2>2, <2>3
  <1>4. ASSUME NEW p \in Supervisors, ExecuteDirective(p)
        PROVE  TypeOK' /\ ResultsKnown'
    <2> DEFINE t == [gate |-> directive.gate, epoch |-> directive.epoch]
    <2>1. t \in Token
      BY DEF TypeOK, FilesTyped, Directive, Token
    <2>2. [Loaded EXCEPT !.owner = t] \in Generation
      BY <1>1, <2>1 DEF Generation
    <2>3. primary' \in File /\ previous' \in File
      BY <1>4, <2>2 DEF ExecuteDirective, Stored, Rotated, File, TypeOK, FilesTyped
    <2>4. \A at \in Copies : CopiesRotated(at) \in Copies
      BY DEF CopiesRotated, Copies
    <2>5. observed' \in Observation
      BY <1>4, <2>4 DEF ExecuteDirective, TypeOK, FilesTyped, Observation
    <2>6. directive' \in Directive
      <3>1. directive' = [directive EXCEPT !.at = CopiesRotated(directive.at),
                                           !.claims = directive.claims + 1]
        BY <1>4 DEF ExecuteDirective
      <3>2. CopiesRotated(directive.at) \in Copies /\ directive.claims + 1 \in Nat
        BY <2>4 DEF TypeOK, FilesTyped, Directive
      <3> QED
        BY <3>1, <3>2 DEF TypeOK, FilesTyped, Directive
    <2>7. TypeOK'
      BY <1>4, <2>3, <2>5, <2>6 DEF ExecuteDirective, TypeOK, FilesTyped,
         ProcessesTyped, RecordsTyped, Labels, history, budgets
    <2>8. ResultsKnown'
      BY <1>4 DEF ExecuteDirective, TypeOK, ProcessesTyped, ResultsKnown
    <2> QED
      BY <2>7, <2>8
  <1> QED
    BY <1>3, <1>4

\* Operator and reconciler operations.
LEMMA WaitStep ==
    ASSUME TypeOK, ResultsKnown,
           \/ \E w \in WAIT_STATES : ResumeWait(w)
           \/ ObserveWait \/ ResumeWaitCas \/ Cancel
           \/ ReclassifyProviderWait \/ ResumeRecoverableBlock \/ OperationTorn
    PROVE  TypeOK' /\ ResultsKnown'
  <1>1. Loaded \in Generation
    BY LoadedType DEF TypeOK
  <1>2. ASSUME UNCHANGED tokens PROVE tokens' \subseteq HeldToken
    BY <1>2 DEF TypeOK, RecordsTyped
  <1>3. CASE (\E w \in WAIT_STATES : ResumeWait(w)) \/ ResumeWaitCas
    <2>1. PICK i \in DOMAIN Loaded.queue : Intervene(WaitResumed(Loaded, i))
      BY <1>3 DEF ResumeWait, ResumeWaitCas
    <2>2. WaitResumed(Loaded, i) \in Generation
      BY <1>1, ResumableSet DEF WaitResumed, Generation, ALL_STATES,
         ACTIVE_STATES, FailureClasses, WaitReasons
    <2> QED
      BY <1>2, <1>3, <2>1, <2>2, InterveneStep DEF ResumeWait, ResumeWaitCas
  <1>4. CASE ObserveWait
    <2>1. observed' \in Observation
      BY <1>1, <1>4 DEF ObserveWait, AutoRecoverable, Observation, Copies,
         WAIT_STATES, Generation
    <2>2. TypeOK'
      BY <1>4, <2>1 DEF ObserveWait, TypeOK, FilesTyped, ProcessesTyped,
         RecordsTyped, files, history, budgets
    <2>3. ResultsKnown'
      BY <1>4 DEF ObserveWait, ResultsKnown
    <2> QED
      BY <2>2, <2>3
  <1>5. CASE Cancel
    <2> DEFINE g == [Loaded EXCEPT !.state = "CANCELLED", !.reason = "CANCELLED",
                                   !.lease = 0]
    <2>1. g \in Generation /\ g.queue = Loaded.queue
      BY <1>1 DEF Generation, ALL_STATES, TERMINAL_STATES, TerminalReasons
    <2> HIDE DEF g
    <2>2. \/ Intervene(g)
          \/ \E i \in DOMAIN g.queue : Intervene([g EXCEPT !.queue[i].status = "CANCELLED"])
      BY <1>5, <2>1 DEF Cancel, g
    <2>3. \A i \in DOMAIN g.queue : [g EXCEPT !.queue[i].status = "CANCELLED"] \in Generation
      BY <2>1, StatusSet DEF QUEUE_STATES
    <2> QED
      BY <1>2, <1>5, <2>1, <2>2, <2>3, InterveneStep DEF Cancel
  <1>6. CASE ReclassifyProviderWait
    <2>1. PICK i \in DOMAIN Loaded.queue :
             Intervene([Loaded EXCEPT !.queue[i] = Resumable(@),
                                      !.state = "WAITING_PROVIDER", !.reason = "NONE",
                                      !.lease = 0])
      BY <1>6 DEF ReclassifyProviderWait
    <2>2. [Loaded EXCEPT !.queue[i] = Resumable(@), !.state = "WAITING_PROVIDER",
                         !.reason = "NONE", !.lease = 0] \in Generation
      BY <1>1, ResumableSet DEF Generation, ALL_STATES, WAIT_STATES, TerminalReasons
    <2> QED
      BY <1>2, <1>6, <2>1, <2>2, InterveneStep DEF ReclassifyProviderWait
  <1>7. CASE ResumeRecoverableBlock
    <2>1. PICK i \in DOMAIN Loaded.queue :
             Intervene([Requeued(Loaded, i) EXCEPT !.reason = "NONE",
                                                   !.error = "EXECUTION_FAILURE"])
      BY <1>7 DEF ResumeRecoverableBlock
    <2>2. Requeued(Loaded, i) \in Generation
      BY <1>1, ReconciledType
    <2>3. [Requeued(Loaded, i) EXCEPT !.reason = "NONE", !.error = "EXECUTION_FAILURE"]
             \in Generation
      BY <2>2 DEF Generation, TerminalReasons, FailureClasses
    <2> QED
      BY <1>2, <1>7, <2>1, <2>3, InterveneStep DEF ResumeRecoverableBlock
  <1>8. CASE OperationTorn
    <2>1. FilesTyped'
      BY <1>8, TornSaveType DEF OperationTorn, TypeOK
    <2>2. TypeOK'
      BY <1>8, <2>1 DEF OperationTorn, TypeOK, ProcessesTyped, RecordsTyped, history
    <2>3. ResultsKnown'
      BY <1>8 DEF OperationTorn, ResultsKnown
    <2> QED
      BY <2>2, <2>3
  <1> QED
    BY <1>3, <1>4, <1>5, <1>6, <1>7, <1>8

\* Continuation owners and the predecessor's side of a migration.
LEMMA OwnershipStep ==
    ASSUME TypeOK, ResultsKnown,
           \/ ClaimOwner
           \/ \E m \in Migrations : \/ Quiesce(m) \/ RecordVerifiedSuccessor(m)
                                    \/ RecordQualification(m) \/ ClosePredecessor(m)
    PROVE  TypeOK' /\ ResultsKnown'
  <1>1. Loaded \in Generation
    BY LoadedType DEF TypeOK
  <1>2. ASSUME UNCHANGED tokens PROVE tokens' \subseteq HeldToken
    BY <1>2 DEF TypeOK, RecordsTyped
  <1>3. CASE ClaimOwner
    <2> DEFINE t == [gate |-> Loaded.current, epoch |-> NextOwnerEpoch(Loaded)]
    <2>1. t \in Token
      BY <1>1 DEF NextOwnerEpoch, Larger, Generation, Token
    <2>2. [Loaded EXCEPT !.owner = t] \in Generation
      BY <1>1, <2>1 DEF Generation
    <2>3. tokens' \subseteq HeldToken
      <3>1. [token |-> t, used |-> FALSE] \in HeldToken
        BY <2>1 DEF HeldToken
      <3>2. tokens' = tokens \union {[token |-> t, used |-> FALSE]}
        BY <1>3 DEF ClaimOwner
      <3> QED
        BY <3>1, <3>2 DEF TypeOK, RecordsTyped
    <2> QED
      BY <1>3, <2>2, <2>3, InterveneStep DEF ClaimOwner
  <1>4. ASSUME NEW m \in Migrations, Quiesce(m)
        PROVE  TypeOK' /\ ResultsKnown'
    <2>1. PICK q \in BOOLEAN :
             Intervene([Loaded EXCEPT !.state = "WAITING_RESOURCE", !.lease = 0,
                                      !.wait = "RUNTIME_MIGRATION_QUIESCED",
                                      !.error = "EXECUTION_FAILURE",
                                      !.migration = m, !.qualify = q])
      BY <1>4 DEF Quiesce
    <2>2. [Loaded EXCEPT !.state = "WAITING_RESOURCE", !.lease = 0,
                         !.wait = "RUNTIME_MIGRATION_QUIESCED",
                         !.error = "EXECUTION_FAILURE",
                         !.migration = m, !.qualify = q] \in Generation
      BY <1>1 DEF Generation, ALL_STATES, WAIT_STATES, WaitReasons, FailureClasses,
         MigrationIds
    <2> QED
      BY <1>2, <1>4, <2>1, <2>2, InterveneStep DEF Quiesce
  <1>5. ASSUME NEW m \in Migrations, RecordVerifiedSuccessor(m)
        PROVE  TypeOK' /\ ResultsKnown'
    <2>1. [Loaded EXCEPT !.successor = m, !.verified = TRUE] \in Generation
      BY <1>1 DEF Generation, MigrationIds
    <2> QED
      BY <1>2, <1>5, <2>1, InterveneStep DEF RecordVerifiedSuccessor
  <1>6. ASSUME NEW m \in Migrations, RecordQualification(m)
        PROVE  TypeOK' /\ ResultsKnown'
    <2>1. [Loaded EXCEPT !.qualified = m] \in Generation
      BY <1>1 DEF Generation, MigrationIds
    <2> QED
      BY <1>2, <1>6, <2>1, InterveneStep DEF RecordQualification
  <1>7. ASSUME NEW m \in Migrations, ClosePredecessor(m)
        PROVE  TypeOK' /\ ResultsKnown'
    <2> DEFINE g == [Loaded EXCEPT !.state = "CANCELLED", !.error = "EXECUTION_FAILURE",
                                   !.lease = 0, !.reason = "MIGRATED_TO_SUCCESSOR"]
    <2>1. g \in Generation /\ g.queue = Loaded.queue
      BY <1>1 DEF Generation, ALL_STATES, TERMINAL_STATES, TerminalReasons, FailureClasses
    <2> HIDE DEF g
    <2>2. \/ Intervene(g)
          \/ \E i \in DOMAIN g.queue : Intervene([g EXCEPT !.queue[i].status = "CANCELLED"])
      BY <1>7, <2>1 DEF ClosePredecessor, g
    <2>3. \A i \in DOMAIN g.queue : [g EXCEPT !.queue[i].status = "CANCELLED"] \in Generation
      BY <2>1, StatusSet DEF QUEUE_STATES
    <2> QED
      BY <1>2, <1>7, <2>1, <2>2, <2>3, InterveneStep DEF ClosePredecessor
  <1> QED
    BY <1>3, <1>4, <1>5, <1>6, <1>7

-----------------------------------------------------------------------------
(* The theorems. *)

\* Every field of every generation, in the files and in the supervisors' memory,
\* keeps its range, whatever crashes, is damaged or is operated on; a settled
\* result is one that a Gate process has left behind.
THEOREM TypeCorrect == Spec => [](TypeOK /\ ResultsKnown)
  <1>1. Init => TypeOK /\ ResultsKnown
    <2> SUFFICES ASSUME Init PROVE TypeOK /\ ResultsKnown
      OBVIOUS
    <2>1. FilesTyped
      BY InitialType, PlanAssumption DEF Init, FilesTyped, File, Stored, Damaged,
         Observation, Directive, Copies, WaitReasons
    <2>2. ProcessesTyped
      BY InitialType, PlanAssumption DEF Init, ProcessesTyped, Labels, NoWorker, Worker
    <2>3. RecordsTyped
      BY PlanAssumption DEF Init, RecordsTyped, NoToken, Token
    <2>4. ResultsKnown
      BY DEF Init, ResultsKnown, NoWorker
    <2> QED
      BY <2>1, <2>2, <2>3, <2>4 DEF TypeOK
  <1>2. TypeOK /\ ResultsKnown /\ [Next]_vars => TypeOK' /\ ResultsKnown'
    <2> SUFFICES ASSUME TypeOK, ResultsKnown, [Next]_vars
                 PROVE  TypeOK' /\ ResultsKnown'
      OBVIOUS
    <2>1. CASE UNCHANGED vars
      BY <2>1 DEF vars, TypeOK, FilesTyped, ProcessesTyped, RecordsTyped, ResultsKnown
    <2>2. ASSUME NEW p \in Supervisors, SupervisorStep(p)
          PROVE  TypeOK' /\ ResultsKnown'
      BY <2>2, ReconcileStep, LoopStep, ProcessStep, ResultStep, CrashStep
         DEF SupervisorStep
    <2>3. CASE Operation
      BY <2>3, WaitStep, OwnershipStep, DirectiveStep DEF Operation
    <2> QED
      BY <2>1, <2>2, <2>3, CrashStep, LockStep, DirectiveStep DEF Next
  <1> QED
    BY <1>1, <1>2, PTL DEF Spec

\* The lock follows the processes: every step keeps LockHeld.
LEMMA LockHeldStep ==
    ASSUME TypeOK, LockHeld, Next
    PROVE  LockHeld'
  <1> USE PlanAssumption DEF TypeOK, ProcessesTyped, LockHeld
  <1>1. ASSUME NEW p \in Supervisors, Acquire(p)
        PROVE  LockHeld'
    BY <1>1 DEF Acquire, LockFree
  <1>2. ASSUME NEW p \in Supervisors, ExecuteDirective(p)
        PROVE  LockHeld'
    BY <1>2 DEF ExecuteDirective, LockFree
  <1>3. ASSUME NEW p \in Supervisors,
               \/ ReconcileStartup(p) \/ NothingQueued(p) \/ LowResources(p)
               \/ PreflightWaits(p) \/ PreflightBlocks(p) \/ Dispatch(p)
               \/ RecordRunning(p) \/ Heartbeat(p)
        PROVE  LockHeld'
    <2>1. /\ \/ pc[p] \in {"start", "loop"} /\ \E l : pc' = [pc EXCEPT ![p] = l]
             \/ /\ pc[p] \in {"forked", "running"}
                /\ pc' = [pc EXCEPT ![p] = "running"]
          /\ UNCHANGED <<lock, worker>>
      BY <1>3 DEF ReconcileStartup, NothingQueued, LowResources, PreflightWaits,
         PreflightBlocks, Dispatch, RecordRunning, Heartbeat, Commit, InLoop
    <2> QED
      BY <2>1
  <1>4. ASSUME NEW p \in Supervisors, Return(p) \/ ReconcileRefused(p)
        PROVE  LockHeld'
    BY <1>4 DEF Return, ReconcileRefused, Idle
  <1>5. ASSUME NEW p \in Supervisors, Fork(p) \/ WorkerExits(p)
        PROVE  LockHeld'
    BY <1>5 DEF Fork, WorkerExits
  <1>6. ASSUME NEW p \in Supervisors,
               ResultReceived(p) \/ WorkerFailed(p) \/ WorkerTimesOut(p) \/ Settle(p)
        PROVE  LockHeld'
    BY <1>6 DEF ResultReceived, WorkerFailed, WorkerTimesOut, Settle, Commit, NoWorker
  <1>7. ASSUME NEW p \in Supervisors, Crash(p)
        PROVE  LockHeld'
    BY <1>7 DEF Crash, Idle, LockAfterCrash, NoWorker
  <1>8. ASSUME NEW p \in Supervisors, SaveFails(p)
        PROVE  LockHeld'
    BY <1>8 DEF SaveFails, Idle, Worker
  <1>9. ASSUME NEW p \in Supervisors, OrphanExits(p) \/ AbandonedExits(p)
        PROVE  LockHeld'
    BY <1>9 DEF OrphanExits, AbandonedExits, NoWorker
  <1>10. CASE Operation
    <2>1. \/ \E g : Intervene(g)
          \/ ObserveWait \/ IssueDirective \/ OperationTorn
      BY <1>10 DEF Operation, ResumeWait, ResumeWaitCas, Cancel,
         ReclassifyProviderWait, ResumeRecoverableBlock, ClaimOwner, Quiesce,
         RecordVerifiedSuccessor, RecordQualification, ClosePredecessor
    <2>2. UNCHANGED <<lock, pc, worker>>
      BY <2>1 DEF Intervene, ObserveWait, IssueDirective, OperationTorn
    <2> QED
      BY <2>2
  <1>11. ASSUME NEW h \in tokens, BeginTransaction(h)
         PROVE  LockHeld'
    BY <1>11 DEF BeginTransaction, LockFree
  <1>12. CASE EndTransaction
    BY <1>12 DEF EndTransaction
  <1>13. ASSUME NEW k \in {"garbled", "drifted"}, Corrupt(k)
         PROVE  LockHeld'
    BY <1>13 DEF Corrupt
  <1> QED
    BY <1>1, <1>2, <1>3, <1>4, <1>5, <1>6, <1>7, <1>8, <1>9, <1>10, <1>11, <1>12,
       <1>13 DEF Next, SupervisorStep

\* Whoever runs the plan, or left a live orphan behind, has the lock.
THEOREM LockFollowsProcesses == Spec => []LockHeld
  <1>1. Init => LockHeld
    BY DEF Init, LockHeld, NoWorker
  <1>2. TypeOK /\ LockHeld /\ [Next]_vars => LockHeld'
    <2>1. CASE UNCHANGED vars
      BY <2>1 DEF vars, LockHeld
    <2> QED
      BY <2>1, LockHeldStep
  <1> QED
    BY <1>1, <1>2, TypeCorrect, PTL DEF Spec

\* Mutual exclusion of Gate processes: at most one supervised or orphaned
\* process of the run is alive, for any number of supervisors, crashes, damages
\* and operations.
THEOREM MutualExclusion == Spec => []SingleWorker
  <1>1. LockHeld => SingleWorker
    BY DEF LockHeld, SingleWorker
  <1> QED
    BY <1>1, LockFollowsProcesses, PTL
=============================================================================
