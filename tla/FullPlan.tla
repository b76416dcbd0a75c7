------------------------------ MODULE FullPlan ------------------------------
(***************************************************************************)
(* The durable cross-Gate supervisor of a FULL_PLAN run                    *)
(* (runtime/orchestrator/production_full_plan_runner.py, class             *)
(* DurableFullPlanSupervisor), the two-generation state file it writes     *)
(* (durable_io.py), the periodic reconciler that resumes typed waits by    *)
(* compare-and-swap (production_full_plan_boot.py) and the registered      *)
(* remote continuation (ocpv2_canonical_resume.py).                        *)
(*                                                                         *)
(* Gates are numbered 1..N in plan order.  A state file is a record with   *)
(* its readability ("ok", "garbled": not JSON, "drifted": JSON whose seal  *)
(* fails, "absent") and the generation it holds.  A state digest is        *)
(* compared by location: an observer remembers which of the two files      *)
(* still hold the very generation it read, because progress_sequence       *)
(* makes the digest of every later generation different.                   *)
(***************************************************************************)
EXTENDS Integers, Sequences, FiniteSets

CONSTANTS
    N,              \* number of Gates of the plan
    RetryBudget,    \* automatic retries of one Gate
    Supervisors,    \* processes that may run the supervisor
    ExecutionOwner, \* "AUTO_RECONCILE" or "OCPV2": who may start the run
    Migrations,     \* runtime migrations that may name this run as predecessor
    NoMigration,
    NoOne,          \* nobody holds the run lock
    Transaction,    \* the run lock is held by a continuation transaction
    MaxOps,         \* bound: operator, reconciler and directive interventions
    MaxCrashes,     \* bound: supervisor crashes
    MaxCorruptions  \* bound: damages of the primary state file

ASSUME PlanAssumption ==
    /\ N \in Nat \ {0}
    /\ RetryBudget \in Nat
    /\ ExecutionOwner \in {"AUTO_RECONCILE", "OCPV2"}
    /\ NoOne \notin Supervisors /\ Transaction \notin Supervisors
    /\ NoOne # Transaction
    /\ NoMigration \notin Migrations
    /\ MaxOps \in Nat /\ MaxCrashes \in Nat /\ MaxCorruptions \in Nat

VARIABLES
    primary,     \* state.json
    previous,    \* state.json.prev
    lock,        \* holder of supervisor.lock (flock)
    pc,          \* where each supervisor process is
    mem,         \* the state dictionary each running supervisor holds
    worker,      \* the forked Gate process of each supervisor
    outcome,     \* the classified Gate result a supervisor is settling
    observed,    \* the wait generation the periodic reconciler has read
    directive,   \* the remote directive bound to a state digest and an epoch
    tokens,      \* continuation owner tokens handed out
    transaction, \* the token inside continuation_transaction
    fresh,       \* history: executions of each Gate begun with resume = False
    retries,     \* history: automatic retries enqueued for each Gate
    ops, crashes, corruptions

files   == <<primary, previous>>
history == <<fresh, retries>>
budgets == <<ops, crashes, corruptions>>
vars == <<primary, previous, lock, pc, mem, worker, outcome, observed,
          directive, tokens, transaction, fresh, retries, ops, crashes,
          corruptions>>

-----------------------------------------------------------------------------
(* The vocabulary of the durable state. *)

ACTIVE_STATES   == {"READY", "DISPATCHED", "RUNNING", "VERIFYING", "RECOVERING"}
WAIT_STATES     == {"WAITING_APPROVAL", "WAITING_PROVIDER",
                    "WAITING_RESOURCE", "WAITING_EVIDENCE"}
TERMINAL_STATES == {"BLOCKED", "FAILED", "COMPLETED", "CANCELLED"}
ALL_STATES      == ACTIVE_STATES \union WAIT_STATES \union TERMINAL_STATES
QUEUE_STATES    == {"READY", "DISPATCHED", "RUNNING", "COMPLETED", "BLOCKED",
                    "CANCELLED"}
DoneItem        == {"COMPLETED", "BLOCKED", "CANCELLED"}

\* _failure_class: a reason text matters only through its class.
FailureClasses == {"EXECUTION_FAILURE", "PROVIDER_FAILURE",
                   "ARTIFACT_CONTRACT_FAILURE"}

WaitReasons == {"NONE", "PROVIDER_UNAVAILABLE", "LOW_RESOURCE_BACKPRESSURE",
                "CONTINUATION_RECOVERY_PENDING", "RUNTIME_MIGRATION_QUIESCED"}

TerminalReasons == {"NONE", "ALL_GATES_COMPLETED", "DURABLE_SUCCESSOR_MISSING",
                    "STARTUP_RECONCILIATION_BLOCKED", "PREFLIGHT_BLOCKED",
                    "ARTIFACT_CONTRACT_RECOVERY_REQUIRED",
                    "RETRY_BUDGET_EXHAUSTED", "MIGRATED_TO_SUCCESSOR",
                    "CANCELLED"}

\* What the child sends back: a classified result, or an error of some class.
Results == {"COMPLETED", "CANCELLED"} \union WAIT_STATES \union FailureClasses

Gates == 1 .. N

Item == [gate : Gates, status : QUEUE_STATES, attempt : Nat, resume : BOOLEAN]

Token == [gate : 0 .. N, epoch : Nat]

\* A token in a caller's hands.  Bound: a caller enters one transaction with it,
\* where the code sets no limit; a second one, like the first, needs the token to
\* be the newest, and finds the run as the end of the first leaves it.
HeldToken == [token : Token, used : BOOLEAN]

NoToken == [gate |-> 0, epoch |-> 0]

MigrationIds == Migrations \union {NoMigration}

Generation ==
    [state : ALL_STATES, completed : 0 .. N, current : 0 .. N,
     queue : Seq(Item), lease : Nat, epoch : Nat, owner : Token,
     wait : WaitReasons, error : FailureClasses, reason : TerminalReasons,
     migration : MigrationIds, verified : BOOLEAN, successor : MigrationIds,
     qualify : BOOLEAN, qualified : MigrationIds]

\* _queue_item
QueueItem(g) == [gate |-> g, status |-> "READY", attempt |-> 1, resume |-> FALSE]

\* _initial
Initial ==
    [state |-> "READY", completed |-> 0, current |-> 1,
     queue |-> <<QueueItem(1)>>, lease |-> 0, epoch |-> 0, owner |-> NoToken,
     wait |-> "NONE", error |-> "EXECUTION_FAILURE", reason |-> "NONE",
     migration |-> NoMigration, verified |-> FALSE, successor |-> NoMigration,
     qualify |-> FALSE, qualified |-> NoMigration]

\* An item put back in the queue to be resumed, as the same or as a new attempt.
Resumable(it)   == [it EXCEPT !.status = "READY", !.resume = TRUE]
NextAttempt(it) == [Resumable(it) EXCEPT !.attempt = @ + 1]

\* _active_item: the first item of the queue that is not done.
IsActive(g, i) ==
    /\ i \in DOMAIN g.queue
    /\ g.queue[i].status \notin DoneItem
    /\ \A j \in DOMAIN g.queue : j < i => g.queue[j].status \in DoneItem

NoActive(g) == \A i \in DOMAIN g.queue : g.queue[i].status \in DoneItem

Larger(a, b) == IF a > b THEN a ELSE b

-----------------------------------------------------------------------------
(* durable_io: the primary file and its previous-good generation. *)

File == [kind : {"ok", "garbled", "drifted", "absent"}, gen : Generation]

Stored(g) == [kind |-> "ok", gen |-> g]

Damaged(k) == [kind |-> k, gen |-> Initial]

\* load: the primary if it is valid, otherwise the previous generation.
Loadable  == primary.kind = "ok" \/ previous.kind = "ok"
Recovered == primary.kind # "ok"
Loaded    == IF primary.kind = "ok" THEN primary.gen ELSE previous.gen

\* Mutant of Rotated: the previous file is never written.
NeverRotated == previous

\* Mutant of Rotated: the primary is copied without parsing it.
RotatedUnparsed == primary

\* durable_json_save copies any primary that parses over the previous file.
Rotated == IF primary.kind = "garbled" THEN previous ELSE primary

Copies == SUBSET {"primary", "previous"}

CopiesRotated(at) ==
    IF primary.kind = "garbled" THEN at \intersect {"previous"}
    ELSE IF "primary" \in at THEN {"previous"} ELSE {}

\* The digest an observer holds is the digest of the loaded generation.
SameDigest(at) == IF primary.kind = "ok" THEN "primary" \in at
                                         ELSE "previous" \in at

\* _persist
Persist(g) ==
    /\ previous' = Rotated
    /\ primary'  = Stored(g)
    /\ observed'  = [observed  EXCEPT !.at = CopiesRotated(@)]
    /\ directive' = [directive EXCEPT !.at = CopiesRotated(@)]

\* A crash between the two file replacements of durable_json_save.
TornSave ==
    LET at(s) == IF primary.kind = "garbled" THEN s
                 ELSE IF "primary" \in s THEN {"primary", "previous"} ELSE {}
    IN /\ previous' = Rotated
       /\ observed'  = [observed  EXCEPT !.at = at(@)]
       /\ directive' = [directive EXCEPT !.at = at(@)]
       /\ UNCHANGED primary

\* The primary file is damaged on disk: unreadable, or readable but unsealed.
Corrupt(k) ==
    /\ corruptions < MaxCorruptions
    /\ primary.kind = "ok"
    /\ corruptions' = corruptions + 1
    /\ primary' = Damaged(k)
    /\ observed'  = [observed  EXCEPT !.at = @ \ {"primary"}]
    /\ directive' = [directive EXCEPT !.at = @ \ {"primary"}]
    /\ UNCHANGED <<previous, lock, pc, mem, worker, outcome, tokens,
                   transaction, history, ops, crashes>>

-----------------------------------------------------------------------------
(* The run lock and the forked Gate process. *)

NoWorker == [phase |-> "none", gate |-> 0, resume |-> FALSE, result |-> "NONE"]

\* "abandoned": alive, but its supervisor has given up the run and its lock.
Worker == [phase : {"none", "running", "abandoned", "exited"}, gate : 0 .. N,
           resume : BOOLEAN, result : Results \union {"NONE"}]

\* _acquire_run_lock: flock(LOCK_EX | LOCK_NB), refused while anyone holds it.
LockFree == lock = NoOne

\* Mutant of LockAfterCrash: the lock dies with the supervisor alone.
LockLostByCrash(p) == NoOne

\* The child is forked with the descriptor of the lock, so a crashed
\* supervisor's lock stays taken until its Gate process is gone as well.
LockAfterCrash(p) == IF worker[p].phase = "running" THEN p ELSE NoOne

Idle(p) ==
    /\ pc'      = [pc EXCEPT ![p] = "idle"]
    /\ mem'     = [mem EXCEPT ![p] = Initial]
    /\ outcome' = [outcome EXCEPT ![p] = "NONE"]

\* The supervisor's own step: it writes generation g and goes on at label l.
Commit(p, g, l) ==
    /\ Persist(g)
    /\ mem' = [mem EXCEPT ![p] = g]
    /\ pc'  = [pc EXCEPT ![p] = l]

-----------------------------------------------------------------------------
(* run: acquire the lock and reconcile the durable state. *)

\* run_job / reconcile_job start the generic runner only for AUTO_RECONCILE.
Acquire(p) ==
    /\ ExecutionOwner = "AUTO_RECONCILE"
    /\ LockFree /\ pc[p] = "idle" /\ worker[p].phase = "none"
    /\ lock' = p
    /\ pc' = [pc EXCEPT ![p] = "start"]
    /\ UNCHANGED <<files, mem, worker, outcome, observed, directive, tokens,
                   transaction, history, budgets>>

\* reconcile_startup: a previous-good generation is restored as RECOVERING ...
Restored(g) ==
    IF Recovered THEN [g EXCEPT !.state = "RECOVERING", !.error = "EXECUTION_FAILURE"]
                 ELSE g

Interrupted(g) == g.state \in {"DISPATCHED", "RUNNING", "VERIFYING"}

\* Mutant of Requeued: the item is not marked for resumption.
RequeuedAfresh(g, i) ==
    [g EXCEPT !.queue[i].status = "READY",
              !.queue[i].attempt = @ + 1, !.lease = 0, !.state = "RECOVERING"]

\* ... and an interrupted execution is re-queued to be resumed.
Requeued(g, i) ==
    [g EXCEPT !.queue[i] = NextAttempt(@), !.lease = 0, !.state = "RECOVERING"]

QueueMissing(g) ==
    [g EXCEPT !.state = "BLOCKED", !.error = "EXECUTION_FAILURE", !.lease = 0,
              !.reason = "STARTUP_RECONCILIATION_BLOCKED"]

ReconcileStartup(p) ==
    LET g == Restored(Loaded) IN
    /\ pc[p] = "start" /\ Loadable
    /\ \/ /\ Interrupted(g)
          /\ \/ \E i \in DOMAIN g.queue :
                   IsActive(g, i) /\ Commit(p, Requeued(g, i), "loop")
             \/ NoActive(g) /\ Commit(p, QueueMissing(g), "loop")
       \/ ~Interrupted(g) /\ Recovered /\ Commit(p, g, "loop")
       \/ /\ ~Interrupted(g) /\ ~Recovered
          /\ mem' = [mem EXCEPT ![p] = g]
          /\ pc'  = [pc EXCEPT ![p] = "loop"]
          /\ UNCHANGED <<files, observed, directive>>
    /\ UNCHANGED <<lock, worker, outcome, tokens, transaction, history, budgets>>

\* load raises when neither generation is valid: the run ends with an error.
ReconcileRefused(p) ==
    /\ pc[p] = "start" /\ ~Loadable
    /\ lock' = NoOne
    /\ Idle(p)
    /\ UNCHANGED <<files, worker, observed, directive, tokens, transaction,
                   history, budgets>>

-----------------------------------------------------------------------------
(* _handle_failure *)

\* The reason a WAITING_RESOURCE verdict carries.  The reconciler leaves a wait
\* for a receipt, like one for a continuation, to its owner: they are one value.
VerdictReasons == {"CONTINUATION_RECOVERY_PENDING", "LOW_RESOURCE_BACKPRESSURE",
                   "RUNTIME_MIGRATION_QUIESCED"}

WaitReasonFor(g, w, why) ==
    CASE w = "WAITING_PROVIDER" -> "PROVIDER_UNAVAILABLE"
      [] w = "WAITING_RESOURCE" -> why
      [] OTHER -> g.wait

\* The class of last_error is read back only in a BLOCKED state: elsewhere it
\* is left at EXECUTION_FAILURE.
FailedToWait(g, i, w, why) ==
    [g EXCEPT !.queue[i] = Resumable(@),
              !.lease = 0, !.state = w, !.wait = WaitReasonFor(g, w, why),
              !.error = "EXECUTION_FAILURE"]

ProviderWait(g, i) ==
    [g EXCEPT !.queue[i] = Resumable(@), !.lease = 0, !.state = "WAITING_PROVIDER",
              !.wait = "PROVIDER_UNAVAILABLE", !.error = "EXECUTION_FAILURE",
              !.reason = "NONE"]

Quarantined(g, i, c, why) ==
    [g EXCEPT !.queue[i].status = "BLOCKED", !.lease = 0, !.state = "BLOCKED",
              !.error = c, !.reason = why]

\* Mutant of CanRetry: one retry too many.
CanRetryOnceMore(g, i) == g.queue[i].attempt <= RetryBudget + 1

CanRetry(g, i) == g.queue[i].attempt <= RetryBudget

Retried(g, i) ==
    [g EXCEPT !.queue[i] = NextAttempt(@), !.lease = 0, !.state = "RECOVERING",
              !.error = "EXECUTION_FAILURE"]

\* A provider failure waits, an artifact failure is quarantined at once and an
\* execution failure is retried within the budget.
Failed(g, i, c) ==
    CASE c = "PROVIDER_FAILURE" -> ProviderWait(g, i)
      [] c = "ARTIFACT_CONTRACT_FAILURE" ->
            Quarantined(g, i, c, "ARTIFACT_CONTRACT_RECOVERY_REQUIRED")
      [] c = "EXECUTION_FAILURE" /\ CanRetry(g, i) -> Retried(g, i)
      [] OTHER -> Quarantined(g, i, c, "RETRY_BUDGET_EXHAUSTED")

CountRetry(g, i, c) ==
    retries' = IF c = "EXECUTION_FAILURE" /\ CanRetry(g, i)
               THEN [retries EXCEPT ![g.queue[i].gate] = @ + 1] ELSE retries

-----------------------------------------------------------------------------
(* _run_locked: the dispatch loop. *)

InLoop(p) == pc[p] = "loop" /\ mem[p].state \notin WAIT_STATES \union TERMINAL_STATES

\* The run returns on a wait or terminal state and releases the lock.
Return(p) ==
    /\ pc[p] = "loop" /\ mem[p].state \in WAIT_STATES \union TERMINAL_STATES
    /\ lock' = NoOne
    /\ Idle(p)
    /\ UNCHANGED <<files, worker, observed, directive, tokens, transaction,
                   history, budgets>>

NothingQueued(p) ==
    LET g == mem[p] IN
    /\ InLoop(p) /\ NoActive(g)
    /\ Commit(p, IF g.completed = N
                 THEN [g EXCEPT !.state = "COMPLETED", !.reason = "ALL_GATES_COMPLETED"]
                 ELSE [g EXCEPT !.state = "BLOCKED", !.error = "EXECUTION_FAILURE",
                                !.reason = "DURABLE_SUCCESSOR_MISSING"], "loop")
    /\ UNCHANGED <<lock, worker, outcome, tokens, transaction, history, budgets>>

\* _resource_gate fails
LowResources(p) ==
    LET g == mem[p] IN
    /\ InLoop(p) /\ ~NoActive(g)
    /\ Commit(p, [g EXCEPT !.state = "WAITING_RESOURCE", !.error = "EXECUTION_FAILURE",
                           !.wait = "LOW_RESOURCE_BACKPRESSURE"], "loop")
    /\ UNCHANGED <<lock, worker, outcome, tokens, transaction, history, budgets>>

\* The preflight verdict is a wait, through _handle_failure, or a block.
PreflightWaits(p) ==
    LET g == mem[p] IN
    /\ InLoop(p)
    /\ \E i \in DOMAIN g.queue, w \in WAIT_STATES, why \in VerdictReasons :
          IsActive(g, i) /\ Commit(p, FailedToWait(g, i, w, why), "loop")
    /\ UNCHANGED <<lock, worker, outcome, tokens, transaction, history, budgets>>

PreflightBlocks(p) ==
    LET g == mem[p] IN
    /\ InLoop(p)
    /\ \E i \in DOMAIN g.queue, c \in FailureClasses :
          /\ IsActive(g, i)
          /\ Commit(p, [g EXCEPT !.queue[i].status = "BLOCKED", !.state = "BLOCKED",
                                 !.error = c, !.reason = "PREFLIGHT_BLOCKED"], "loop")
    /\ UNCHANGED <<lock, worker, outcome, tokens, transaction, history, budgets>>

\* Mutant of Dispatch: the dispatch intent stays in memory.
DispatchUnsaved(p) ==
    LET g == mem[p] IN
    /\ InLoop(p)
    /\ \E i \in DOMAIN g.queue :
          /\ IsActive(g, i)
          /\ mem' = [mem EXCEPT ![p].queue[i].status = "DISPATCHED",
                               ![p].state = "DISPATCHED"]
    /\ pc' = [pc EXCEPT ![p] = "dispatched"]
    /\ UNCHANGED <<files, observed, directive, lock, worker, outcome, tokens,
                   transaction, history, budgets>>

\* DISPATCH_INTENT_COMMITTED is durable before the child exists.
Dispatch(p) ==
    LET g == mem[p] IN
    /\ InLoop(p)
    /\ \E i \in DOMAIN g.queue :
          /\ IsActive(g, i)
          /\ Commit(p, [g EXCEPT !.queue[i].status = "DISPATCHED",
                                 !.state = "DISPATCHED"], "dispatched")
    /\ UNCHANGED <<lock, worker, outcome, tokens, transaction, history, budgets>>

\* _run_gate_process: process.start() ...
Fork(p) ==
    LET g == mem[p] IN
    /\ pc[p] = "dispatched"
    /\ \E i \in DOMAIN g.queue :
          /\ IsActive(g, i)
          /\ worker' = [worker EXCEPT ![p] =
                [phase |-> "running", gate |-> g.queue[i].gate,
                 resume |-> g.queue[i].resume, result |-> "NONE"]]
          /\ fresh' = IF g.queue[i].resume THEN fresh
                      ELSE [fresh EXCEPT ![g.queue[i].gate] = @ + 1]
    /\ pc' = [pc EXCEPT ![p] = "forked"]
    /\ UNCHANGED <<files, lock, mem, outcome, observed, directive, tokens,
                   transaction, retries, budgets>>

\* ... and only then the lease and the RUNNING state are written.
RecordRunning(p) ==
    LET g == mem[p] IN
    /\ pc[p] = "forked"
    /\ \E i \in DOMAIN g.queue :
          /\ IsActive(g, i)
          /\ Commit(p, [g EXCEPT !.lease = g.epoch + 1, !.epoch = @ + 1,
                                 !.state = "RUNNING",
                                 !.queue[i].status = "RUNNING"], "running")
    /\ UNCHANGED <<lock, worker, outcome, tokens, transaction, history, budgets>>

\* A heartbeat rewrites the same generation, and so rotates the previous file.
Heartbeat(p) ==
    /\ pc[p] = "running" /\ worker[p].phase = "running"
    /\ Commit(p, mem[p], "running")
    /\ UNCHANGED <<lock, worker, outcome, tokens, transaction, history, budgets>>

\* The child ends: it sends a result, sends an error, or dies without a word.
WorkerExits(p) ==
    /\ pc[p] # "idle" /\ worker[p].phase = "running"
    /\ \E r \in Results :
          worker' = [worker EXCEPT ![p] = [@ EXCEPT !.phase = "exited", !.result = r]]
    /\ UNCHANGED <<files, lock, pc, mem, outcome, observed, directive, tokens,
                   transaction, history, budgets>>

\* A child that answers OK is verified; its result is durable as VERIFYING.
ResultReceived(p) ==
    /\ pc[p] = "running" /\ worker[p].phase = "exited"
    /\ outcome' = [outcome EXCEPT ![p] = worker[p].result]
    /\ worker' = [worker EXCEPT ![p] = NoWorker]
    /\ Commit(p, [mem[p] EXCEPT !.state = "VERIFYING"], "verifying")
    /\ UNCHANGED <<lock, tokens, transaction, history, budgets>>

\* A child that raised, or died, is a failure without a VERIFYING generation.
WorkerFailed(p) ==
    LET g == mem[p] IN
    /\ pc[p] = "running" /\ worker[p].phase = "exited"
    /\ worker[p].result \in FailureClasses
    /\ worker' = [worker EXCEPT ![p] = NoWorker]
    /\ \E i \in DOMAIN g.queue :
          /\ IsActive(g, i)
          /\ Commit(p, Failed(g, i, worker[p].result), "loop")
          /\ CountRetry(g, i, worker[p].result)
    /\ UNCHANGED <<lock, outcome, tokens, transaction, fresh, budgets>>

\* A hung child is terminated; the timeout is an execution failure.
WorkerTimesOut(p) ==
    LET g == mem[p] IN
    /\ pc[p] = "running" /\ worker[p].phase = "running"
    /\ worker' = [worker EXCEPT ![p] = NoWorker]
    /\ \E i \in DOMAIN g.queue :
          /\ IsActive(g, i)
          /\ Commit(p, Failed(g, i, "EXECUTION_FAILURE"), "loop")
          /\ CountRetry(g, i, "EXECUTION_FAILURE")
    /\ UNCHANGED <<lock, outcome, tokens, transaction, fresh, budgets>>

\* Mutant of GateCompleted: the successor is not enqueued with the completion.
GateCompletedAlone(g, i) ==
    LET d == [g EXCEPT !.queue[i].status = "COMPLETED", !.lease = 0,
                       !.completed = IF g.queue[i].gate <= g.completed THEN @ ELSE @ + 1]
    IN IF d.completed = N
       THEN [d EXCEPT !.state = "COMPLETED", !.current = 0,
                      !.reason = "ALL_GATES_COMPLETED"]
       ELSE [d EXCEPT !.current = d.completed + 1, !.state = "READY"]

\* Mutant of GateCompleted: the last Gate gets a successor as well.
GateCompletedPastEnd(g, i) ==
    LET d == [g EXCEPT !.queue[i].status = "COMPLETED", !.lease = 0,
                       !.completed = IF g.queue[i].gate <= g.completed THEN @ ELSE @ + 1]
    IN [d EXCEPT !.current = d.completed + 1, !.state = "READY",
                 !.queue = Append(@, QueueItem(d.completed + 1))]

\* Gate completion and the successor's dispatch intent are one generation.
GateCompleted(g, i) ==
    LET d == [g EXCEPT !.queue[i].status = "COMPLETED", !.lease = 0,
                       !.error = "EXECUTION_FAILURE",
                       !.completed = IF g.queue[i].gate <= g.completed THEN @ ELSE @ + 1]
    IN IF d.completed = N
       THEN [d EXCEPT !.state = "COMPLETED", !.current = 0,
                      !.reason = "ALL_GATES_COMPLETED"]
       ELSE [d EXCEPT !.current = d.completed + 1, !.state = "READY",
                      !.queue = Append(@, QueueItem(d.completed + 1))]

\* Mutant of Settled: a Gate that asks for the user's approval is completed.
SettledUnapproved(g, i, r, why) ==
    CASE r \in {"COMPLETED", "WAITING_APPROVAL"} -> GateCompleted(g, i)
      [] r = "CANCELLED" -> [g EXCEPT !.queue[i].status = "CANCELLED",
                                      !.state = "CANCELLED", !.reason = "CANCELLED"]
      [] r \in WAIT_STATES \ {"WAITING_APPROVAL"} -> FailedToWait(g, i, r, why)
      [] OTHER -> Failed(g, i, r)

Settled(g, i, r, why) ==
    CASE r = "COMPLETED" -> GateCompleted(g, i)
      [] r = "CANCELLED" -> [g EXCEPT !.queue[i].status = "CANCELLED",
                                      !.state = "CANCELLED", !.reason = "CANCELLED"]
      [] r \in WAIT_STATES -> FailedToWait(g, i, r, why)
      [] OTHER -> Failed(g, i, r)

\* _classify_gate_result and what each class of result leads to.
Settle(p) ==
    LET g == mem[p] IN
    /\ pc[p] = "verifying"
    /\ \E i \in DOMAIN g.queue, why \in VerdictReasons :
          /\ IsActive(g, i)
          /\ Commit(p, Settled(g, i, outcome[p], why), "loop")
          /\ CountRetry(g, i, outcome[p])
    /\ outcome' = [outcome EXCEPT ![p] = "NONE"]
    /\ UNCHANGED <<lock, worker, tokens, transaction, fresh, budgets>>

AboutToSave(p) ==
    \/ pc[p] = "start" /\ Loadable /\ (Recovered \/ Interrupted(Loaded))
    \/ InLoop(p)
    \/ pc[p] \in {"forked", "running", "verifying"}

\* The supervisor process dies, possibly between the two writes of a save.
Crash(p) ==
    /\ crashes < MaxCrashes
    /\ pc[p] # "idle"
    /\ crashes' = crashes + 1
    /\ Idle(p)
    /\ lock' = LockAfterCrash(p)
    /\ worker' = IF worker[p].phase = "running" THEN worker
                 ELSE [worker EXCEPT ![p] = NoWorker]
    /\ (AboutToSave(p) /\ TornSave) \/ UNCHANGED <<files, observed, directive>>
    /\ UNCHANGED <<tokens, transaction, history, ops, corruptions>>

\* Mutant of OrphanExits: no parent-death signal, and the orphan hangs.
OrphanHangs(p) == pc[p] = "gone" /\ UNCHANGED vars

\* The parent-death signal, or its own end, takes an orphaned child away.
OrphanExits(p) ==
    /\ pc[p] = "idle" /\ worker[p].phase = "running"
    /\ worker' = [worker EXCEPT ![p] = NoWorker]
    /\ lock' = NoOne
    /\ UNCHANGED <<files, pc, mem, outcome, observed, directive, tokens,
                   transaction, history, budgets>>

\* A save of the lease or of a heartbeat fails (a full disk): the exception
\* leaves _run_gate_process, run unlocks explicitly and the process stays to
\* join its live child, which nobody supervises any more.
SaveFails(p) ==
    /\ crashes < MaxCrashes
    /\ pc[p] \in {"forked", "running"} /\ worker[p].phase = "running"
    /\ crashes' = crashes + 1
    /\ Idle(p)
    /\ lock' = NoOne
    /\ worker' = [worker EXCEPT ![p].phase = "abandoned"]
    /\ TornSave \/ UNCHANGED <<files, observed, directive>>
    /\ UNCHANGED <<tokens, transaction, history, ops, corruptions>>

AbandonedExits(p) ==
    /\ worker[p].phase = "abandoned"
    /\ worker' = [worker EXCEPT ![p] = NoWorker]
    /\ UNCHANGED <<files, lock, pc, mem, outcome, observed, directive, tokens,
                   transaction, history, budgets>>

SupervisorStep(p) ==
    \/ ReconcileStartup(p) \/ ReconcileRefused(p) \/ Return(p)
    \/ NothingQueued(p) \/ LowResources(p) \/ PreflightWaits(p)
    \/ PreflightBlocks(p) \/ Dispatch(p) \/ Fork(p) \/ RecordRunning(p)
    \/ Heartbeat(p) \/ ResultReceived(p) \/ WorkerFailed(p)
    \/ WorkerTimesOut(p) \/ Settle(p)
    \/ WorkerExits(p) \/ OrphanExits(p)

-----------------------------------------------------------------------------
(* Operations that take the run lock for one load, check and save. *)

Intervene(g) ==
    /\ Persist(g)
    /\ ops' = ops + 1
    /\ UNCHANGED <<lock, pc, mem, worker, outcome, transaction, history,
                   crashes, corruptions>>

MayIntervene == ops < MaxOps /\ LockFree /\ Loadable

\* An operation's process dies between the two writes of its save.
OperationTorn ==
    /\ MayIntervene /\ crashes < MaxCrashes
    /\ ops' = ops + 1 /\ crashes' = crashes + 1
    /\ TornSave
    /\ UNCHANGED <<lock, pc, mem, worker, outcome, tokens, transaction, history,
                   corruptions>>

WaitResumed(g, i) ==
    [g EXCEPT !.queue[i] = Resumable(@),
              !.state = "RECOVERING", !.error = "EXECUTION_FAILURE", !.wait = "NONE"]

\* resume_wait: an operator or a receipt reopens an explicit wait.
ResumeWait(w) ==
    /\ MayIntervene /\ Loaded.state = w
    /\ \E i \in DOMAIN Loaded.queue :
          IsActive(Loaded, i) /\ Intervene(WaitResumed(Loaded, i))
    /\ UNCHANGED tokens

\* classify_wait_recovery: the waits the periodic reconciler resumes itself.
AutoRecoverable(g) ==
    \/ g.state = "WAITING_RESOURCE" /\ g.wait = "LOW_RESOURCE_BACKPRESSURE"
    \/ g.state = "WAITING_PROVIDER" /\ g.wait = "PROVIDER_UNAVAILABLE"

\* reconcile_job reads the state without the lock and finds it recoverable ...
ObserveWait ==
    /\ ExecutionOwner = "AUTO_RECONCILE"
    /\ ops < MaxOps /\ Loadable /\ AutoRecoverable(Loaded)
    /\ observed' = [wait |-> Loaded.state, reason |-> Loaded.wait,
                    at |-> IF primary.kind = "ok" THEN {"primary"} ELSE {"previous"}]
    /\ UNCHANGED <<files, lock, pc, mem, worker, outcome, directive, tokens,
                   transaction, history, budgets>>

\* Mutant of ObservationHolds: only the name of the wait state is compared.
ObservationAssumed == TRUE

\* ... and resume_wait_cas reopens that very generation or nothing.
ObservationHolds == SameDigest(observed.at)

ResumeWaitCas ==
    /\ MayIntervene /\ observed.wait \in WAIT_STATES
    /\ Loaded.state = observed.wait
    /\ ObservationHolds
    /\ \E i \in DOMAIN Loaded.queue :
          IsActive(Loaded, i) /\ Intervene(WaitResumed(Loaded, i))
    /\ UNCHANGED tokens

\* cancel, with no condition on the state.
Cancel ==
    LET g == [Loaded EXCEPT !.state = "CANCELLED", !.reason = "CANCELLED", !.lease = 0] IN
    /\ MayIntervene
    /\ \/ NoActive(Loaded) /\ Intervene(g)
       \/ \E i \in DOMAIN Loaded.queue :
             IsActive(Loaded, i) /\ Intervene([g EXCEPT !.queue[i].status = "CANCELLED"])
    /\ UNCHANGED tokens

OneBlocked(g, i) == {j \in DOMAIN g.queue : g.queue[j].status = "BLOCKED"} = {i}

\* reclassify_blocked_provider_wait
ReclassifyProviderWait ==
    LET g == Loaded IN
    /\ MayIntervene /\ g.state = "BLOCKED" /\ g.error = "PROVIDER_FAILURE"
    /\ \E i \in DOMAIN g.queue :
          /\ OneBlocked(g, i)
          /\ Intervene([g EXCEPT !.queue[i] = Resumable(@),
                                 !.state = "WAITING_PROVIDER", !.reason = "NONE",
                                 !.lease = 0])
    /\ UNCHANGED tokens

\* resume_recoverable_block
ResumeRecoverableBlock ==
    LET g == Loaded IN
    /\ MayIntervene /\ g.state = "BLOCKED" /\ g.error = "ARTIFACT_CONTRACT_FAILURE"
    /\ \E i \in DOMAIN g.queue :
          /\ OneBlocked(g, i)
          /\ Intervene([Requeued(g, i) EXCEPT !.reason = "NONE",
                                              !.error = "EXECUTION_FAILURE"])
    /\ UNCHANGED tokens

-----------------------------------------------------------------------------
(* Continuation owners: fencing by epoch. *)

NextOwnerEpoch(g) == Larger(g.owner.epoch, g.epoch) + 1

\* claim_attested_continuation_owner
ClaimOwner ==
    LET t == [gate |-> Loaded.current, epoch |-> NextOwnerEpoch(Loaded)] IN
    /\ MayIntervene
    /\ Loaded.current # 0 /\ Loaded.state \notin TERMINAL_STATES
    /\ Intervene([Loaded EXCEPT !.owner = t])
    /\ tokens' = tokens \union {[token |-> t, used |-> FALSE]}

\* Mutant of OwnerCurrent: the Gate is compared, the epoch is not.
OwnerOfGate(t) == Loadable /\ Loaded.owner.gate = t.gate

\* _assert_current_epoch_locked
OwnerCurrent(t) == Loadable /\ Loaded.owner = t

\* continuation_transaction: the body runs under the lock, with the epoch
\* asserted first; an aborted or finished body releases the lock.
BeginTransaction(h) ==
    /\ LockFree /\ ~h.used /\ OwnerCurrent(h.token)
    /\ transaction' = h.token
    /\ tokens' = (tokens \ {h}) \union {[h EXCEPT !.used = TRUE]}
    /\ lock' = Transaction
    /\ UNCHANGED <<files, pc, mem, worker, outcome, observed, directive,
                   history, budgets>>

EndTransaction ==
    /\ lock = Transaction
    /\ transaction' = NoToken
    /\ lock' = NoOne
    /\ UNCHANGED <<files, pc, mem, worker, outcome, observed, directive, tokens,
                   history, budgets>>

\* The remote operator binds a directive to the state it sees: the digest, the
\* Gate and the owner epoch the claim will have.
IssueDirective ==
    /\ ExecutionOwner = "OCPV2"
    /\ ops < MaxOps /\ Loadable
    /\ directive' = [gate |-> Loaded.current, epoch |-> NextOwnerEpoch(Loaded),
                     at |-> IF primary.kind = "ok" THEN {"primary"} ELSE {"previous"},
                     claims |-> 0]
    /\ ops' = ops + 1
    /\ UNCHANGED <<files, lock, pc, mem, worker, outcome, observed, tokens,
                   transaction, history, crashes, corruptions>>

\* Mutant of DirectiveBound: neither digest nor epoch is compared.
DirectiveUnbound == directive.gate = Loaded.current

\* execute_registered_full_plan_continuation: every binding is checked under
\* the run lock, the claim is written and the run goes on under the same lock.
DirectiveBound ==
    /\ SameDigest(directive.at)
    /\ directive.epoch = NextOwnerEpoch(Loaded)

ExecuteDirective(p) ==
    /\ ExecutionOwner = "OCPV2"
    /\ LockFree /\ pc[p] = "idle" /\ worker[p].phase = "none" /\ Loadable
    /\ directive.gate # 0 /\ directive.gate = Loaded.current
    /\ Loaded.state \notin TERMINAL_STATES
    /\ \E i \in DOMAIN Loaded.queue :
          IsActive(Loaded, i) /\ Loaded.queue[i].gate = directive.gate
    /\ DirectiveBound
    /\ LET t == [gate |-> directive.gate, epoch |-> directive.epoch] IN
       /\ previous' = Rotated
       /\ primary' = Stored([Loaded EXCEPT !.owner = t])
       /\ observed' = [observed EXCEPT !.at = CopiesRotated(@)]
       /\ directive' = [directive EXCEPT !.at = CopiesRotated(@), !.claims = @ + 1]
    /\ lock' = p
    /\ pc' = [pc EXCEPT ![p] = "start"]
    /\ UNCHANGED <<mem, worker, outcome, tokens, transaction, history, budgets>>

-----------------------------------------------------------------------------
(* The predecessor's side of a runtime migration. *)

\* quiesce_for_runtime_migration
Quiesce(m) ==
    LET g == Loaded IN
    /\ MayIntervene
    /\ g.state \notin TERMINAL_STATES /\ g.lease = 0
    /\ \A i \in DOMAIN g.queue :
          IsActive(g, i) => g.queue[i].status \notin {"DISPATCHED", "RUNNING"}
    /\ \E q \in BOOLEAN :
          Intervene([g EXCEPT !.state = "WAITING_RESOURCE", !.lease = 0,
                              !.wait = "RUNTIME_MIGRATION_QUIESCED",
                              !.error = "EXECUTION_FAILURE",
                              !.migration = m, !.qualify = q])
    /\ UNCHANGED tokens

\* record_verified_migration_successor: the state digest of migration m's
\* successor stands for the successor itself.
RecordVerifiedSuccessor(m) ==
    /\ MayIntervene
    /\ Loaded.state = "WAITING_RESOURCE" /\ Loaded.migration = m
    /\ Intervene([Loaded EXCEPT !.successor = m, !.verified = TRUE])
    /\ UNCHANGED tokens

\* record_active_runtime_qualification
RecordQualification(m) ==
    /\ MayIntervene
    /\ Loaded.state = "WAITING_RESOURCE" /\ Loaded.migration = m
    /\ Loaded.verified /\ Loaded.qualify
    /\ Intervene([Loaded EXCEPT !.qualified = m])
    /\ UNCHANGED tokens

\* Mutant of SuccessorBound: any migration's verified successor is enough.
SuccessorOfAny(m) == Loaded.verified

\* The successor verified on record is the one of this migration.
SuccessorBound(m) == Loaded.verified /\ Loaded.successor = m

\* close_migrated_predecessor, called with the digest of m's own successor
ClosePredecessor(m) ==
    LET g == [Loaded EXCEPT !.state = "CANCELLED", !.error = "EXECUTION_FAILURE",
                            !.lease = 0, !.reason = "MIGRATED_TO_SUCCESSOR"] IN
    /\ MayIntervene
    /\ Loaded.state = "WAITING_RESOURCE" /\ Loaded.migration = m
    /\ SuccessorBound(m)
    /\ Loaded.qualify => Loaded.qualified # NoMigration
    /\ \/ NoActive(Loaded) /\ Intervene(g)
       \/ \E i \in DOMAIN Loaded.queue :
             IsActive(Loaded, i) /\ Intervene([g EXCEPT !.queue[i].status = "CANCELLED"])
    /\ UNCHANGED tokens

-----------------------------------------------------------------------------
Init ==
    /\ primary = Stored(Initial)
    /\ previous = Damaged("absent")
    /\ lock = NoOne
    /\ pc = [p \in Supervisors |-> "idle"]
    /\ mem = [p \in Supervisors |-> Initial]
    /\ worker = [p \in Supervisors |-> NoWorker]
    /\ outcome = [p \in Supervisors |-> "NONE"]
    /\ observed = [wait |-> "NONE", reason |-> "NONE", at |-> {}]
    /\ directive = [gate |-> 0, epoch |-> 0, at |-> {}, claims |-> 0]
    /\ tokens = {}
    /\ transaction = NoToken
    /\ fresh = [g \in Gates |-> 0]
    /\ retries = [g \in Gates |-> 0]
    /\ ops = 0 /\ crashes = 0 /\ corruptions = 0

Operation ==
    \/ \E w \in WAIT_STATES : ResumeWait(w)
    \/ ObserveWait \/ ResumeWaitCas
    \/ Cancel \/ ReclassifyProviderWait \/ ResumeRecoverableBlock
    \/ ClaimOwner \/ IssueDirective \/ OperationTorn
    \/ \E m \in Migrations : \/ Quiesce(m) \/ RecordVerifiedSuccessor(m)
                             \/ RecordQualification(m) \/ ClosePredecessor(m)

Next ==
    \/ \E p \in Supervisors : \/ Acquire(p) \/ ExecuteDirective(p)
                              \/ SupervisorStep(p) \/ Crash(p)
                              \/ SaveFails(p) \/ AbandonedExits(p)
    \/ Operation
    \/ \E h \in tokens : BeginTransaction(h)
    \/ EndTransaction
    \/ \E k \in {"garbled", "drifted"} : Corrupt(k)

Spec == Init /\ [][Next]_vars

\* reconcile_job starts nothing while the run's unit is active (_unit_active).
UnitInactive == \A p \in Supervisors : pc[p] = "idle" /\ worker[p].phase = "none"

\* The scheduling the code relies on: a running supervisor and its child make
\* progress (a hung child is timed out), a transaction body ends, and the
\* periodic reconcile timer starts the runner again while its unit is inactive.
\* Nothing is assumed of an abandoned child.
Fairness ==
    /\ WF_vars(UnitInactive /\ \E p \in Supervisors : Acquire(p))
    /\ \A p \in Supervisors :
          /\ WF_vars(ReconcileStartup(p)) /\ WF_vars(ReconcileRefused(p))
          /\ WF_vars(Return(p))
          /\ WF_vars(NothingQueued(p) \/ Dispatch(p) \/ LowResources(p)
                        \/ PreflightWaits(p) \/ PreflightBlocks(p))
          /\ WF_vars(Fork(p)) /\ WF_vars(RecordRunning(p))
          /\ WF_vars(WorkerExits(p) \/ WorkerTimesOut(p))
          /\ WF_vars(ResultReceived(p) \/ WorkerFailed(p))
          /\ WF_vars(Settle(p)) /\ WF_vars(OrphanExits(p))
    /\ WF_vars(EndTransaction)

FairSpec == Spec /\ Fairness

-----------------------------------------------------------------------------
(* Properties. *)

Labels == {"idle", "start", "loop", "dispatched", "forked", "running", "verifying"}

Observation == [wait : WAIT_STATES \union {"NONE"}, reason : WaitReasons, at : Copies]

Directive == [gate : 0 .. N, epoch : Nat, at : Copies, claims : Nat]

FilesTyped ==
    /\ primary \in File /\ previous \in File
    /\ observed \in Observation
    /\ directive \in Directive

ProcessesTyped ==
    /\ lock \in Supervisors \union {NoOne, Transaction}
    /\ pc \in [Supervisors -> Labels]
    /\ mem \in [Supervisors -> Generation]
    /\ worker \in [Supervisors -> Worker]
    /\ outcome \in [Supervisors -> Results \union {"NONE"}]

RecordsTyped ==
    /\ tokens \subseteq HeldToken
    /\ transaction \in Token
    /\ fresh \in [Gates -> Nat] /\ retries \in [Gates -> Nat]
    /\ ops \in Nat /\ crashes \in Nat /\ corruptions \in Nat

\* Type invariant: every field of every generation stays in its range; in
\* particular no Gate beyond the end of the plan is ever current or enqueued.
TypeOK == FilesTyped /\ ProcessesTyped /\ RecordsTyped

\* A supervisor settles only a result that its child has really left behind.
ResultsKnown ==
    \A p \in Supervisors :
        /\ pc[p] = "verifying" => outcome[p] \in Results
        /\ worker[p].phase = "exited" => worker[p].result \in Results

\* Whoever is inside run, or left a live child behind by crashing, has the lock;
\* and run is never left by a return while its child is alive.
LockHeld ==
    \A p \in Supervisors :
        /\ pc[p] # "idle" \/ worker[p].phase = "running" => lock = p
        /\ worker[p].phase = "running" => pc[p] \in {"idle", "forked", "running"}

\* At most one supervised or orphaned Gate process is alive for the run, whatever
\* supervisors start, crash and leave orphans behind.
SingleWorker ==
    \A p, q \in Supervisors :
        worker[p].phase = "running" /\ worker[q].phase = "running" => p = q

\* The same of every Gate process, abandoned ones included: the per-run flock
\* "single-writer guard" of the continuity re-diagnosis, "exactly one effect".
OneGateProcess ==
    \A p, q \in Supervisors :
        {worker[p].phase, worker[q].phase} \subseteq {"running", "abandoned"} => p = q

\* While a Gate process is alive, supervised or orphaned, the generation a restart
\* would load names its Gate as interrupted, so startup reconciliation re-queues
\* it to be resumed.
DispatchIntentDurable ==
    corruptions = 0 =>
        \A p \in Supervisors :
            worker[p].phase = "running" =>
                /\ Interrupted(Loaded)
                /\ \E i \in DOMAIN Loaded.queue :
                      IsActive(Loaded, i) /\ Loaded.queue[i].gate = worker[p].gate

\* A single damage that leaves the state file unreadable while a Gate process is
\* alive, supervised or orphaned, costs no more than the generation in flight: the
\* file that is left still names the Gate of that process as the first one that
\* is not complete.
\* (A file that reads but fails its seal is another matter: PreviousGoodRetained.)
DamageKeepsGate ==
    (corruptions <= 1 /\ "drifted" \notin {primary.kind, previous.kind}) =>
        \A p \in Supervisors :
            worker[p].phase = "running" =>
                /\ Loadable
                /\ Loaded.current = worker[p].gate
                /\ Loaded.completed + 1 = worker[p].gate

\* A Gate is executed from scratch (resume = False) at most once: every later
\* execution, after a crash, a timeout, a failure or a wait, is a resumption.
FirstExecutionOnce ==
    corruptions = 0 => \A g \in Gates : fresh[g] <= 1

\* The comment of _set_parent_death_signal promises that startup reconciliation
\* treats an interrupted child as recovery-required: a generation that says the
\* Gate was dispatched or running is re-queued to be resumed, from whichever of
\* the two files it was loaded.
InterruptedChildIsResumed ==
    [][\A p \in Supervisors :
          (ReconcileStartup(p) /\ Interrupted(Loaded)) =>
              \E i \in DOMAIN mem'[p].queue :
                  IsActive(mem'[p], i) /\ mem'[p].queue[i].resume]_vars

\* A nonterminal run always has the next Gate of the plan in its durable queue:
\* no crash between a Gate's completion and its successor's dispatch loses it.
SuccessorDurable ==
    (corruptions = 0 /\ Loaded.state \notin TERMINAL_STATES) =>
        /\ Loaded.current = Loaded.completed + 1
        /\ \E i \in DOMAIN Loaded.queue :
              IsActive(Loaded, i) /\ Loaded.queue[i].gate = Loaded.current

\* Crashes, waits and resumptions never give a Gate more automatic retries than
\* the retry budget.
RetriesBounded ==
    corruptions = 0 => \A g \in Gates : retries[g] <= RetryBudget

\* The body of a continuation transaction runs only for the latest owner: a
\* token fenced by a newer claim never gets in.
FencedTransaction ==
    (corruptions = 0 /\ transaction # NoToken) =>
        /\ Loaded.owner = transaction
        /\ \A h \in tokens : h.token.epoch <= transaction.epoch

\* A remote directive bound to one state generation claims the run at most
\* once, however often it is delivered and whatever crashes in between.
DirectiveClaimsOnce ==
    corruptions = 0 => directive.claims <= 1

\* The reconciler reopens only the wait it has evaluated: a run that was
\* quiesced for a migration in the meantime is left alone.
AutoResumeIsObserved ==
    [][ResumeWaitCas => Loaded.wait = observed.reason]_vars

\* durable_json_save retains a previous-good generation: no save, complete or
\* torn by a crash, makes the last valid generation unreadable.  The exception
\* is a primary that parses but fails its seal: it is copied over the previous
\* file, because durable_json_save knows nothing of the seal.
PreviousGoodRetained ==
    [][Loadable /\ corruptions' = corruptions /\ primary.kind # "drifted"
          => Loadable']_vars

\* Once the run is closed in favour of a migration's successor, the predecessor
\* has no Gate process that is supervised or orphaned, and the successor is the one
\* verified for the migration that closed it, not for one it was quiesced for
\* before.  (A process abandoned by a failed save may live on.)
MigratedNeverRuns ==
    (corruptions = 0 /\ Loaded.reason = "MIGRATED_TO_SUCCESSOR") =>
        /\ \A p \in Supervisors : worker[p].phase # "running"
        /\ Loaded.verified /\ Loaded.successor = Loaded.migration

\* "active runtime qualification is required before predecessor close": a
\* predecessor whose migration requires the qualification of the active runtime
\* is closed only with the qualification of that very migration.
QualifiedBeforeClose ==
    (Loaded.reason = "MIGRATED_TO_SUCCESSOR" /\ Loaded.qualify) =>
        Loaded.qualified = Loaded.migration

\* The abstract plan: the Gates being executed, and a result not yet recorded.
RunningGates == {worker[p].gate : p \in {q \in Supervisors : worker[q].phase = "running"}}

ResultPassed ==
    \E p \in Supervisors :
        \/ worker[p].phase = "exited" /\ worker[p].result = "COMPLETED"
        \/ outcome[p] = "COMPLETED"

Plan == INSTANCE GatePlan WITH done <- Loaded.completed, running <- RunningGates,
                               passed <- ResultPassed

\* The supervisor implements the plan contract: one process at a time, Gates in
\* plan order, completion only on the result of the Gate's own process.
ImplementsGatePlan == Plan!Spec

\* A started run comes to rest, in a wait or a terminal state, across crashes and
\* a damage of its file, unless a failed save has left a Gate process that nobody
\* supervises or neither of the two files is valid any more.
RunSettles ==
    (Loaded.state \in ACTIVE_STATES) ~>
        \/ Loaded.state \notin ACTIVE_STATES
        \/ ~Loadable
        \/ \E p \in Supervisors : worker[p].phase = "abandoned"
=============================================================================
