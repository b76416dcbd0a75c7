# A TLA+ verification of the Global GPT Harness runtime

The repository is a Python harness that carries a long plan of work ("Full
Plan") through a sequence of Gates, each executed by an AI worker in a process
of its own, unattended and across crashes, reboots, provider outages and remote
operator commands. This directory models the parts of it that keep durable
state and race with one another or with crashes, from the command of a remote
operator down to the edit of a file, checks them with TLC on small instances and
proves their safety properties with TLAPS for every instance.

Source paths below are relative to the repository root (`src/` in
`PROJECT.json`); `PFR` stands for `runtime/orchestrator/production_full_plan_runner.py`.

| Module | What it is |
|---|---|
| `FullPlan` | the Full Plan supervisor, its state file, the periodic reconciler, the registered remote continuation, continuation owners, the predecessor's side of a runtime migration |
| `GatePlan` | the abstract contract of a plan, which `FullPlan` implements |
| `MCFullPlan` | TLC instances of `FullPlan` |
| `FullPlanProofs` | theorems about `FullPlan`: types, the lock, mutual exclusion |
| `FullPlanContinuityProofs` | theorems about `FullPlan`: what survives crashes and damages, and the contract |
| `RemoteOperator` | the OCPv2 remote operator service: GitHub comments in, executions, result comments out, with everything it keeps on disk |
| `MCRemoteOperator` | TLC instances of `RemoteOperator` |
| `RemoteOperatorProofs` | theorems about `RemoteOperator`: ingress and execution |
| `RemoteOperatorAnswerProofs` | theorems about `RemoteOperator`: ledgers, answers, closing of bindings |
| `GateRun` | what one Gate process does: the lifecycle of its levels, the host runner and the worktree, resumption from the evidence on disk |
| `LevelPlan` | the abstract contract of a Gate, which `GateRun` implements |
| `MCGateRun` | TLC instances of `GateRun` |
| `GateRunProofs` | theorems about `GateRun`, its contract included |
| `ProviderAction` | the WORKER stage of a level routed to an API provider: proposals, journalled writes, remediation, review of the effects |
| `MCProviderAction` | TLC instance of `ProviderAction` |
| `ProviderActionProofs` | theorems about `ProviderAction` |
| `SuccessorStage` | the staging of a successor release (DRY_RUN, STAGE) and its promotion to P3 (admission, canary) |
| `MCSuccessorStage` | TLC instance of `SuccessorStage` |
| `SuccessorStageProofs` | theorems about `SuccessorStage` |

## 1. Inventory

### 1.1 Components with durable, contended state

**Full Plan supervisor** (`PFR`, `DurableFullPlanSupervisor`).
*State*: `state.json` with its sealed generation (state, completed Gates, current
Gate, queue of attempts, worker lease, lease epoch, continuation owner, wait
reason, terminal reason, migration records), `supervisor.lock`, the forked Gate
process. *Operations*: `run` (`reconcile_startup`, `_run_locked`,
`_run_gate_process`, `_handle_failure`), `resume_wait`, `resume_wait_cas`,
`cancel`, `reclassify_blocked_provider_wait`, `resume_recoverable_block`,
`claim_attested_continuation_owner`, `continuation_transaction`,
`quiesce_for_runtime_migration`, `record_verified_migration_successor`,
`record_active_runtime_qualification`, `close_migrated_predecessor`.
*Hard*: a supervisor may die at any point of dispatch, fork, record, run, settle;
the child inherits the lock's descriptor and may outlive it; a save may tear or
fail; the reconciler decides on a state it reads without the lock.
*Correct when*: one Gate process at a time; Gates in order; a Gate executed from
scratch at most once; no successor lost; retries within the budget; a stale owner
or directive never acts; an active run eventually rests.

**Durable two-generation JSON files** (`durable_io.py`). *State*: a primary and a
`.prev` file. *Operations*: `durable_json_save` (two replacements),
`durable_json_load`. *Hard*: a crash between the replacements; a primary damaged
in a way that still parses. *Correct when*: one valid generation always remains.

**Boot and periodic reconciler** (`production_full_plan_boot.py`,
`wait_recovery.py`). Started by a systemd user timer; starts an inactive unit
again, and reopens resource and provider waits by compare-and-swap on the state
digest. *Correct when*: it reopens only the wait it evaluated.

**Registered remote continuation** (`ocpv2_canonical_resume.py`). Checks the
bindings of a remote directive (state digest, Gate, owner epoch) under the run
lock, claims the run and goes on under the same lock. *Correct when*: a directive
claims at most once.

**Job registration and run entry** (`production_full_plan_entry.py`). The initial
generation, the preflight verdict, who may start a run.

**Remote operator service** (`remote_operator_service.py`,
`ocpv2_runtime_service.py`, `ocpv2_canonical_recovery.py`). A one-shot process
per timer tick: recover canonical results, deliver the outboxes, poll once.
*Interactions*: reads comments and posts answers through the GitHub transport,
writes the stores below, calls the registered continuation.
*Hard*: seven kinds of durable write per message, with a possible stop before
each; comments are redelivered, edited, evicted from the acknowledgement ledger
and expire; the Full Plan moves on between two ticks.
*Correct when*: a mutation executes at most once; an accepted mutation can be
recovered; nothing is acknowledged or closed unanswered; a completed mutation is
eventually answered.

**Receipts, bindings and outboxes** (`remote_operator_receipt.py`,
`remote_operator_recovery_binding.py`, `remote_operator_outbox.py`,
`remote_diagnostic_outbox.py`). Receipt per message, one sequence watermark,
execution binding (PENDING, OUTBOXED, PROJECTED), pending/published projections.

**GitHub control transport** (`operator_transport/github_control_adapter.py`).
Acknowledgement ledger and pending ledger, both cut to `delivery_ack_limit`.

**Activation stores** (`plan_activation.py`, `full_plan_activation.py`, ...). One
idempotent registration per request ID.

**Gate orchestrator** (`gate_orchestrator.py`, `resume_store.py`,
`lv_execution_package.py`, `lv_review.py`, `production_full_plan_entry.py`).
*State*: per level a package, preflight evidence, the worker's request and result,
review attempts, a chain of sealed events (`ResumeStore`) and a handoff; the Git
HEAD of the project. *Operations*: `execute_gate`, the seven adapters of
`_ProductionAdapters`, the lineage checks that decide from which HEAD a Gate may go
on. *Hard*: the evidence of a stage and its event are two writes; a retry finds any
mixture of them; a Gate over its time limit is terminated while the host runner it
started goes on editing. *Correct when*: a level has one worker turn, levels are
committed and handed off in order, and an interrupted Gate goes on or is blocked
according to the evidence, never for ever.

**Worker execution** (`production_worker_executor.py`,
`production_execution_gateway.py`, `host_runner_entry.py`,
`production_tool_transport.py`, `tool_authorization.py`). *State*: the worktree, the
request ledger, `host-gateway.sock`, the journal of tool effects. *Operations*:
takeover of a dirty worktree, launch of the host runner, collection of changes,
validation, checkpoint commit. *Correct when*: what is committed is what was
validated.

**Provider action** (`provider_action_execution.py`, `effect_evidence_bridge.py`).
*State*: proposal file and effect journal, one directory per remediation.
*Hard*: a write is an intent, an open that truncates, a content and a receipt, with
a possible death between them, and the next attempt takes the worktree over.
*Correct when*: only work that was written to the end under a journalled proposal
passes the review.

**Successor release staging and P3 promotion** (`successor_release_staging.py`,
`ocpv2_successor_stage_runtime.py`, `ocpv2_p3_control_runtime.py`,
`lifecycle_v2_p3_*.py`, `full_plan_activation.py`). *State*: a lock file, a temporary
ref, the workspace's HEAD, unit files, receipts and sealed handoffs, the
registration of the canary. *Operations*: DRY_RUN, STAGE, P3 admission, canary
activation and its recovery. *Hard*: two polls may overlap; files are created once
and may stay torn; a Git command fails after another has moved HEAD. *Correct when*:
one transaction at a time, and every document rests on the one before it.

### 1.2 Components not modelled

*Candidates for further modules.* Runtime migration handoff (the phase machine of
`MigrationStore` and the retargeting of the runtime link; the predecessor's side is
in `FullPlan`), the TDD_V1 continuation, the registration of the validation canary
and P4, Gate approval issuance and onboarding (more control kinds of the remote
operator), the local engine with its queue (mock and semi-automatic modes, one
process), the capability lifecycle store, the MCP backend's operation records, the
AI Office state store, the invocation ledger of `production_gate_runner.py`, the READ_ONLY and
VERIFICATION_ONLY backends of the executor. The Gate continuation transaction is
called by tests only.

*Left out for good*, because they keep no state that races with anything: provider
routing (a selection, then calls to external services), host inspection, skill
installation, the MPRF contracts, dashboards and projections, the semantic checker,
agents, the GUI, the command line and installation.

The modules cover about a tenth of the implementation's lines. Most of the others
check schemas and digests of documents, build documents and projections, parse
arguments or adapt one contract to another: their only effect on the modelled state
is whether an operation is refused, which is a verdict in the models.

Facts met on the way, in code that has no module yet:

* `MigrationStore` loads and saves a transaction without a lock
  (`runtime_migration_handoff.py:258`), so an `advance` can overwrite a `rollback`;
  `block` followed by `rollback` ends an activated v2 migration without the restored
  runtime evidence that `rollback` asks for (line 313), because BLOCKED is not among
  the phases it tests.
* `resume_wait` (`operator_plan_execution.py:452`) is not a compare-and-swap and may
  reopen a run quiesced for migration; `quiesce_for_runtime_migration` overwrites a
  WAITING_APPROVAL.
* `cancel` has no condition on the state (PFR:1303): it turns a COMPLETED or BLOCKED run
  into a CANCELLED one. The model does the same, and no document says otherwise.
* `production_gate_runner.run` saves the invocation count of a level and then its
  completion; after a crash between the two saves every later run refuses the level
  as a duplicate invocation (`production_gate_runner.py:402`).
* After a fallback to `state.json.prev` lease epochs and owner tokens are handed out
  again.

### 1.3 How the parts interact

```
 GitHub PR comments                      systemd user timers
        |                                  |             |
        v                                  v             v
 remote operator service            boot/periodic    Full Plan unit
  receipts, bindings, outboxes       reconciler       (run_job)
        |  registered continuation      | resume_wait_cas, start
        v                               v             v
  +---------------- supervisor.lock, state.json, state.json.prev ------+
  |                 DurableFullPlanSupervisor  --fork-->  Gate process |
  +------------------------------------------------------------|-------+
        ^                                ^                     v
   continuation owners            migration handoff,      execute_gate: levels
                                  operator commands        packages, events, Git
                                                          /               \
                                                host runner           provider action
                                                (worktree)            (proposals, journal)
```

All writers of a run's state take `supervisor.lock`; the service's own stores are
written by one process at a time (a one-shot unit), except those of the successor
stage: `ocpv2.service` and the control units `ocpv2-stage-control` and
`ocpv2-p3-control`, which are started by hand, run the same polls and may overlap.

The modules meet as follows. `FullPlan` treats the result of a Gate as a choice;
`GateRun` is that Gate, with the part of the supervisor that decides about its
retries, and `GateRun!Launch`, `HandleFailure`, `Crash` and `Timeout` are
`Dispatch`/`Fork`, `Settle`, `Crash` and `WorkerTimesOut` of `FullPlan` for one queue
item. `GateRun` has a turn of the host runner in its WORKER stage; `ProviderAction`
is the other backend of that stage. `RemoteOperator` is the service whose poll, in
another mode, is a poll of `SuccessorStage`.

## 2. `FullPlan`: model and code

Gates are `1..N` in plan order. A *generation* is the record in `state.json`; the
fields kept are the ones a guard reads. A *file* has a kind: `ok`, `garbled` (not
JSON), `drifted` (JSON whose seal fails), `absent`.

| Model | Code |
|---|---|
| `primary`, `previous` | `state.json`, `state.json.prev` |
| `lock` | `supervisor.lock` (`flock`), held by a supervisor, a transaction, or nobody |
| `pc`, `mem`, `worker`, `outcome` | control point of `run`, its `state` dictionary, the forked process, the result being settled |
| `observed` | what `reconcile_job` read without the lock |
| `directive` | the remote directive and the generation it is bound to |
| `tokens`, `transaction` | continuation owner tokens handed out, and the one inside `continuation_transaction` |
| `fresh`, `retries` | history variables: executions with `resume = False`, automatic retries |

* `Persist` is one save (both replacements); `TornSave` is a save that stops
  between them, and `Crash`, `SaveFails` and `OperationTorn` may leave one.
* `LockAfterCrash`: the child is forked with the lock's descriptor open, so
  the lock of a dead supervisor stays taken until its child is gone. An exception
  is different: `run` calls `LOCK_UN`, which releases the lock for every holder of
  the descriptor, and that is `SaveFails`, which leaves an *abandoned* child.
* `Acquire`, `ReconcileStartup`, `ReconcileRefused`, then the loop: `Return`,
  `NothingQueued`, `LowResources`, `PreflightWaits`, `PreflightBlocks`, `Dispatch`,
  `Fork`, `RecordRunning`, `Heartbeat`, `WorkerExits`, `ResultReceived`,
  `WorkerFailed`, `WorkerTimesOut`, `Settle`. Each save of the code is one step, so
  every point between two saves is a point where another process may act or a
  crash may happen.
* The operations under *Operations that take the run lock* load, check and save
  inside one lock section and are one step each. `ObserveWait` and `ResumeWaitCas`
  are two, because the code reads before it locks.
* A state digest is compared by location: an observer remembers in which of the
  two files the very generation it read still is (`at`). `progress_sequence` makes
  every later generation's digest different, and this keeps the sequence number,
  and with it an unbounded counter, out of the state.
* `LowResources`, the preflight verdicts and the class of a Gate's result are
  nondeterministic: they depend on the host, on files and on what the worker did. The
  waits of a verdict that no operation tells apart (a recovery of the continuation, low
  resources, a quiesced runtime, a pending receipt) have one wait reason.

Abstracted: texts of reasons and errors (kept: their class), timestamps, host
identities and process numbers in leases, the evidence documents of migrations
(kept: which migration they belong to).

Left out: the TDD_V1 continuation mode and the LIFECYCLE_V2_P3_CANARY mode of the
runner (their own modules in the plan); provider-wait evidence pointers; unit
installation; the lineage checks of resumed checkpoints (a preflight verdict).

`GatePlan` is the contract: `done` Gates are complete, at most one Gate is
running, always `done + 1`, and `done` grows only after a successful result of the
latest process. The refinement maps `done` to the completed Gates of the
generation a restart would load, `running` to the Gates of live supervised
processes and `passed` to a successful result that has not been recorded.

## 3. `RemoteOperator`: model and code

Messages are numbered in comment order. A message's *version* stands for the
content of its comment: an edit makes the next version. `Kind` and `Sequence` give
what its envelope asks for and its sequence number.

| Model | Code |
|---|---|
| `channel`, `expired`, `posted` | comments of the pull request, expiry, result comments per answer |
| `acks`, `pendFile`, `ledger` | `github-delivery-acks.json`, its `.pending` file, the adapter's `_pending` in memory |
| `receipts`, `terminal`, `watermark` | receipt files, their terminal projection status, `.sequence.json` |
| `binding` | execution bindings (status, envelope, whether a projection is named) |
| `outbox` | pending and published projections; `stale`: it quotes a Full Plan digest that is no longer current |
| `owner`, `completed` | continuation owner of the Full Plan, mutations whose Gate completed under their claim |
| `execs`, `activated` | executions started, activations registered |
| `svc` | the process: place, recovery stage, mode, deliveries left, received batch, answer in hand |

A process runs `Start`, the resolve loop of `recover_pending_canonical_results`
(`ResolveAcked` ... `MarkOutboxed`), `publish_pending` for canonical results,
activations and diagnostics (`NextStage`, `DeliverCanonical`, `DeliverOther`),
then the poll: scan of the comments (`ScanAcked`, `ScanControl`, `EndScan`), and
for each control received ingress (`HandleExpired`, `HandleReplay`,
`HandleRejected`, `BindBeforeReceipt`, `SaveReceipt`, `SaveWatermark`), dispatch by
mode (`AnswerByMode`, `Diagnose`, `StaleDirective`, `Execute`, `ExecutionReturns`,
`Activate` ...), publication (`SuppressPublish`, `PublishComment`,
`SaveDeliveryAck`, `DiscardPending`) and `AfterProjectionPublished`. An exception
that leaves the process is `svc' = Off`; `Stop` is a death, a failed write or a
failed request at any place.

The ledgers are sequences. A message's queue in `_pending` is its entries in `ledger`
(`QueueOf`), `queue[0]` the first of them (`HeadOf`), and an entry is removed by its place
(`Dropped`).

The Full Plan is seen from outside: it may complete the owner's Gate
(`GateCompletes`), go on (`PlanAdvances`) or be claimed by another controller
(`OwnerDrifts`) at any time; each changes the digest a projection quotes.

Abstracted: the envelope's fields (kept: kind, sequence, identity by version),
signatures, formatting of comments. Left out: malformed comments, actors outside
the allow-list and comments of other bots (dropped by the scan before any state
changes), explicit retirement of pending deliveries, quarantine of malformed outbox
files (no action of the service produces one), the remote control kinds other than
activations.

## 4. `GateRun` and `LevelPlan`: model and code

`GO` stands for `runtime/orchestrator/gate_orchestrator.py` and `PWE` for
`production_worker_executor.py` beside it. Levels are `1..N` in plan order. A Git HEAD
is the number of commits since the approved head, so HEAD 0 is the approved head and a
later Gate of a plan starts at `start > 0`.

| Model | Code |
|---|---|
| `level[l]` | the run directory of a level: package and its `source_head`, preflight evidence, worker request and result, request ledger, tool journal, review attempts, `ResumeStore` events (`torn`: the last one unreadable), the head its handoff names |
| `tree`, `commits` | uncommitted content of the level's files, checkpoint commits with what was validated before them |
| `socket`, `runner` | `runtime/host-gateway.sock`, the host runner with the file it is writing |
| `gate` | the Gate process: place, level, lineage, observed head, resumed records |
| `sup` | the queue item of the Gate |
| `launches` | history: worker turns per level |

* `Launch`, `PreflightBlocked`: `preflight_job` accepts HEAD 0, the one sealed
  checkpoint of a resumed Gate, or the terminal HEAD of the Gate before.
* `ExecuteGate`, `BeginLevel`, `CompleteLevel`, `ExitGate`: the loop of `execute_gate`
  with its lineage checks.
* Each stage of `_ProductionAdapters` writes its evidence (`CreatePackage`,
  `PreflightRun`, `WriteResult`, `Review`, `WriteHandoff`) and then seals its event
  (`SealPackage` ... `SealHandoff`), or returns the payload of an event it resumed
  (`PreflightResumed` ...), or raises. Evidence and event are two steps.
* `SpawnRunner` ... `RunnerEnd`: the host runner accepts one request, refused by the
  ledger when the level's request has been received before, opens and writes files.
* `Crash` kills the service with its processes; a file written in place may stay half
  written (`TornWrite`), the socket's file stays. `Timeout` terminates the Gate
  process and leaves the runner.

`LevelPlan` is the contract: levels are committed in order, one at a time, only after
the HANDOFF of all earlier ones, and a Gate exits only when all are handed off. The
refinement maps `committed` to the checkpoint commits, `handed` to the levels with a
sealed HANDOFF and `exited` to the queue item's state.

Abstracted: contents of packages, requests and reports (kept: that they exist, the
head or commit they name, whether they can be read); the scans of outputs and changed
files and the tests are choices. Left out: provider waits (`FullPlan`), edits outside
the owned files, capability checkpoints, `recovery_mode`, manual actions, the
adoption of a verified prefix, the publication of a derived preflight, the READ_ONLY
and VERIFICATION_ONLY backends, writes the tool policy rejects. A failed review ends
the attempt, as `GO` does in production; `runtime/orchestrator/README.md:209` has it
"routed to same-LV remediation".

## 5. `ProviderAction`: model and code

| Model | Code |
|---|---|
| `existing`, `tree` | the targets at the baseline; each as committed, half written or written |
| `dirs` | the output directory and one per remediation: `provider-action-proposal.json`, the effect journal |
| `commit` | the worker result: the checkpoint commit and the effect evidence |
| `proc`, `sup` | the worker in its Gate process, the queue item |

`Start` reviews the worker result that is there, takes over a dirty worktree or asks for
a proposal.
`Generated`, `GenerationRejected`, `GenerationFailed` are the calls of a provider: a
segment at a time, the next approved model after a rejection. `KeepProposal` creates
the proposal file; `BeginEffect`, `OpenFile`, `WriteFile`, `CompleteEffect` are one
journalled write (`EffectFails` its exception), `CollectEffects` the evidence.
`RemediateValidation` starts a further proposal in the directory numbered by this
process, which the directory of an interrupted process may already occupy. A
remediation may take every change back (`NothingToValidate` raises only before the first
one): then there is nothing to commit, and the review refuses the result. `Review` is the
comparison of effects and commit in `_validate_production_provenance`.

`flaky` chooses at the start whether anything may fail, so that the liveness property
has behaviours in which nothing but a crash does. Abstracted: prompts, answers,
contents (kept: whether a file is as committed, half written or written), tests. A
proposal only writes files; that its paths lie in the owned scopes is part of what a
valid proposal is.

## 6. `SuccessorStage`: model and code

| Model | Code |
|---|---|
| `git`, `remote` | the successor workspace (HEAD, clean, objects, temporary refs), the target ref at origin |
| `units` | unit files: the serving ones (a version), the successor's (none, partly written, staged), whether a successor unit is enabled; whether the predecessor's timer is active or enabled |
| `lock` | the lock file of the workspace, created with O_EXCL |
| `file` | the files created once: receipts of DRY_RUN and STAGE, the waiting and the terminal P3 handoff, the validation evidence |
| `job` | the canary's registration and its activation receipt |
| `inbox`, `answer`, `poll` | messages not yet answered, the last answer, the polls |
| `moves`, `raced` | history: fast-forwards; requests whose HEAD was moved between the last check and the merge |

`StartPoll` starts a poll for one message, in the successor's checkout (`here`) or in
another directory (`away`). The control units `ocpv2-stage-control` and `ocpv2-p3-control`
have no timer, so this is an action of the operator and nothing obliges him to take it.
`Execute` dispatches a request by its phase and its receipt; `AcquireLock`, `Check`,
`Fetch`, `Verify`, `FastForward`, `VerifyAdvance`, `RenderArtifacts`,
`RenderedArtifacts`, `ProbeInert`, `Cleanup`, `ReleaseLock` are the transaction of
`successor_release_staging.py`, with `GitFails`, `FetchFails`, `RenderFails`,
`CleanupFails` for its failing commands and the outcome class each is given. `AdmitP3`,
`ActivateP3Canary`, `RegisterCanary`, `RecordActivation` are the promotion. Its evidence is
collected in the staged checkout or not at all (`Collected`), and is accepted while the
predecessor's timer is inactive and disabled (`PredecessorServes`).
`LookUpFile`, `CreateFile`, `WriteFile` make a file; a poll that dies in between leaves
it torn. `UnlinkTerminal` is the error path of `_seal_p3_terminal_handoff`. `Drift` is
every change by another owner, the switching of the predecessor's timer included.

Abstracted: isolation of the roots, registry of aliases, policy and lifecycle
snapshots (constant while a request is handled); the preflights kept in memory equal
their receipt; the branch name is as requested and the predecessor's service is loaded;
texts of outcomes. The gating of the modes is in `RemoteOperator`.

## 7. Runs

Passing runs (each property also has a mutant of a mapped definition under which
TLC finds it violated):

| Run | Checks | Shows |
|---|---|---|
| `full_plan_crash` | `TypeOK`, `SingleWorker`, `DispatchIntentDurable`, `FirstExecutionOnce`, `SuccessorDurable`, `RetriesBounded`, `ImplementsGatePlan` | two supervisors, two Gates, two crashes or failed saves, one intervention: one supervised process, no lost intent or successor, one fresh execution, bounded retries, and the supervisor implements the contract |
| `full_plan_operations` | `FencedTransaction`, `AutoResumeIsObserved`, `MigratedNeverRuns` | four operations, of two migrations among others, racing supervisors and a crash: a fenced owner never runs a transaction body; the reconciler never reopens a run quiesced meanwhile; a closed predecessor has no supervised or orphaned process, and its successor was verified for the very migration that closed it |
| `full_plan_directive` | `DirectiveClaimsOnce`, `DamageKeepsGate`, `PreviousGoodRetained` | a remote-owned run with two crashes and one damage of its file: a redelivered directive claims once, an unreadable file costs no Gate, no save loses the last valid generation unless the seal of the primary has drifted |
| `full_plan_live` | `RunSettles` | an active run comes to rest across a crash, a damage of its file and an intervention |
| `remote_ingress` | `TypeOK`, `ExecutedOnce`, `RecoveryIdentity`, `SequenceSingleUse` | edits, eviction from a ledger of one entry, a reused sequence number and two stops: no second execution, no accepted mutation without its binding, no sequence number accepted twice |
| `remote_mixed` | `ClosedIsAnswered`, `AckedIsAnswered`, `RecoverySettles` | mutation, activation and diagnostic across two stops: nothing acknowledged or closed unanswered while no comment is edited, and a completed mutation is eventually answered |
| `gate_faults` | `TypeOK`, `WorkerTurnOnce`, `HandoffBacked`, `PackageFollowsHandoff`, `CommittedIsValidated`, `ImplementsLevelPlan` | three levels, two files, failing workers, validations and reviews, two crashes and two Gate timeouts whose runner goes on: one worker turn per level, evidence only on evidence, a commit differs from what was validated in at most the one file that a left runner was writing, and the Gate implements its contract |
| `gate_resume` | `ChainFollowsLifecycle`, `GateDecided`, `ResumeIsDecidedByEvidence` | three levels, two crashes at any durable write: no stage is sealed twice or early, and after the last crash the Gate exits exactly from the states `Recoverable` describes and is blocked from all others |
| `provider_action` | `TypeOK`, `ReviewedIsGoverned`, `ModelsRotate`, `ReviewedIsComplete`, `ActionDecided` | rejected generations, failing writes, remediations, retries and a crash anywhere: only files written to the end with a completed effect pass the review, every new file is among them, and every level is decided |
| `successor_stage` | `TypeOK`, `OneTransaction`, `ChainIsBacked`, `SettledByEvidence` | two overlapping polls, one killed, or one command failing or one outside change (of the predecessor's timer too): one transaction at a time, every document rests on the one before it, and once a last poll has been started its message succeeds exactly when what is left, the poll's directory and the timer allow it |

Some of these properties are stated for what the code can keep. The runner of a
terminated Gate goes on editing: the next attempt takes its half-written file over,
validates it, and commits it after the runner has completed it. `CommittedIsValidated`
allows exactly this (one file, after a timeout, open when the validations ran and complete
since) and no other difference. The same runner may make a file dirty after a WORKER event
was sealed, and the next attempt seals another, so `ChainFollowsLifecycle` is checked
without timeouts (8.4). `ChainIsBacked` excepts requests in `raced`: `merge --ff-only`
moves whatever HEAD it finds. `MigratedNeverRuns` excepts a child abandoned by a failed
save (7.1).

The violating runs (each checks one sentence of the repository against the code):

| Run | Property | What the trace shows |
|---|---|---|
| `full_plan_restored` | `InterruptedChildIsResumed` | `reconcile_startup` sets a generation restored from `.prev` to RECOVERING (PFR:747) before it tests for an interrupted state (749), so the interrupted Gate is dispatched with `resume = False` |
| `full_plan_qualified` | `QualifiedBeforeClose` | `quiesce_for_runtime_migration` (PFR:1210) keeps the qualification evidence of an earlier migration; the second one, which requires its own, is closed on it (PFR:1287) |

The quoted sentences are in `PROJECT.json` under `findings`.

### 7.1 Further disagreements

The following have no run of their own, but the definitions are in the modules and each
is reproduced by TLC with the instance given.

* *One Gate process per run.* `FullPlan!OneGateProcess`, with `N = 1`,
  `RetryBudget = 1`, two supervisors, `AUTO_RECONCILE`, no migration, `MaxOps = 0`,
  `MaxCrashes = 1`, `MaxCorruptions = 0`: a failed save between fork and result unlocks
  the run with its child alive (PFR:884), and a second supervisor starts the Gate beside
  it; compare
  `docs/history/governance/2026-09-17/FULL_PLAN_CONTINUITY_EDP_REDIAGNOSIS_R2.md:18`.
* *A quiet predecessor.* Stated over every live process
  (`worker[p].phase \notin {"running", "abandoned"}`), `FullPlan!MigratedNeverRuns` is
  violated on the instance of `full_plan_operations`: a save fails between fork and result
  and abandons the child, the next supervisor requeues the Gate and waits for resources,
  and the run is quiesced, its successor verified and the predecessor closed while the
  abandoned child works on (13 steps). The three operations look at the state file only (PFR:1210, 1236, 1276).
* *Nothing closed unanswered.* `RemoteOperator!ClosedIsAnswered` with one mutation,
  `MaxVersion = 2`, `MaxStops = 1`, mode ACTIVE: the refusal of an edited comment closes
  the binding of the unresolved execution of the original
  (`ocpv2_runtime_service.py:1070`; plan
  `docs/superpowers/plans/2026-09-22-ocpv2-canonical-result-recovery.md:116`).
* *A completed result is published.* `RemoteOperator!CompletedIsPublished` under
  `FairSpec` with one mutation, `MaxVersion = 1`, `MaxStops = 2`: a stop between
  `enqueue_projection` and `mark_outboxed` while the Full Plan saves its state; the
  rebuilt projection conflicts and every later start raises
  (`remote_operator_outbox.py:424`; line 24 of the same plan).
* *WORKER events are continuation points.* `GateRun!WorkerEventContinues` under
  `FairSpec` with `N = 1`, `Starts = {0}`, one file, `RetryBudget = 2`, `MaxCrashes = 1`,
  no timeout, `MayFail = FALSE`. The comment at `gate_orchestrator.py:1809` says that
  PACKAGE, PREFLIGHT and WORKER events are durable continuation points, but a Gate
  killed after the commit hands the level off at the head its own invocation observed,
  which `_sealed_completed_lv_lineage` does not accept; it ends BLOCKED.
* *The outcome tells the phase.* `SuccessorStage!OutcomeTellsPhase` on the instance of
  `successor_stage`: a Git command that fails after the fast-forward is reported as
  FAILED_BEFORE_MUTATION
  (`docs/superpowers/specs/2026-09-25-successor-release-stage-design.md:274`).
* *The terminal handoff of another poll* is removed by the error path of
  `_seal_p3_terminal_handoff` (`ocpv2_successor_stage_runtime.py:382`), the error that
  the other poll made the file first included: `SuccessorStage!UnlinkTerminal`. The
  canary can be recovered, because its activation receipt is a file of its own.
* *A verified previous generation.* `durable_json_save` says it retains a *verified*
  previous-good generation (`durable_io.py:62`), but it verifies only that the primary
  parses. A primary whose seal fails is copied over the good `.prev`, and a crash before
  the second replacement leaves no valid generation: drop the last conjunct of
  `PreviousGoodRetained` and `full_plan_directive` shows it.
* *One result comment.* The posted result comment and its acknowledgement are two
  steps, so a stop between them makes recovery post the result a second time, which the
  recovery plan (line 27) wants excluded: check
  `posted[m]["RESULT"] + posted[m]["COMPLETED"] <= 1` in `remote_mixed`.

### 7.2 Bounds and why they are enough

* Two supervisors: every race is between the holder of the lock and one other; a
  third adds a contender in the position of the second.
* `N = 2` is the least number with a successor, `N = 1` where the question does not
  involve one or, for liveness, where the second Gate would repeat the first's loop. `RetryBudget = 1` has one retry and one exhaustion.
* `MaxCrashes = 2` allows a crash during the recovery from a crash. `MaxOps` is the
  number of calls in the longest protocol a run asks about: one intervention
  (crash, live), three directives, or two claims and a further call, or quiesce, verify,
  close and one more, such as the quiesce of a second migration in between (operations;
  with `N = 1` and no retry, since neither the fence nor a migration depends on the next
  Gate), or all of these and a qualification for two migrations (six, qualified, where no
  crash is needed).
  `MaxCorruptions = 1`: with two damages both copies are gone and nothing can be
  promised.
* Two messages make one a distraction for the other's ledger entry; with
  `AckLimit = 1` the second answer evicts the first acknowledgement.
  `MaxVersion = 2` is one edit. `MaxStops = 2` allows a stop during the recovery
  from a stop. `posted` and `execs` count to two, "more than one". `remote_ingress` has
  all three modes and edits; `remote_mixed` has a message of each kind in mode ACTIVE,
  where each of them gets its longest path, no edit (its properties need that), and
  room for two acknowledgements, so that the third evicts the first.
* A continuation token is used for one transaction (`HeldToken`), where the code sets no
  limit: without the bound a token holder could keep `RunSettles` from holding by endless
  transactions, which shows nothing about the supervisor.
* `GateRun`: three levels are a first, a middle and a last one; `Starts = {0, 1}` is
  the first and a later Gate of a plan; of two files one may be complete while the
  other is half written. After two crashes `RetryBudget = 3` leaves one retry and
  `RetryBudget = 2` none, so that success after them and exhaustion both happen.
* `ProviderAction`: two files are generated in one segment or in two; three generations
  with two models make the rotation wrap; two remediations and a crash let a
  remediation meet the directory of an interrupted one.
* `SuccessorStage`: of two requests one stages the release and the other finds it
  staged, which makes the matching receipt ambiguous. Four messages are the whole
  protocol of a release, five send one again, and a poll more than messages lets two polls
  answer the same one. A behaviour has five messages and six polls, or four and five with
  one death, or four and four with one failure or outside change (`Budgets`).
* Supervisors and files are interchangeable, and symmetry is used in the runs that check
  invariants and safety properties only.
* Deadlock is checked for every module but `FullPlan`, where a run in a terminal state
  with its bounds used up may stop. In the others a finished system has a stuttering
  action (`Settled`), so a deadlock is a process stuck in the middle of its work.

### 7.3 Fairness

* `FullPlan`: weak fairness of the supervisor's own steps (a process that is not
  killed runs on), of the end or the timeout of a child (`_run_gate_process` kills
  a child over its limit), of the exit of an orphan (parent-death signal), of the
  end of a transaction body, and of a new start while the run's unit is inactive
  (the timer installed by `systemd_user_timer`, `production_full_plan_boot.py`).
  Nothing is assumed of operators, crashes, heartbeats or abandoned children.
* `RemoteOperator`: weak fairness of `Service` as a whole: `ocpv2.user.timer` starts
  the one-shot unit every 30 seconds and a started process runs on. Nothing is
  assumed of the pull request or of the Full Plan.
* `GateRun`: weak fairness of the Gate process, the supervisor and the runner, each as a
  whole: a process that is not killed runs on, the service restarts a dead supervisor
  and a turn has a timeout. Nothing is assumed of crashes and timeouts.
* `ProviderAction`: weak fairness of the worker's and the supervisor's steps; calls of
  providers and tests have timeouts.
* `SuccessorStage`: weak fairness of the steps of a poll that was started. Nothing is
  assumed to start one: the control units have no timer
  (`ocpv2_stage_control_runtime.py:3`, `ocpv2_p3_control_runtime.py:3`), and the timer of
  `ocpv2.service` must be off for an admission to succeed. `SettledByEvidence` therefore
  begins where a last poll has been started. Nothing is assumed of failures or of the
  other owners.

## 8. Proofs

Every invariant and action property that a passing run checks is proved, and so are
both refinements; `PROJECT.json` lists the theorems. They hold for all values of the
constants: any number of Gates, levels, files, messages, supervisors and polls, and
any bound on crashes, damages, stops and retries. In each module the argument is one
inductive invariant, called `IInv` (`AInv` adds to it in 8.3), which TLC checked as an
invariant of small instances before it was proved. Each of its parts is shown to
survive every action, and the theorems are read off it. Where a theorem has a
hypothesis that its run satisfies by its bounds, the hypothesis is in its statement.

### 8.1 `FullPlanProofs` and `FullPlanContinuityProofs` (assumption: `PlanAssumption`)

`FullPlanProofs` has types and the lock:

* `TypeCorrect`: `Spec => [](TypeOK /\ ResultsKnown)`. `TypeOK` alone is not
  inductive: settling a result needs that there is one, which is `ResultsKnown`. The
  lemmas come in three layers: what each operator on generations returns
  (`GateCompletedType`: no Gate past the end of the plan is current or enqueued),
  what a save does to the files, and one lemma per group of actions.
* `LockFollowsProcesses`: `Spec => []LockHeld`. Whoever is inside `run`, or died
  leaving a live child, holds the lock, and a supervised child is alive only at the
  places `forked` and `running` or after a crash.
* `MutualExclusion`: `Spec => []SingleWorker`, from `LockHeld`: two live supervised
  children would both hold the one lock. The second half of `LockHeld` is what
  makes it inductive: `Return`, `ReconcileRefused` and `EndTransaction` release the
  lock, and must do so where no supervised child is alive.

`FullPlanContinuityProofs` has what the durable run promises. Its invariant is
`Shaped /\ Undamaged /\ ResultsHeld /\ Witnessed /\ GateKept`:

* `Shaped`: every generation, in file or in memory, has one queue item for each Gate up
  to the first that is not complete. This is why there is one active item and a
  successor, and every operation on a queue is shown to keep it.
* `Undamaged`: while no file was damaged, the primary says where its supervisor is
  (`InStep`; the supervisor's dictionary *is* the primary), a Gate that was begun is
  never ready without `resume` (`Counted`), fewer retries than attempts were counted,
  no token is newer than the owner, and a directive that has claimed is no longer
  bound to the primary.
* `Witnessed`: the generation whose digest the reconciler holds has the wait reason it
  evaluated.
* `GateKept`: around a live process each file that could be loaded after one damage names
  its Gate. This is what the two saves of a dispatch, one before the fork, are for.

From it: `SuccessorIsQueued`, `DispatchIntentIsDurable`, `FirstExecutionIsOnly`,
`RetriesAreBounded`, `TransactionsAreFenced`, `DirectivesClaimOnce`, `MigratedIsQuiet`,
`DamageLosesNoGate`, and the action properties `ObservedWaitIsResumed` and
`GoodGenerationStays`. `MigratedIsQuiet` has two halves: a run closed in favour of a
successor is in a state in which no supervised or orphaned process is left (by
`Undamaged`), and the closing found its own migration verified, which no later write
undoes (`ClosedWell`, `KeepsMigration`).

`RunImplementsPlan`: `Spec /\ [](corruptions = 0) => ImplementsGatePlan`, an action at a
time. A fork starts the first Gate that is not complete because the memory of the
forking supervisor is the primary; a completion is recorded only where a success is at
hand, and `SingleWorker` makes it that of the only process. The hypothesis is
needed: after a damage the previous generation is loaded, in which a completed Gate may
not be complete yet, and the contract has no such step.

### 8.2 `RemoteOperatorProofs` (assumption: `ServiceAssumption`)

None of the three results is inductive by itself: the process carries what it has
checked from the classification to the claim in its program counter. The inductive
invariant is `IInv == Typed /\ Working /\ Recorded /\ Checked`:

* `Typed`: the types of the stores the argument reads;
* `Working`: a loop holds at most one delivery per message, and the places of the
  poll are reached only in its stage;
* `Recorded`: the three results, and that an executed message has a receipt;
* `Checked`: between the binding and the receipt the message has no receipt, its
  sequence number is above every receipt's and the binding is the delivery's own;
  between the receipt and the execution it has a receipt and no execution.

From it follow `MutationsExecuteOnce` (`ExecutedOnce`), `ReceiptsAreBound`
(`RecoveryIdentity`) and `SequencesAreSingleUse` (`SequenceSingleUse`), for any number
of comments, edits, stops, ledger limits, modes and sequence numbers. The
acknowledgement ledgers do not occur in the argument: at-most-once execution rests on
binding and receipt alone, and the ledgers may forget anything.

### 8.3 `RemoteOperatorAnswerProofs`

What the service tells the pull request. A binding is closed at five places, long after
the answer was chosen, so the invariant follows an answer from the classification of a
control to the closing of its binding (`Publishing`, `Known`), and has in `Final` what can
never be undone: an answered mutation's sequence number stays used, so no redelivery of
it is classified as new. `Caused` says that a result in the outbox has an execution
behind it, `Loops` which messages a loop may be at.

* `TypeCorrect`: all of `TypeOK`, the limit of both ledgers included.
* `AcknowledgementsAreAnswers`: `Spec => []AckedIsAnswered`.
* `ResultsArePosted`:
  `Spec => []((\A m \in Message : Unedited(m)) => ClosedIsAnswered)`. With an edit the
  conclusion is false, which is the third disagreement of 7.1.
* `LedgersListOnce`: a delivery is in a pending queue, and a comment among the
  acknowledgements, at most once. The code removes every equal entry (`_discard_pending`
  keeps `item != pending`), the model one of them (`Dropped`); by this theorem they are
  the same.

### 8.4 `GateRunProofs` (assumption: `GateAssumption`)

The invariant has three layers. `OnDisk` speaks of the evidence alone: a sealed stage
follows the one before (`Chained`), the commits are those of the levels in order, and each
piece of evidence names the commit it should (`Backed`). `InProgress` and `Passed` tie the
process to it: what it has behind it is sealed, what it has resumed is sealed,
and the commits are those of the levels behind it, with or without its own. `Supervised`
and `Received` are the queue item and the request ledger: a request that is not in the
ledger has started no turn.

* `TypeCorrect`, `TurnsAreStartedOnce` (`WorkerTurnOnce`), `PackagesFollowHandoffs`
  (`PackageFollowsHandoff`), `HandoffsAreBacked` (`HandoffBacked`).
* `GateImplementsLevelPlan`: `Spec => ImplementsLevelPlan`, with crashes and timeouts.
  A seal of HANDOFF adds one to the number of levels handed off because it is the seal of
  the next level (cardinality of an initial segment), and a commit is the step of the
  contract because every earlier level is handed off.
* `CommitsAreValidated`: `Spec => []CommittedIsValidated`, with crashes and timeouts. A
  file a runner has open or has written has a write intent in its level's journal
  (`Journaled`), and none is opened twice; what a runner has open is half written until
  its level is committed (`Opened`), and the changes an attempt collected stay dirty until
  then (`Taken`). So between validation and commit a runner can do no more than complete
  the one file it had open, and only the runner of a terminated Gate (`Raced`).
* `ChainsFollowLifecycle`: `ChainFollowsLifecycle` while `faults.timeouts = 0`; TLC shows
  its violation with a single timeout. The invariants `Attended` (a runner has a Gate
  process waiting for it) and `Placed` (program counter and resumed records determine the
  length of the chain) carry the proof.

### 8.5 `ProviderActionProofs` (assumption: `ActionAssumption`)

The invariant follows a file through its write: every journal entry of the proposal being
performed was made by this process and is finished but for the one it is at
(`Performed`); a missing file is a draft, in a segment to come, or still to be written
(`Planned`); an effect in the evidence is on record and its file was written to the end
(`Collected`), and the same of the commit (`Committed`). `Planned` is what makes
`ReviewsAreComplete` inductive: a process that takes a half-done worktree over generates
what is missing.

* `TypeCorrect`, `ReviewsAreGoverned` (`ReviewedIsGoverned`), `ReviewsAreComplete`
  (`ReviewedIsComplete`).
* `ModelsAreRotated` (`ModelsRotate`). It is false for a list of models with a repetition;
  `RouterDecision.__post_init__` (`runtime/orchestrator/provider_router.py:368`)
  refuses one, and that is a conjunct of `ActionAssumption`.

### 8.6 `SuccessorStageProofs` (assumption: `StageAssumption`)

* `TransactionsDoNotOverlap` (`OneTransaction`): `Locked` says that the lock file is there
  while a transaction runs; only a poll that found it absent enters.
* `EvidenceIsBacked` (`ChainIsBacked`): each file is absent, torn, or rests on the one
  before it (`OnDisk`), and so does what a poll is about to write (`Justified`). Evidence
  is only added (`Grows`), so what one poll relies on survives the steps of the others;
  the exception, `UnlinkTerminal`, removes the last file of the chain.
  `OneTransaction` is needed here: a second transaction could move HEAD between the check
  and the merge of the first.
* `TypeCorrect`.

### 8.7 Only model-checked

Liveness, because fairness and `ENABLED` are outside the prover: `RunSettles`,
`RecoverySettles`, `GateDecided`, `ResumeIsDecidedByEvidence`, `ActionDecided`,
`SettledByEvidence`; and the violations of section 7. The following have no theorem
because the code does not keep them in general: `ImplementsGatePlan` after a damage,
`ClosedIsAnswered` after an edit, `ChainFollowsLifecycle` after a timeout.

## 9. Plan

Done: the Full Plan supervisor with its contract (1), the remote operator service (2),
the Gate process with its contract (3), the provider action (4), the successor stage (5),
in that order: from what carries every execution of a Gate to what a Gate executes, then
to how the runtime itself is replaced; and the theorems about every safety property of
them.

Next, the theorems:

1. for `FullPlan`, what the contract becomes with one damage (an abstract step that takes
   back the last completion), in place of the hypothesis of `RunImplementsPlan`;
2. the safety half of the liveness properties: which states `Recoverable` (`GateRun`) and
   `Ready` (`SuccessorStage`) describe, and that only the named actions leave them.

Then further modules: `RuntimeMigration` (`MigrationStore`, the runtime link and the
predecessor's operations of `FullPlan`; abstract specification: never both of predecessor
and successor active), the TDD_V1 mode, a composition of `RemoteOperator` with
`FullPlan` in which `Execute` is `ExecuteDirective`, the other remote control kinds, the
capability lifecycle store. The project keeps twelve runs, so that checking everything
stays short: a new module takes the place of a run that can be merged with another.
