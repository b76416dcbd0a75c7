------------------------------ MODULE GateRun ------------------------------
(***************************************************************************)
(* One Gate of a FULL_PLAN run under sealed project authority: what the    *)
(* Gate process does that the supervisor (FullPlan) starts, retries and    *)
(* resumes.  execute_gate takes the levels (LVs) of the Gate in order and  *)
(* runs each through PACKAGE, PREFLIGHT, WORKER, REVIEW, CHECKPOINT, EXIT  *)
(* and HANDOFF; a stage leaves its evidence on disk and then seals an      *)
(* event in the level's ResumeStore.  The WORKER stage starts a host       *)
(* runner that edits the Git worktree, validates what it left and commits  *)
(* it.  Every durable write is a step of its own; the service may be       *)
(* killed before any of them, and a Gate that takes too long is terminated *)
(* while its host runner goes on.                                          *)
(*                                                                         *)
(* A Git HEAD is the number of commits since the approved head, which is 0.*)
(***************************************************************************)
EXTENDS Integers, Sequences, FiniteSets

CONSTANTS
  N,            \* levels of the Gate
  Starts,       \* the commits earlier Gates of the plan may have made
  Files,        \* files a level owns
  RetryBudget,  \* retry_budget of the supervisor
  MaxCrashes,   \* deaths of the whole service (bound)
  MaxTimeouts,  \* Gate timeouts (bound)
  MayFail       \* BOOLEAN: workers, validations and reviews may fail

Level == 1..N

\* _LIFECYCLE of the ResumeStore.  REMEDIATION is left out: a production review
\* that does not pass ends the attempt.
Lifecycle == <<"PACKAGE", "PREFLIGHT", "WORKER", "REVIEW", "CHECKPOINT", "EXIT", "HANDOFF">>
Stage == {Lifecycle[i] : i \in DOMAIN Lifecycle}

ASSUME GateAssumption ==
  /\ N \in Nat \ {0}
  /\ Starts \subseteq Nat
  /\ IsFiniteSet(Files) /\ Files # {}
  /\ RetryBudget \in Nat /\ MaxCrashes \in Nat /\ MaxTimeouts \in Nat
  /\ MayFail \in BOOLEAN

VARIABLES
  start,     \* commits of the earlier Gates
  level,     \* the evidence of each level on disk
  tree,      \* uncommitted content of each level's files
  commits,   \* the checkpoint commits of this Gate, oldest first
  socket,    \* runtime/host-gateway.sock exists
  runner,    \* the host runner process
  gate,      \* the Gate process
  sup,       \* the queue item of the Gate, as the supervisor keeps it
  launches,  \* history: worker turns started for each level
  faults     \* crashes and timeouts so far

vars == <<start, level, tree, commits, socket, runner, gate, sup, launches, faults>>

----------------------------------------------------------------------------
(* Data *)

HEAD == start + Len(commits)

\* A file's uncommitted content: none, opened and truncated, written.
Edits == [Files -> 0..2]
NoEdits == [f \in Files |-> 0]
Touched(e) == {f \in Files : e[f] > 0}
Dirty(l) == Touched(tree[l]) # {}
Clean == \A l \in Level : ~Dirty(l)

\* package: the package directory, PARTIAL when only some files were published;
\* source: source_head of its manifest; preflight: preflight.evidence.json;
\* request: worker.request.json; ledger: the record of the level's only request;
\* journal: the files with a write intent in its tool-effects directory;
\* result: worker.result.json, and the commit it names; reviews: the verdicts of
\* the review-attempt directories; events: the ResumeStore, torn when its last
\* event is unreadable; handoff: the head that <run>.handoff.json names, -1 while
\* there is none.
Untouched ==
  [package |-> "NONE", source |-> 0, preflight |-> FALSE, request |-> FALSE,
   ledger |-> "NONE", journal |-> {}, result |-> "NONE", commit |-> 0,
   reviews |-> <<>>, events |-> <<>>, torn |-> FALSE, handoff |-> -1]

Sealed(l, s) == \E i \in DOMAIN level[l].events : level[l].events[i] = s

NoRunner == [on |-> "off", lv |-> 0, writing |-> {}]

\* lineage: current_head of the sealed lineage, -1 for none; head: the observed
\* head of the level's context; records: resume_records; changed and tested:
\* the changed files and their content when the validations ran.
NoGate ==
  [pc |-> "off", lv |-> 0, done |-> 0, resume |-> FALSE, lvResume |-> FALSE,
   lineage |-> -1, head |-> 0, records |-> <<>>, changed |-> {}, tested |-> NoEdits]

\* Mutant of InRecords: no record is ever found.
NoRecords(s) == FALSE

InRecords(s) == \E i \in DOMAIN gate.records : gate.records[i] = s

GateAt(pc) == gate.pc = pc
Goto(pc) == gate' = [gate EXCEPT !.pc = pc]

\* The process ends with an exception, which the supervisor classifies.
Raise == Goto("raised")
RaiseArtifact == Goto("artifact")

disk == <<start, level, tree, commits>>
processes == <<socket, runner>>
history == <<sup, launches, faults>>

Init ==
  /\ start \in Starts
  /\ level = [l \in Level |-> Untouched]
  /\ tree = [l \in Level |-> NoEdits]
  /\ commits = <<>>
  /\ socket = FALSE
  /\ runner = NoRunner
  /\ gate = NoGate
  /\ sup = [state |-> "READY", attempt |-> 1, resume |-> FALSE]
  /\ launches = [l \in Level |-> 0]
  /\ faults = [crashes |-> 0, timeouts |-> 0]

----------------------------------------------------------------------------
(* Source lineage: which HEAD a Gate may start or go on from *)

\* Mutant of SealedCheckpoints: a level packaged at any head qualifies.
CheckpointsOfAnySource ==
  {l \in Level : /\ level[l].result = "OK" /\ level[l].commit = HEAD
                 /\ ~level[l].torn /\ Sealed(l, "WORKER")}

\* The levels whose WORKER event seals the commit the repository stands on.
\* Only a level packaged at the approved head qualifies.
SealedCheckpoints ==
  {l \in Level : /\ level[l].result = "OK" /\ level[l].commit = HEAD
                 /\ ~level[l].torn /\ Sealed(l, "WORKER")
                 /\ level[l].source = 0}

\* _verified_resume_checkpoint_head
VerifiedResumeCheckpoint ==
  sup.resume /\ Clean /\ Cardinality(SealedCheckpoints) = 1

\* _verified_completed_gate_lineage_head: the terminal HEAD of the Gate before,
\* for a Gate that is not being resumed.
VerifiedCompletedGate ==
  ~sup.resume /\ Clean /\ start > 0 /\ HEAD = start

HasSourceLineage == VerifiedResumeCheckpoint \/ VerifiedCompletedGate

\* Mutant of CompletedLevel: a handoff file is taken for a completed level.
HandoffOnFile(l) == level[l].handoff # -1

\* _sealed_completed_lv_lineage: the level's evidence is complete and its commit
\* is the only one between its package and HEAD.
CompletedLevel(l) ==
  /\ level[l].handoff = level[l].source
  /\ HEAD = level[l].source + 1
  /\ ~level[l].torn /\ level[l].events = Lifecycle
  /\ level[l].result = "OK" /\ level[l].commit = HEAD

----------------------------------------------------------------------------
(* The supervisor *)

\* preflight_job
SourceHeadAccepted == HEAD = 0 \/ HasSourceLineage

Launch ==
  /\ sup.state = "READY" /\ SourceHeadAccepted
  /\ sup' = [sup EXCEPT !.state = "RUNNING"]
  /\ gate' = [NoGate EXCEPT !.pc = "execute", !.resume = sup.resume]
  /\ UNCHANGED <<disk, processes, launches, faults>>

PreflightBlocked ==
  /\ sup.state = "READY" /\ ~SourceHeadAccepted
  /\ sup' = [sup EXCEPT !.state = "BLOCKED"]
  /\ UNCHANGED <<disk, processes, gate, launches, faults>>

\* Mutants of Retried: a state the dispatcher does not know; an attempt that is
\* not counted.
RetriedAsRecovering(s) ==
  [state |-> "RECOVERING", attempt |-> s.attempt + 1, resume |-> TRUE]
RetriedForever(s) == [s EXCEPT !.state = "READY", !.resume = TRUE]

\* _handle_failure
Retried(s) ==
  IF s.attempt <= RetryBudget
  THEN [state |-> "READY", attempt |-> s.attempt + 1, resume |-> TRUE]
  ELSE [s EXCEPT !.state = "BLOCKED"]

HandleFailure ==
  /\ gate.pc \in {"raised", "artifact"}
  /\ sup' = IF GateAt("raised") THEN Retried(sup) ELSE [sup EXCEPT !.state = "BLOCKED"]
  /\ gate' = NoGate
  /\ UNCHANGED <<disk, processes, launches, faults>>

----------------------------------------------------------------------------
(* execute_gate *)

\* The levels a resumed Gate finds handed off, and the order they must be in.
HandedOff == {l \in Level : level[l].handoff # -1}
HandoffsInOrder == HandedOff = 1..Cardinality(HandedOff)

\* Mutant of LineageAtEntry: the commit found by build_gate_executor is trusted
\* without the evidence of the level that made it.
LineageOfCommit(done) == IF HEAD = 0 THEN "NONE" ELSE "SEALED"

\* The lineage execute_gate starts with: none at the approved head, the one of
\* the last completed level, or the one build_gate_executor found.
LineageAtEntry(done) ==
  CASE HEAD = 0 -> "NONE"
    [] HEAD # 0 /\ ~HasSourceLineage -> "MISSING"
    [] HEAD # 0 /\ HasSourceLineage /\ done = 0 -> "SEALED"
    [] OTHER -> IF CompletedLevel(done) THEN "SEALED" ELSE "MISSING"

ExecuteGate ==
  LET done == IF gate.resume THEN Cardinality(HandedOff) ELSE 0
      entry == LineageAtEntry(done)
  IN
  /\ GateAt("execute")
  /\ IF entry = "MISSING" \/ (gate.resume /\ ~HandoffsInOrder)
     THEN Raise
     ELSE gate' = [gate EXCEPT !.pc = "level", !.done = done,
                               !.lineage = IF entry = "SEALED" THEN HEAD ELSE -1]
  /\ UNCHANGED <<disk, processes, history>>

\* The next level of the plan; off the approved head it needs a lineage for HEAD
\* (activate_canonical_lv_transition records it).
BeginLevel ==
  LET l == gate.done + 1 IN
  /\ GateAt("level") /\ gate.done < N
  /\ IF HEAD # 0 /\ gate.lineage # HEAD
     THEN Raise
     ELSE gate' = [gate EXCEPT !.pc = "package", !.lv = l, !.head = HEAD,
                     !.lvResume = gate.resume /\ level[l].package # "NONE",
                     !.records = <<>>, !.changed = {}, !.tested = NoEdits]
  /\ UNCHANGED <<disk, processes, history>>

\* gate_exit_ready: the result reaches the supervisor, which records it.
ExitGate ==
  /\ GateAt("level") /\ gate.done = N
  /\ gate' = NoGate
  /\ sup' = [sup EXCEPT !.state = "EXITED"]
  /\ UNCHANGED <<disk, processes, launches, faults>>

\* The level returned from run_gate_lifecycle: its lineage is verified anew.
CompleteLevel ==
  /\ GateAt("complete")
  /\ IF HEAD # 0 /\ ~CompletedLevel(gate.lv)
     THEN Raise
     ELSE gate' = [gate EXCEPT !.pc = "level", !.done = gate.lv,
                               !.lineage = IF HEAD # 0 THEN HEAD ELSE -1]
  /\ UNCHANGED <<disk, processes, history>>

----------------------------------------------------------------------------
(* The ResumeStore *)

Put(l, field, v) == level' = [level EXCEPT ![l][field] = v]

\* ResumeStore.append, as sealed() of the stage calls it.
Seal(pc, stage, next) ==
  LET l == gate.lv IN
  /\ GateAt(pc)
  /\ Put(l, "events", Append(level[l].events, stage))
  /\ Goto(next)
  /\ UNCHANGED <<start, tree, commits, processes, history>>

SealPackage    == Seal("seal_package", "PACKAGE", "preflight")
SealPreflight  == Seal("seal_preflight", "PREFLIGHT", "worker")
SealWorker     == Seal("seal_worker", "WORKER", "review")
SealReview     == Seal("seal_review", "REVIEW", "checkpoint")
SealCheckpoint == Seal("seal_checkpoint", "CHECKPOINT", "exit")
SealExit       == Seal("seal_exit", "EXIT", "handoff")
SealHandoff    == Seal("seal_handoff", "HANDOFF", "complete")

\* A stage whose event is among the resumed records returns that event's payload.
Resumed(pc, stage, next) ==
  /\ GateAt(pc) /\ InRecords(stage)
  /\ Goto(next)
  /\ UNCHANGED <<disk, processes, history>>

----------------------------------------------------------------------------
(* PACKAGE *)

ExecutionEvidence(l) ==
  level[l].preflight \/ level[l].request \/ level[l].result # "NONE"

\* What the package stage finds: a package of another, fresh run; a directory
\* that create_lv_execution_package refuses; a worktree it refuses; nothing.
PackageVerdict(l) ==
  CASE level[l].package = "SEALED" /\ ~gate.lvResume -> "COLLISION"
    [] level[l].package = "SEALED" /\ gate.lvResume -> "REHYDRATED"
    [] level[l].package = "PARTIAL" -> "EXISTS"
    [] OTHER -> IF Clean THEN "NEW" ELSE "UNCLEAN"

CreatePackage ==
  LET l == gate.lv IN
  /\ GateAt("package") /\ PackageVerdict(l) = "NEW"
  /\ level' = [level EXCEPT ![l].package = "SEALED", ![l].source = HEAD]
  /\ Goto("seal_package")
  /\ UNCHANGED <<start, tree, commits, processes, history>>

\* A resumed level reads its event chain.  Without one it is packaged anew,
\* unless a later stage left evidence behind.
RehydratePackage ==
  LET l == gate.lv IN
  /\ GateAt("package") /\ PackageVerdict(l) = "REHYDRATED" /\ ~level[l].torn
  /\ \/ /\ level[l].events = <<>>
        /\ IF ExecutionEvidence(l) THEN RaiseArtifact ELSE Goto("seal_package")
     \/ /\ level[l].events # <<>>
        /\ gate' = [gate EXCEPT !.pc = "preflight", !.records = level[l].events]
  /\ UNCHANGED <<disk, processes, history>>

PackageRefused ==
  LET l == gate.lv IN
  /\ GateAt("package")
  /\ \/ PackageVerdict(l) = "REHYDRATED" /\ level[l].torn
     \/ PackageVerdict(l) \in {"COLLISION", "EXISTS", "UNCLEAN"}
  /\ IF PackageVerdict(l) = "COLLISION" THEN RaiseArtifact ELSE Raise
  /\ UNCHANGED <<disk, processes, history>>

----------------------------------------------------------------------------
(* PREFLIGHT *)

PreflightResumed == Resumed("preflight", "PREFLIGHT", "worker")

\* preflight_run returns the published evidence or publishes it, which needs the
\* worktree the package was made from and no worker result; a level resumed with
\* nothing but its package may stand on a descendant that left its files alone.
SafeDescendant(l) ==
  /\ gate.lvResume /\ ~ExecutionEvidence(l)
  /\ \A i \in DOMAIN commits : commits[i].lv # l

SourceUnchanged(l) ==
  /\ Clean /\ level[l].result = "NONE"
  /\ HEAD = level[l].source \/ SafeDescendant(l)

PreflightRun ==
  LET l == gate.lv IN
  /\ GateAt("preflight") /\ ~InRecords("PREFLIGHT")
  /\ IF level[l].preflight \/ SourceUnchanged(l)
     THEN Put(l, "preflight", TRUE) /\ Goto("seal_preflight")
     ELSE /\ IF HEAD # level[l].source THEN RaiseArtifact ELSE Raise
          /\ UNCHANGED level
  /\ UNCHANGED <<start, tree, commits, processes, history>>

----------------------------------------------------------------------------
(* WORKER *)

\* Mutant of WorkerResumed: the event of the stage before is enough.
WorkerResumedEarly ==
  GateAt("worker") /\ ~Dirty(gate.lv) /\ Resumed("worker", "PREFLIGHT", "review")

\* Dirty owned files take precedence over a WORKER event of an earlier process.
WorkerResumed ==
  GateAt("worker") /\ ~Dirty(gate.lv) /\ Resumed("worker", "WORKER", "review")

\* A result on disk without its event (or with dirty files) is sealed as it is.
WorkerResult ==
  LET l == gate.lv IN
  /\ GateAt("worker") /\ (Dirty(l) \/ ~InRecords("WORKER"))
  /\ level[l].result # "NONE"
  /\ IF level[l].result = "OK" THEN Goto("seal_worker") ELSE Raise
  /\ UNCHANGED <<disk, processes, history>>

WorkerRequest ==
  LET l == gate.lv IN
  /\ GateAt("worker") /\ (Dirty(l) \/ ~InRecords("WORKER"))
  /\ level[l].result = "NONE"
  /\ Put(l, "request", TRUE)
  /\ Goto("work")
  /\ UNCHANGED <<start, tree, commits, processes, history>>

\* execute_production_worker: a HEAD past the package is adopted, dirty files
\* are taken for an interrupted turn, and only otherwise is a worker started.
TerminationKind(l) ==
  CASE HEAD # level[l].source -> "ADOPTED_CHECKPOINT"
    [] HEAD = level[l].source /\ \E m \in Level \ {l} : Dirty(m) -> "OUTSIDE_SCOPE"
    [] OTHER -> IF Dirty(l) THEN "RESUMED_PENDING_CHECKPOINT" ELSE "HOST_GATEWAY"

ExecuteWorker ==
  LET l == gate.lv IN
  /\ GateAt("work")
  /\ CASE TerminationKind(l) = "HOST_GATEWAY" -> IF socket THEN Raise ELSE Goto("spawn")
       [] TerminationKind(l) = "OUTSIDE_SCOPE" -> Raise
       [] OTHER -> Goto("collect")
  /\ UNCHANGED <<disk, processes, history>>

\* ManagedHostRunner.__enter__
SpawnRunner ==
  /\ GateAt("spawn")
  /\ runner' = [on |-> "accept", lv |-> gate.lv, writing |-> {}]
  /\ socket' = TRUE
  /\ Goto("turn")
  /\ UNCHANGED <<disk, history>>

\* Mutant of RequestIsNew: a turn that did not complete may be received again.
RequestNotCompleted(l) == level[l].ledger # "COMPLETED"

\* DurableExecutionLedger.transition: RECEIVED has no predecessor.
RequestIsNew(l) == level[l].ledger = "NONE"

RunnerGone == runner' = NoRunner /\ socket' = FALSE

\* serve_once.  The request of a level is the same at every attempt: one that
\* is in the ledger is not run again, and what the runner answers then is
\* refused by the worker executor.
RunnerAccept ==
  LET l == runner.lv IN
  /\ runner.on = "accept"
  /\ IF RequestIsNew(l)
     THEN /\ Put(l, "ledger", "RUNNING")
          /\ runner' = [runner EXCEPT !.on = "turn"]
          /\ launches' = [launches EXCEPT ![l] = @ + 1]
          /\ UNCHANGED <<socket, gate>>
     ELSE /\ RunnerGone
          /\ IF GateAt("turn") THEN Raise ELSE UNCHANGED gate
          /\ UNCHANGED <<level, launches>>
  /\ UNCHANGED <<start, tree, commits, sup, faults>>

\* One tool call of the turn.  The journal takes one write intent for a file in
\* the level's run, so no file is written twice; the file is opened, and thereby
\* truncated, before its content is there.
RunnerOpen ==
  LET l == runner.lv IN
  /\ runner.on = "turn" /\ runner.writing = {}
  /\ \E f \in Files \ level[l].journal :
       /\ level' = [level EXCEPT ![l].journal = @ \union {f}]
       /\ tree' = [tree EXCEPT ![l][f] = 1]
       /\ runner' = [runner EXCEPT !.writing = {f}]
  /\ UNCHANGED <<start, commits, socket, gate, history>>

RunnerWrite ==
  /\ runner.on = "turn"
  /\ \E f \in runner.writing : tree' = [tree EXCEPT ![runner.lv][f] = 2]
  /\ runner' = [runner EXCEPT !.writing = {}]
  /\ UNCHANGED <<start, level, commits, socket, gate, history>>

\* The turn ends, completed or not.  A runner whose Gate was terminated has
\* nobody to answer.
RunnerEnd ==
  LET l == runner.lv IN
  /\ runner.on = "turn"
  /\ \E ok \in BOOLEAN :
       /\ ok => runner.writing = {}
       /\ MayFail \/ (ok /\ (Dirty(l) \/ HEAD # level[l].source))
       /\ Put(l, "ledger", IF ok THEN "COMPLETED" ELSE "FAILED")
       /\ IF GateAt("turn") THEN (IF ok THEN Goto("answer") ELSE Raise)
                            ELSE UNCHANGED gate
  /\ RunnerGone
  /\ UNCHANGED <<start, tree, commits, history>>

\* The runner waits for a connection the terminated Gate never made.
RunnerAcceptTimeout ==
  /\ runner.on = "accept" /\ ~GateAt("turn")
  /\ RunnerGone
  /\ UNCHANGED <<disk, gate, history>>

\* The answer of a completed turn: its event stream, its standard error and its
\* final message are scanned, and one that does not pass ends the attempt.
TurnAnswered ==
  /\ GateAt("answer")
  /\ \/ Goto("collect")
     \/ MayFail /\ Raise
  /\ UNCHANGED <<disk, processes, history>>

\* What the turn, or the interrupted turn before it, changed; the changed files
\* are scanned too.
CollectChanges ==
  LET l == gate.lv
      changed == IF HEAD = level[l].source THEN Touched(tree[l])
                 ELSE Touched(commits[Len(commits)].content)
  IN
  /\ GateAt("collect")
  /\ \/ changed # {} /\ gate' = [gate EXCEPT !.pc = "validate", !.changed = changed]
     \/ (changed = {} \/ MayFail) /\ Raise
  /\ UNCHANGED <<disk, processes, history>>

\* The project's own tests run on the worktree as it is now.
Validate ==
  /\ GateAt("validate")
  /\ \/ gate' = [gate EXCEPT !.pc = "commit", !.tested = tree[gate.lv]]
     \/ MayFail /\ Raise
  /\ UNCHANGED <<disk, processes, history>>

Only(e, fs) == [f \in Files |-> IF f \in fs THEN e[f] ELSE 0]

NeedsCommit(l) == HEAD = level[l].source

\* Mutant of CommitCheckpoint: whatever is dirty by now is added, not the changed
\* files that were collected.
CommitEverything ==
  LET l == gate.lv IN
  /\ GateAt("commit")
  /\ IF NeedsCommit(l)
     THEN /\ commits' = Append(commits, [lv |-> l, content |-> tree[l], tested |-> gate.tested])
          /\ tree' = [tree EXCEPT ![l] = NoEdits]
     ELSE UNCHANGED <<commits, tree>>
  /\ Goto("result")
  /\ UNCHANGED <<start, level, processes, history>>

\* git add of the changed files and git commit, whatever they hold by now.
CommitCheckpoint ==
  LET l == gate.lv IN
  /\ GateAt("commit")
  /\ IF NeedsCommit(l)
     THEN /\ commits' = Append(commits, [lv |-> l,
                                         content |-> Only(tree[l], gate.changed),
                                         tested |-> Only(gate.tested, gate.changed)])
          /\ tree' = [tree EXCEPT ![l] = Only(@, Files \ gate.changed)]
     ELSE UNCHANGED <<commits, tree>>
  /\ Goto("result")
  /\ UNCHANGED <<start, level, processes, history>>

WriteResult ==
  LET l == gate.lv IN
  /\ GateAt("result")
  /\ IF Clean
     THEN /\ level' = [level EXCEPT ![l].result = "OK", ![l].commit = HEAD]
          /\ Goto("seal_worker")
     ELSE Raise /\ UNCHANGED level
  /\ UNCHANGED <<start, tree, commits, processes, history>>

----------------------------------------------------------------------------
(* REVIEW, CHECKPOINT, EXIT, HANDOFF *)

ReviewResumed     == Resumed("review", "REVIEW", "checkpoint")
CheckpointResumed == Resumed("checkpoint", "CHECKPOINT", "exit")
ExitResumed       == Resumed("exit", "EXIT", "handoff")

\* _verify_legacy_lineage: there are at most three reviews of a level, and a
\* third one only after a second that did not pass.
ReviewLineage(l) ==
  LET prior == level[l].reviews IN
  Len(prior) < 2 \/ (Len(prior) = 2 /\ prior[2] = "FAIL")

\* review_run: the verdicts it can reach.  A PASS needs the checkpoint commit to
\* be HEAD; a runner still at work changes files under the reviewer's tests.
ReviewVerdicts(l) ==
  (IF level[l].commit = HEAD THEN {"PASS"} ELSE {})
    \union (IF MayFail \/ runner.on = "turn" THEN {"FAIL"} ELSE {})

\* _seal_review publishes the report before the event is sealed.  A FAIL verdict
\* raises, and the next attempt reviews again beside it.
Review ==
  LET l == gate.lv IN
  /\ GateAt("review") /\ ~InRecords("REVIEW")
  /\ IF ReviewLineage(l)
     THEN \E v \in ReviewVerdicts(l) :
            /\ Put(l, "reviews", Append(level[l].reviews, v))
            /\ IF v = "PASS" THEN Goto("seal_review") ELSE Raise
     ELSE Raise /\ UNCHANGED level
  /\ UNCHANGED <<start, tree, commits, processes, history>>

Checkpoint ==
  /\ GateAt("checkpoint") /\ ~InRecords("CHECKPOINT")
  /\ Goto("seal_checkpoint")
  /\ UNCHANGED <<disk, processes, history>>

\* EXIT needs the checkpoint event in the verified chain.
ExitLevel ==
  /\ GateAt("exit") /\ ~InRecords("EXIT")
  /\ IF Sealed(gate.lv, "CHECKPOINT") THEN Goto("seal_exit") ELSE Raise
  /\ UNCHANGED <<disk, processes, history>>

\* The handoff names the head its own invocation observed at the level's start.
WriteHandoff ==
  /\ GateAt("handoff")
  /\ IF InRecords("HANDOFF")
     THEN Goto("complete") /\ UNCHANGED level
     ELSE Put(gate.lv, "handoff", gate.head) /\ Goto("seal_handoff")
  /\ UNCHANGED <<start, tree, commits, processes, history>>

----------------------------------------------------------------------------
(* Faults *)

Sealing == {"seal_package", "seal_preflight", "seal_worker", "seal_review",
            "seal_checkpoint", "seal_exit", "seal_handoff"}

\* A process that dies while it writes a file in place leaves it half written:
\* an event, the worker result, or the package of the first level, which is
\* published file by file beside the diagnostics already there.
TornWrite ==
  LET l == gate.lv IN
  \/ UNCHANGED level
  \/ gate.pc \in Sealing /\ Put(l, "torn", TRUE)
  \/ GateAt("result") /\ Clean /\ Put(l, "result", "TORN")
  \/ /\ GateAt("package") /\ l = 1 /\ PackageVerdict(l) = "NEW"
     /\ level' = [level EXCEPT ![l].package = "PARTIAL", ![l].source = HEAD]

\* The service is killed with all its processes; the socket's file stays.  The
\* supervisor's startup reconciliation re-queues the Gate to be resumed.
Crash ==
  /\ sup.state = "RUNNING" /\ faults.crashes < MaxCrashes
  /\ faults' = [faults EXCEPT !.crashes = @ + 1]
  /\ TornWrite
  /\ gate' = NoGate
  /\ runner' = NoRunner
  /\ sup' = [state |-> "READY", attempt |-> sup.attempt + 1, resume |-> TRUE]
  /\ UNCHANGED <<start, tree, commits, socket, launches>>

\* gate_timeout_seconds: the Gate process is terminated; its host runner is not.
Timeout ==
  /\ sup.state = "RUNNING" /\ faults.timeouts < MaxTimeouts
  /\ faults' = [faults EXCEPT !.timeouts = @ + 1]
  /\ TornWrite
  /\ gate' = NoGate
  /\ sup' = Retried(sup)
  /\ UNCHANGED <<start, tree, commits, processes, launches>>

Settled ==
  /\ sup.state \in {"EXITED", "BLOCKED"} /\ runner = NoRunner
  /\ UNCHANGED vars

----------------------------------------------------------------------------
(* Specification *)

Lineages == ExecuteGate \/ BeginLevel \/ ExitGate \/ CompleteLevel
Seals == \/ SealPackage \/ SealPreflight \/ SealWorker \/ SealReview
         \/ SealCheckpoint \/ SealExit \/ SealHandoff
Packages == CreatePackage \/ RehydratePackage \/ PackageRefused
Preflights == PreflightResumed \/ PreflightRun
Workers == \/ WorkerResumed \/ WorkerResult \/ WorkerRequest \/ ExecuteWorker
           \/ SpawnRunner \/ TurnAnswered \/ CollectChanges \/ Validate \/ CommitCheckpoint
           \/ WriteResult
Closings == \/ ReviewResumed \/ Review \/ CheckpointResumed \/ Checkpoint
            \/ ExitResumed \/ ExitLevel \/ WriteHandoff

GateStep == Lineages \/ Seals \/ Packages \/ Preflights \/ Workers \/ Closings
SupervisorStep == Launch \/ PreflightBlocked \/ HandleFailure
RunnerStep == RunnerAccept \/ RunnerOpen \/ RunnerWrite \/ RunnerEnd \/ RunnerAcceptTimeout

Next == GateStep \/ SupervisorStep \/ RunnerStep \/ Crash \/ Timeout \/ Settled

Spec == Init /\ [][Next]_vars

\* The service restarts a dead supervisor, a process that runs goes on, and a
\* worker turn makes progress and ends: it has a timeout.
Fairness ==
  WF_vars(GateStep) /\ WF_vars(SupervisorStep) /\ WF_vars(RunnerStep)

FairSpec == Spec /\ Fairness

----------------------------------------------------------------------------
(* Properties *)

Prefix(s, t) == Len(s) <= Len(t) /\ \A i \in DOMAIN s : s[i] = t[i]

\* The types of a level's evidence, a commit, the host runner, the Gate process
\* and the queue item.
Evidence ==
  [package : {"NONE", "PARTIAL", "SEALED"}, source : Nat,
   preflight : BOOLEAN, request : BOOLEAN,
   ledger : {"NONE", "RUNNING", "COMPLETED", "FAILED"}, journal : SUBSET Files,
   result : {"NONE", "TORN", "OK"}, commit : Nat, reviews : Seq({"PASS", "FAIL"}),
   events : Seq(Stage), torn : BOOLEAN, handoff : Int]

Checkpoints == [lv : Level, content : Edits, tested : Edits]

Runner == [on : {"off", "accept", "turn"}, lv : 0..N, writing : SUBSET Files]

PCs ==
  {"off", "execute", "level", "package", "preflight", "worker", "work", "spawn",
   "turn", "answer", "collect", "validate", "commit", "result", "review",
   "checkpoint", "exit", "handoff", "complete", "raised", "artifact"} \union Sealing

GateState ==
  [pc : PCs, lv : 0..N, done : 0..N, resume : BOOLEAN, lvResume : BOOLEAN,
   lineage : Int, head : Nat, records : Seq(Stage),
   changed : SUBSET Files, tested : Edits]

QueueItem ==
  [state : {"READY", "RUNNING", "EXITED", "BLOCKED"}, attempt : Nat, resume : BOOLEAN]

\* Types of the variables: the evidence on disk, both processes, the queue item.
TypeOK ==
  /\ start \in Starts
  /\ level \in [Level -> Evidence]
  /\ tree \in [Level -> Edits]
  /\ commits \in Seq(Checkpoints)
  /\ socket \in BOOLEAN
  /\ runner \in Runner
  /\ gate \in GateState
  /\ sup \in QueueItem
  /\ launches \in [Level -> Nat]
  /\ faults \in [crashes : Nat, timeouts : Nat]

\* A level's worker turn is started at most once, through every retry, crash and
\* Gate timeout: the request id of a level does not depend on the attempt, and
\* the ledger receives it once.
WorkerTurnOnce == \A l \in Level : launches[l] <= 1

\* Commits, handoffs and the exit of the Gate follow the plan (LevelPlan): no
\* interleaving of resumes, crashes and terminated Gates commits a level twice,
\* out of order, or before its predecessor is sealed to HANDOFF.
HandedCount == Cardinality({l \in Level : Sealed(l, "HANDOFF")})

Levels == INSTANCE LevelPlan WITH
  committed <- Len(commits), handed <- HandedCount, exited <- (sup.state = "EXITED")

ImplementsLevelPlan == Levels!Spec

\* A handoff file is backed by everything it claims: the whole chain up to EXIT
\* is sealed, in lifecycle order and without gaps, and the worker result names
\* the level's own commit.
HandoffBacked ==
  \A l \in HandedOff :
    /\ \A i \in 1..6 : Sealed(l, Lifecycle[i])
    /\ level[l].result = "OK"
    /\ level[l].commit - start \in DOMAIN commits
    /\ commits[level[l].commit - start].lv = l

\* A package is bound to its predecessor: it was sealed at the commit of the
\* level before it, which had its HANDOFF event by then.
PackageFollowsHandoff ==
  \A l \in Level : level[l].package = "SEALED" =>
    /\ level[l].source = start + l - 1
    /\ \A m \in 1..(l - 1) : Sealed(m, "HANDOFF")

\* What the executor commits is what its validations ran on, though the runner of a
\* Gate that was terminated may edit the level beside a retry that has taken its
\* edits over: at most one file differs, only after a Gate timeout, and it is the
\* file that runner had open when the validations ran and has completed since.
Drifted(c) == {f \in Files : c.content[f] # c.tested[f]}

CommittedIsValidated ==
  \A i \in DOMAIN commits :
    \A f \in Drifted(commits[i]) :
      /\ faults.timeouts > 0
      /\ Drifted(commits[i]) = {f}
      /\ commits[i].tested[f] = 1 /\ commits[i].content[f] = 2

\* The event chain of a level is a prefix of the lifecycle: no stage is sealed
\* twice, skipped or sealed early, however often the level is resumed.
ChainFollowsLifecycle == \A l \in Level : Prefix(level[l].events, Lifecycle)

\* Every Gate the supervisor dispatches is decided, exited or blocked, whatever
\* it was interrupted by; one that meets no fault exits.
GateDecided ==
  /\ <>(sup.state \in {"EXITED", "BLOCKED"})
  /\ [](faults.crashes + faults.timeouts = 0) => <>(sup.state = "EXITED")

\* What an interrupted Gate can be resumed from: intact files, no stale socket
\* in the way, and a HEAD where the level in progress has neither committed nor
\* used up its worker request; dirty files are recovered for the first level
\* of the first Gate only.
NothingTorn ==
  \A l \in Level : /\ level[l].package # "PARTIAL" /\ level[l].result # "TORN"
                    /\ ~level[l].torn

FreshWorker(l) == level[l].ledger = "NONE" /\ Clean /\ ~socket

Recoverable ==
  /\ NothingTorn
  /\ \/ /\ HEAD = 0
        /\ FreshWorker(1) \/ (Dirty(1) /\ (N > 1 => ~socket))
     \/ /\ start = 0 /\ HEAD = 1 /\ CompletedLevel(1)
        /\ N > 1 => FreshWorker(2)

\* Once the faults are over, an interrupted Gate exits exactly when it stopped in
\* a recoverable state; from every other one it ends BLOCKED.
Interrupted == sup.state = "READY" /\ sup.resume /\ faults.crashes = MaxCrashes

ResumeIsDecidedByEvidence ==
  /\ (Interrupted /\ Recoverable) ~> (sup.state = "EXITED")
  /\ (Interrupted /\ ~Recoverable) ~> (sup.state = "BLOCKED")

\* "PACKAGE/PREFLIGHT/WORKER events are durable continuation points": a Gate with
\* an intact WORKER event of its level in progress goes on to exit.
WorkerEventContinues ==
  (Interrupted /\ NothingTorn /\ Sealed(1, "WORKER")) ~> (sup.state = "EXITED")
=============================================================================
