--------------------------- MODULE GateRunProofs ---------------------------
(***************************************************************************)
(* Theorems about GateRun for every number of levels, files, retries,      *)
(* crashes and Gate timeouts.                                              *)
(***************************************************************************)
EXTENDS GateRun, SequenceTheorems, FiniteSetTheorems, TLAPS

-----------------------------------------------------------------------------
(* The inductive invariant *)

\* The program counters by which each stage of the level has been sealed.
PastHandoff    == {"complete"}
PastExit       == {"handoff", "seal_handoff"} \union PastHandoff
PastCheckpoint == {"exit", "seal_exit"} \union PastExit
PastReview     == {"checkpoint", "seal_checkpoint"} \union PastCheckpoint
PastWorker     == {"review", "seal_review"} \union PastReview
Executing      == {"work", "spawn", "turn", "answer", "collect", "validate",
                   "commit", "result"}
PastPreflight  == {"worker", "seal_worker"} \union Executing \union PastWorker
PastPackage    == {"preflight", "seal_preflight"} \union PastPreflight
Packaged       == {"seal_package"} \union PastPackage
InLevel        == {"package"} \union Packaged

\* Both processes work on a level of the Gate.
Typed ==
  /\ TypeOK
  /\ gate.pc \in InLevel => gate.lv \in Level
  /\ runner.on # "off" => runner.lv \in Level

\* A sealed stage follows the one before it.
Chained(l) ==
  /\ Sealed(l, "PREFLIGHT") => Sealed(l, "PACKAGE")
  /\ Sealed(l, "WORKER") => Sealed(l, "PREFLIGHT")
  /\ Sealed(l, "REVIEW") => Sealed(l, "WORKER")
  /\ Sealed(l, "CHECKPOINT") => Sealed(l, "REVIEW")
  /\ Sealed(l, "EXIT") => Sealed(l, "CHECKPOINT")
  /\ Sealed(l, "HANDOFF") => Sealed(l, "EXIT")

\* What the evidence of a level says about the commits and about the levels
\* before it.
Backed(l) ==
  /\ Sealed(l, "PACKAGE") => level[l].package = "SEALED"
  /\ level[l].package = "SEALED" =>
       level[l].source = start + l - 1 /\ \A m \in 1..(l - 1) : Sealed(m, "HANDOFF")
  /\ Len(commits) >= l => level[l].package = "SEALED"
  /\ level[l].result = "OK" => level[l].commit = start + l /\ Len(commits) >= l
  /\ Sealed(l, "WORKER") => level[l].result = "OK"
  /\ level[l].handoff # -1 => Sealed(l, "EXIT")

\* The evidence on disk: the commits are those of the levels, in order.
OnDisk ==
  /\ Len(commits) <= N /\ \A i \in 1..Len(commits) : commits[i].lv = i
  /\ \A l \in Level : Chained(l) /\ Backed(l)

\* The Gate process: which levels it has behind it and what of the level in
\* progress is on disk.
InProgress ==
  /\ gate.pc = "level" => /\ Len(commits) \in {gate.done, gate.done + 1}
                          /\ \A m \in 1..gate.done : Sealed(m, "HANDOFF")
  /\ gate.pc \in InLevel => /\ Len(commits) \in {gate.lv - 1, gate.lv}
                            /\ \A m \in 1..(gate.lv - 1) : Sealed(m, "HANDOFF")
                            /\ \A s \in Stage : InRecords(s) => Sealed(gate.lv, s)
  /\ gate.pc \in Packaged => level[gate.lv].package = "SEALED"
  /\ gate.pc \in Executing => level[gate.lv].result = "NONE"
  /\ gate.pc = "result" => Len(commits) = gate.lv
  /\ gate.pc = "seal_worker" => level[gate.lv].result = "OK"

\* The stages the process has behind it are sealed.
Passed ==
  /\ gate.pc \in PastPackage => Sealed(gate.lv, "PACKAGE")
  /\ gate.pc \in PastPreflight => Sealed(gate.lv, "PREFLIGHT")
  /\ gate.pc \in PastWorker => Sealed(gate.lv, "WORKER")
  /\ gate.pc \in PastReview => Sealed(gate.lv, "REVIEW")
  /\ gate.pc \in PastCheckpoint => Sealed(gate.lv, "CHECKPOINT")
  /\ gate.pc \in PastExit => Sealed(gate.lv, "EXIT")
  /\ gate.pc \in PastHandoff => Sealed(gate.lv, "HANDOFF")

\* The supervisor waits for a Gate process, and for nothing else, while the
\* Gate is RUNNING.
Supervised == gate.pc # "off" <=> sup.state = "RUNNING"

\* A request that is not in the ledger has started no turn.
Received ==
  \A l \in Level : launches[l] <= 1 /\ (level[l].ledger = "NONE" => launches[l] = 0)

Core == Typed /\ OnDisk /\ InProgress /\ Passed

IInv == Core /\ Supervised /\ Received

\* While no Gate was terminated by its timeout, a host runner has a Gate process
\* that waits for it, and files are dirty only before the worker result.
Attended ==
  faults.timeouts = 0 =>
    /\ runner.on # "off" => gate.pc = "turn" /\ runner.lv = gate.lv
    /\ \A l \in Level : level[l].result # "NONE" => ~Dirty(l)
    /\ gate.pc = "commit" => gate.tested = tree[gate.lv]

\* At the end of the k-th stage, its event is the next one; at the start of a
\* stage, k events are sealed, or those the process resumed from.
Due(k) == Len(level[gate.lv].events) = k /\ Len(gate.records) <= k
Reached(k) ==
  Len(level[gate.lv].events) = (IF Len(gate.records) > k THEN Len(gate.records) ELSE k)

\* The length of the chain follows from the program counter and the records the
\* process resumed from.
Placed ==
  /\ gate.pc \in InLevel => Prefix(gate.records, Lifecycle)
  /\ gate.pc = "package" => gate.records = <<>>
  /\ gate.pc = "seal_package" => Due(0)
  /\ gate.pc = "preflight" => Reached(1)
  /\ gate.pc = "seal_preflight" => Due(1)
  /\ gate.pc = "worker" => Reached(2)
  /\ gate.pc \in Executing \union {"seal_worker"} => Due(2)
  /\ gate.pc = "review" => Reached(3)
  /\ gate.pc = "seal_review" => Due(3)
  /\ gate.pc = "checkpoint" => Reached(4)
  /\ gate.pc = "seal_checkpoint" => Due(4)
  /\ gate.pc = "exit" => Reached(5)
  /\ gate.pc = "seal_exit" => Due(5)
  /\ gate.pc = "handoff" => Reached(6)
  /\ gate.pc = "seal_handoff" => Due(6)

Sequenced == faults.timeouts = 0 => ChainFollowsLifecycle /\ Placed

\* What a host runner has at work in the worktree, whoever waits for it: it runs for
\* a packaged level, and every dirty file has a write intent in the journal.
Journaled ==
  /\ runner.writing # {} => runner.on = "turn"
  /\ runner.on # "off" => /\ level[runner.lv].package = "SEALED"
                          /\ runner.writing \subseteq level[runner.lv].journal
  /\ \A l \in Level : Touched(tree[l]) \subseteq level[l].journal

\* Until its level is committed, the file a runner has open is half written.
Opened ==
  runner.on = "turn" /\ NeedsCommit(runner.lv) =>
    \A f \in runner.writing : tree[runner.lv][f] = 1

\* The changed files the executor collected stay dirty up to their commit.
Taken ==
  gate.pc \in {"validate", "commit"} /\ NeedsCommit(gate.lv) =>
    gate.changed \subseteq Touched(tree[gate.lv])

\* What a runner of an earlier Gate process did to them since the validations ran.
Racing == {f \in gate.changed : tree[gate.lv][f] # gate.tested[f]}

Raced ==
  gate.pc = "commit" /\ NeedsCommit(gate.lv) =>
    \A f \in Racing :
      /\ faults.timeouts > 0 /\ Racing = {f}
      /\ gate.tested[f] = 1 /\ tree[gate.lv][f] = 2
      /\ runner.lv = gate.lv => runner.writing \intersect gate.changed = {}

Worktree == Attended /\ Journaled /\ Opened /\ Taken /\ Raced

-----------------------------------------------------------------------------
(* Types *)

USE GateAssumption

\* The commits stay within the natural numbers, and so does HEAD.
LEMMA HeadType ==
    ASSUME TypeOK
    PROVE  Len(commits) \in Nat /\ start \in Nat /\ HEAD \in Nat
  BY LenProperties DEF TypeOK, HEAD

\* A set of levels has at most N members.
LEMMA LevelsCounted ==
    ASSUME NEW S \in SUBSET Level
    PROVE  IsFiniteSet(S) /\ Cardinality(S) \in 0..N
  <1>1. IsFiniteSet(Level) /\ Cardinality(Level) = N
    BY FS_Interval DEF Level
  <1>2. IsFiniteSet(S) /\ Cardinality(S) <= Cardinality(Level)
    BY <1>1, FS_Subset
  <1>3. Cardinality(S) \in Nat
    BY <1>2, FS_CardinalityType
  <1> QED
    BY <1>1, <1>2, <1>3

\* No level is in progress before the Gate takes one, and after it failed.
LEMMA OutsideLevels ==
    {"off", "execute", "level", "raised", "artifact"} \intersect InLevel = {}
  BY DEF InLevel, Packaged, PastPackage, PastPreflight, PastWorker, PastReview,
     PastCheckpoint, PastExit, PastHandoff, Executing

\* The values of a process that is gone.
LEMMA GoneType ==
    /\ NoGate \in GateState /\ NoGate.pc = "off"
    /\ NoRunner \in Runner /\ NoRunner.on = "off"
  BY DEF NoGate, NoRunner, GateState, Runner, PCs, NoEdits, Edits

\* What _handle_failure makes of the queue item is well typed.
LEMMA RetriedType ==
    ASSUME NEW s \in QueueItem
    PROVE  Retried(s) \in QueueItem
  BY DEF Retried, QueueItem

\* The initial state is well typed.
LEMMA InitialType == Init => Typed
  <1> SUFFICES ASSUME Init PROVE Typed
    OBVIOUS
  <1>1. Untouched \in Evidence
    BY DEF Untouched, Evidence
  <1>2. NoGate \in GateState /\ NoRunner \in Runner
    BY GoneType
  <1>3. NoEdits \in Edits
    BY DEF NoEdits, Edits
  <1>4. TypeOK
    <2>1. sup \in QueueItem
      BY DEF Init, QueueItem
    <2>2. commits \in Seq(Checkpoints)
      BY DEF Init
    <2> QED
      BY <1>1, <1>2, <1>3, <2>1, <2>2 DEF Init, TypeOK
  <1>5. gate.pc = "off" /\ runner.on = "off"
    BY GoneType DEF Init
  <1> QED
    BY <1>4, <1>5, OutsideLevels DEF Typed

\* The supervisor's steps keep the types.
LEMMA SupervisorType == Typed /\ SupervisorStep => Typed'
  <1> SUFFICES ASSUME Typed, SupervisorStep PROVE Typed'
    OBVIOUS
  <1>1. NoGate \in GateState /\ NoGate.pc = "off"
    BY GoneType
  <1>2. [NoGate EXCEPT !.pc = "execute", !.resume = sup.resume] \in GateState
    BY <1>1 DEF GateState, PCs, Typed, TypeOK, QueueItem
  <1>3. Retried(sup) \in QueueItem
    BY RetriedType DEF Typed, TypeOK
  <1> USE DEF Typed, TypeOK, disk, processes, InLevel,
       Packaged, PastPackage, PastPreflight, PastWorker, PastReview, PastCheckpoint,
       PastExit, PastHandoff, Executing
  <1>4. CASE Launch
    BY <1>1, <1>2, <1>4 DEF Launch, QueueItem, NoGate
  <1>5. CASE PreflightBlocked
    BY <1>5 DEF PreflightBlocked, QueueItem
  <1>6. CASE HandleFailure
    BY <1>1, <1>3, <1>6 DEF HandleFailure, QueueItem
  <1> QED
    BY <1>4, <1>5, <1>6 DEF SupervisorStep

\* A process that only moves on stays well typed and keeps its level.
LEMMA Moved ==
    ASSUME gate \in GateState, NEW pc \in PCs, Goto(pc)
    PROVE  /\ gate' \in GateState /\ gate'.pc = pc /\ gate'.lv = gate.lv
           /\ gate'.done = gate.done /\ gate'.records = gate.records
           /\ gate'.head = gate.head /\ gate'.tested = gate.tested
  BY DEF Goto, GateState

\* Writing one field of a level's evidence keeps it well typed.
LEMMA Written ==
    ASSUME level \in [Level -> Evidence], NEW l \in Level
    PROVE  /\ \A v \in BOOLEAN : Put(l, "preflight", v) => level' \in [Level -> Evidence]
           /\ \A v \in BOOLEAN : Put(l, "request", v) => level' \in [Level -> Evidence]
           /\ \A v \in BOOLEAN : Put(l, "torn", v) => level' \in [Level -> Evidence]
           /\ \A v \in {"NONE", "RUNNING", "COMPLETED", "FAILED"} :
                Put(l, "ledger", v) => level' \in [Level -> Evidence]
           /\ \A v \in Seq({"PASS", "FAIL"}) :
                Put(l, "reviews", v) => level' \in [Level -> Evidence]
           /\ \A v \in Seq(Stage) : Put(l, "events", v) => level' \in [Level -> Evidence]
           /\ \A v \in {"NONE", "TORN", "OK"} :
                Put(l, "result", v) => level' \in [Level -> Evidence]
           /\ \A v \in Int : Put(l, "handoff", v) => level' \in [Level -> Evidence]
  <1>1. ASSUME NEW e \in Evidence, level' = [level EXCEPT ![l] = e]
        PROVE  level' \in [Level -> Evidence]
    BY <1>1
  <1>2. level[l] \in Evidence
    OBVIOUS
  <1>3. ASSUME NEW v \in BOOLEAN
        PROVE  /\ [level[l] EXCEPT !["preflight"] = v] \in Evidence
               /\ [level[l] EXCEPT !["request"] = v] \in Evidence
               /\ [level[l] EXCEPT !["torn"] = v] \in Evidence
    BY <1>2 DEF Evidence
  <1>4. /\ \A v \in {"NONE", "RUNNING", "COMPLETED", "FAILED"} :
             [level[l] EXCEPT !["ledger"] = v] \in Evidence
        /\ \A v \in Seq({"PASS", "FAIL"}) : [level[l] EXCEPT !["reviews"] = v] \in Evidence
        /\ \A v \in Seq(Stage) : [level[l] EXCEPT !["events"] = v] \in Evidence
    BY <1>2 DEF Evidence
  <1>5. /\ \A v \in {"NONE", "TORN", "OK"} : [level[l] EXCEPT !["result"] = v] \in Evidence
        /\ \A v \in Int : [level[l] EXCEPT !["handoff"] = v] \in Evidence
    BY <1>2 DEF Evidence
  <1> QED
    BY <1>1, <1>3, <1>4, <1>5 DEF Put

\* So does a new set of journaled files.
LEMMA JournalType ==
    ASSUME NEW e \in Evidence, NEW j \in SUBSET Files
    PROVE  [e EXCEPT !.journal = j] \in Evidence
  BY DEF Evidence

\* The steps between the levels keep the types.
LEMMA LineagesType == Typed /\ Lineages => Typed'
  <1> SUFFICES ASSUME Typed, Lineages PROVE Typed'
    OBVIOUS
  <1>1. HEAD \in Nat /\ gate \in GateState
    BY HeadType DEF Typed, TypeOK
  <1>2. ASSUME gate' \in GateState, gate'.pc \notin InLevel,
               UNCHANGED <<disk, processes, launches, faults>>, sup' \in QueueItem
        PROVE  Typed'
    BY <1>2 DEF Typed, TypeOK, disk, processes
  <1>3. sup \in QueueItem
    BY DEF Typed, TypeOK
  <1>4. CASE ExecuteGate
    <2>1. Cardinality(HandedOff) \in 0..N
      BY LevelsCounted DEF HandedOff
    <2>2. gate' \in GateState /\ gate'.pc \in {"raised", "level"}
      <3>1. CASE Raise
        BY <1>1, <3>1 DEF Raise, Goto, GateState, PCs
      <3> DEFINE d == IF gate.resume THEN Cardinality(HandedOff) ELSE 0
                 h == IF LineageAtEntry(d) = "SEALED" THEN HEAD ELSE -1
                 g == [gate EXCEPT !.pc = "level", !.done = d, !.lineage = h]
      <3>2. d \in 0..N /\ h \in Int
        BY <1>1, <2>1, GateAssumption
      <3>3. Raise \/ gate' = g
        BY <1>4 DEF ExecuteGate
      <3> HIDE DEF d, h
      <3>4. g \in GateState /\ g.pc = "level"
        BY <1>1, <3>2 DEF GateState, PCs
      <3> QED
        BY <3>1, <3>3, <3>4
    <2> QED
      BY <1>2, <1>3, <1>4, <2>2, OutsideLevels DEF ExecuteGate, history
  <1>5. CASE BeginLevel
    <2>1. CASE HEAD # 0 /\ gate.lineage # HEAD
      <3>1. gate' \in GateState /\ gate'.pc = "raised"
        BY <1>1, <1>5, <2>1 DEF BeginLevel, Raise, Goto, GateState, PCs
      <3> QED
        BY <1>2, <1>3, <1>5, <3>1, OutsideLevels DEF BeginLevel, history
    <2>2. CASE ~(HEAD # 0 /\ gate.lineage # HEAD)
      <3>1. NoEdits \in Edits /\ <<>> \in Seq(Stage)
        BY DEF NoEdits, Edits
      <3>2. gate.done + 1 \in Level /\ gate.done + 1 \in 0..N
        BY <1>1, <1>5 DEF BeginLevel, Level, GateState
      <3>3. gate' \in GateState /\ gate'.lv \in Level
        <4> DEFINE b == gate.resume /\ level[gate.done + 1].package # "NONE"
        <4>1. gate' = [gate EXCEPT !.pc = "package", !.lv = gate.done + 1, !.head = HEAD,
                         !.lvResume = b, !.records = <<>>, !.changed = {}, !.tested = NoEdits]
          BY <1>5, <2>2 DEF BeginLevel
        <4>2. b \in BOOLEAN
          OBVIOUS
        <4> HIDE DEF b
        <4> QED
          BY <1>1, <3>1, <3>2, <4>1, <4>2 DEF GateState, PCs
      <3> QED
        BY <1>3, <1>5, <3>3 DEF Typed, TypeOK, disk, processes, history, BeginLevel
    <2> QED
      BY <2>1, <2>2
  <1>6. CASE ExitGate
    <2>1. gate' \in GateState /\ gate'.pc = "off"
      BY <1>6, GoneType DEF ExitGate
    <2>2. sup' \in QueueItem
      BY <1>3, <1>6 DEF ExitGate, QueueItem
    <2> QED
      BY <1>2, <1>6, <2>1, <2>2, OutsideLevels DEF ExitGate
  <1>7. CASE CompleteLevel
    <2>1. gate' \in GateState /\ gate'.pc \in {"raised", "level"}
      <3>1. CASE Raise
        BY <1>1, <3>1 DEF Raise, Goto, GateState, PCs
      <3> DEFINE h == IF HEAD # 0 THEN HEAD ELSE -1
                 g == [gate EXCEPT !.pc = "level", !.done = gate.lv, !.lineage = h]
      <3>2. h \in Int
        BY <1>1
      <3>3. Raise \/ gate' = g
        BY <1>7 DEF CompleteLevel
      <3> HIDE DEF h
      <3>4. g \in GateState /\ g.pc = "level"
        BY <1>1, <3>2 DEF GateState, PCs
      <3> QED
        BY <3>1, <3>3, <3>4
    <2> QED
      BY <1>2, <1>3, <1>7, <2>1, OutsideLevels DEF CompleteLevel, history
  <1> QED
    BY <1>4, <1>5, <1>6, <1>7 DEF Lineages

\* A process in a level that moves on, whatever it wrote of the level's evidence,
\* keeps the types.
LEMMA MovedOn ==
    ASSUME Typed, gate.pc \in InLevel, NEW pc \in PCs, Goto(pc),
           level' \in [Level -> Evidence],
           UNCHANGED <<start, tree, commits, processes, history>>
    PROVE  Typed'
  <1>1. gate' \in GateState /\ gate'.lv = gate.lv
    BY Moved DEF Typed, TypeOK
  <1> QED
    BY <1>1 DEF Typed, TypeOK, processes, history

\* The steps that seal an event keep the types.
LEMMA SealsType == Typed /\ Seals => Typed'
  <1> SUFFICES ASSUME Typed, Seals PROVE Typed'
    OBVIOUS
  <1>1. PICK pc \in Sealing, stage \in Stage, next \in PCs \ {"off"} : Seal(pc, stage, next)
    BY DEF Seals, SealPackage, SealPreflight, SealWorker, SealReview, SealCheckpoint,
       SealExit, SealHandoff, Sealing, PCs, Stage, Lifecycle
  <1>2. gate.pc \in InLevel /\ gate.lv \in Level
    BY <1>1 DEF Seal, GateAt, Sealing, InLevel, Typed, Packaged, PastPackage, PastPreflight,
       PastWorker, PastReview, PastCheckpoint, PastExit
  <1>3. Append(level[gate.lv].events, stage) \in Seq(Stage)
    BY <1>2 DEF Typed, TypeOK, Evidence
  <1>4. level' \in [Level -> Evidence]
    BY <1>1, <1>2, <1>3, Written DEF Seal, Typed, TypeOK
  <1> QED
    BY <1>1, <1>2, <1>4, MovedOn DEF Seal

\* PACKAGE and PREFLIGHT keep the types.
LEMMA PackagesType == Typed /\ (Packages \/ Preflights) => Typed'
  <1> SUFFICES ASSUME Typed, Packages \/ Preflights PROVE Typed'
    OBVIOUS
  <1>1. gate.pc \in {"package", "preflight"}
    BY DEF Packages, Preflights, CreatePackage, RehydratePackage, PackageRefused,
       PreflightResumed, PreflightRun, Resumed, GateAt
  <1>2. gate.pc \in InLevel /\ gate.lv \in Level
    BY <1>1 DEF InLevel, Packaged, PastPackage, Typed
  <1>3. {"seal_package", "preflight", "seal_preflight", "worker", "raised", "artifact"} \subseteq PCs
    BY DEF PCs, Sealing
  <1>4. level \in [Level -> Evidence] /\ gate \in GateState /\ level[gate.lv] \in Evidence
    BY <1>2 DEF Typed, TypeOK
  <1> USE DEF disk
  <1>5. CASE CreatePackage
    <2>1. level' \in [Level -> Evidence]
      BY <1>4, <1>5, HeadType DEF CreatePackage, Evidence, Typed
    <2> QED
      BY <1>2, <1>3, <1>5, <2>1, MovedOn DEF CreatePackage
  <1>6. CASE RehydratePackage
    <2>1. CASE \E pc \in {"artifact", "seal_package"} : Goto(pc)
      BY <1>2, <1>3, <1>4, <1>6, <2>1, MovedOn DEF RehydratePackage
    <2>2. CASE gate' = [gate EXCEPT !.pc = "preflight", !.records = level[gate.lv].events]
      <3>1. gate' \in GateState /\ gate'.lv = gate.lv
        BY <1>3, <1>4, <2>2 DEF GateState, Evidence
      <3> QED
        BY <1>2, <1>6, <3>1 DEF RehydratePackage, Typed, TypeOK, processes, history
    <2> QED
      BY <1>6, <2>1, <2>2 DEF RehydratePackage, RaiseArtifact
  <1>7. CASE PackageRefused
    BY <1>2, <1>3, <1>4, <1>7, MovedOn DEF PackageRefused, Raise, RaiseArtifact
  <1>8. CASE PreflightResumed
    BY <1>2, <1>3, <1>4, <1>8, MovedOn DEF PreflightResumed, Resumed
  <1>9. CASE PreflightRun
    BY <1>2, <1>3, <1>4, <1>9, MovedOn, Written DEF PreflightRun, Raise, RaiseArtifact
  <1> QED
    BY <1>5, <1>6, <1>7, <1>8, <1>9 DEF Packages, Preflights

\* WORKER keeps the types.
LEMMA WorkersType == Typed /\ Workers => Typed'
  <1> SUFFICES ASSUME Typed, Workers PROVE Typed'
    OBVIOUS
  <1>1. gate.pc \in {"worker"} \union Executing
    BY DEF Workers, WorkerResumed, WorkerResult, WorkerRequest, ExecuteWorker, SpawnRunner,
       TurnAnswered, CollectChanges, Validate, CommitCheckpoint, WriteResult, GateAt, Executing
  <1>2. gate.pc \in InLevel /\ gate.lv \in Level
    BY <1>1 DEF InLevel, Packaged, PastPackage, PastPreflight, Typed
  <1>3. {"worker", "seal_worker", "review", "raised"} \union Executing \subseteq PCs
    BY DEF PCs, Sealing, Executing
  <1>4. level \in [Level -> Evidence] /\ gate \in GateState /\ level[gate.lv] \in Evidence
    BY <1>2 DEF Typed, TypeOK
  <1> USE DEF disk
  <1>5. CASE \E pc \in PCs : Goto(pc) /\ UNCHANGED <<disk, processes, history>>
    BY <1>2, <1>4, <1>5, MovedOn
  <1>6. CASE WorkerResumed \/ WorkerResult
    BY <1>3, <1>5, <1>6 DEF WorkerResumed, WorkerResult, Resumed, Raise
  <1>7. CASE WorkerRequest
    BY <1>2, <1>3, <1>4, <1>7, MovedOn, Written DEF WorkerRequest, Executing
  <1>8. CASE ExecuteWorker
    BY <1>3, <1>5, <1>8 DEF ExecuteWorker, Raise, Executing
  <1>9. CASE SpawnRunner
    <2>1. gate' \in GateState /\ gate'.lv = gate.lv
      BY <1>3, <1>4, <1>9, Moved DEF SpawnRunner, Executing
    <2>2. runner' \in Runner /\ runner'.lv \in Level
      BY <1>2, <1>4, <1>9 DEF SpawnRunner, Runner, GateState
    <2> QED
      BY <1>2, <1>9, <2>1, <2>2 DEF SpawnRunner, Typed, TypeOK, history
  <1>10. CASE TurnAnswered
    BY <1>3, <1>5, <1>10 DEF TurnAnswered, Raise, Executing
  <1>11. ASSUME gate' \in GateState, gate'.lv = gate.lv, UNCHANGED <<disk, processes, history>>
         PROVE  Typed'
    BY <1>2, <1>11 DEF Typed, TypeOK, processes, history
  <1>12. CASE CollectChanges
    <2>1. ASSUME NEW c \in SUBSET Files,
                 gate' = [gate EXCEPT !.pc = "validate", !.changed = c]
          PROVE  gate' \in GateState /\ gate'.lv = gate.lv
      BY <1>3, <1>4, <2>1 DEF GateState, Executing
    <2>2. \A e : Touched(e) \subseteq Files
      BY DEF Touched
    <2> QED
      BY <1>3, <1>5, <1>11, <1>12, <2>1, <2>2 DEF CollectChanges, Raise
  <1>13. CASE Validate
    <2>1. CASE gate' = [gate EXCEPT !.pc = "commit", !.tested = tree[gate.lv]]
      <3>1. tree[gate.lv] \in Edits
        BY <1>2 DEF Typed, TypeOK
      <3>2. gate' \in GateState /\ gate'.lv = gate.lv
        BY <1>3, <1>4, <2>1, <3>1 DEF GateState, Executing
      <3> QED
        BY <1>11, <1>13, <3>2 DEF Validate
    <2> QED
      BY <1>3, <1>5, <1>13, <2>1 DEF Validate, Raise
  <1>14. CASE CommitCheckpoint
    <2>1. \A e \in Edits : \A fs : Only(e, fs) \in Edits
      BY DEF Only, Edits
    <2>2. tree[gate.lv] \in Edits /\ gate.tested \in Edits
      BY <1>2, <1>4 DEF Typed, TypeOK, GateState
    <2>3. tree' \in [Level -> Edits]
      <3>1. tree \in [Level -> Edits]
        BY DEF Typed, TypeOK
      <3>2. Only(tree[gate.lv], Files \ gate.changed) \in Edits
        BY <2>1, <2>2
      <3>3. \/ tree' = tree
            \/ tree' = [tree EXCEPT ![gate.lv] = Only(tree[gate.lv], Files \ gate.changed)]
        BY <1>14 DEF CommitCheckpoint
      <3> QED
        BY <3>1, <3>2, <3>3
    <2>4. commits' \in Seq(Checkpoints)
      <3> DEFINE C == [lv |-> gate.lv, content |-> Only(tree[gate.lv], gate.changed),
                       tested |-> Only(gate.tested, gate.changed)]
      <3>1. C \in Checkpoints
        BY <1>2, <2>1, <2>2 DEF Checkpoints
      <3>2. commits' = commits \/ commits' = Append(commits, C)
        BY <1>14 DEF CommitCheckpoint
      <3>3. commits \in Seq(Checkpoints)
        BY DEF Typed, TypeOK
      <3> HIDE DEF C
      <3> QED
        BY <3>1, <3>2, <3>3, AppendProperties
    <2>5. gate' \in GateState /\ gate'.lv = gate.lv
      BY <1>3, <1>4, <1>14, Moved DEF CommitCheckpoint, Executing
    <2> QED
      BY <1>2, <1>14, <2>3, <2>4, <2>5 DEF CommitCheckpoint, Typed, TypeOK, processes, history
  <1>15. CASE WriteResult
    <2>1. HEAD \in Nat
      BY HeadType DEF Typed
    <2>2. level' \in [Level -> Evidence]
      <3> DEFINE e == [level[gate.lv] EXCEPT !.result = "OK", !.commit = HEAD]
      <3>1. e \in Evidence
        BY <1>4, <2>1 DEF Evidence
      <3>2. level' = level \/ level' = [level EXCEPT ![gate.lv] = e]
        BY <1>15 DEF WriteResult
      <3> HIDE DEF e
      <3> QED
        BY <1>4, <3>1, <3>2
    <2> QED
      BY <1>2, <1>3, <1>15, <2>2, MovedOn DEF WriteResult, Raise
  <1> QED
    BY <1>6, <1>7, <1>8, <1>9, <1>10, <1>12, <1>13, <1>14, <1>15 DEF Workers

\* REVIEW to HANDOFF keep the types.
LEMMA ClosingsType == Typed /\ Closings => Typed'
  <1> SUFFICES ASSUME Typed, Closings PROVE Typed'
    OBVIOUS
  <1>1. gate.pc \in {"review", "checkpoint", "exit", "handoff"}
    BY DEF Closings, ReviewResumed, Review, CheckpointResumed, Checkpoint, ExitResumed,
       ExitLevel, WriteHandoff, Resumed, GateAt
  <1>2. gate.pc \in InLevel /\ gate.lv \in Level
    BY <1>1 DEF InLevel, Packaged, PastPackage, PastPreflight, PastWorker, PastReview,
       PastCheckpoint, PastExit, Typed
  <1>3. {"seal_review", "checkpoint", "seal_checkpoint", "exit", "seal_exit", "handoff",
         "seal_handoff", "complete", "raised"} \subseteq PCs
    BY DEF PCs, Sealing
  <1>4. level \in [Level -> Evidence] /\ gate \in GateState /\ level[gate.lv] \in Evidence
    BY <1>2 DEF Typed, TypeOK
  <1> USE DEF disk
  <1>5. CASE \E pc \in PCs : Goto(pc) /\ UNCHANGED <<disk, processes, history>>
    BY <1>2, <1>4, <1>5, MovedOn
  <1>6. CASE ReviewResumed \/ CheckpointResumed \/ ExitResumed \/ Checkpoint \/ ExitLevel
    BY <1>3, <1>5, <1>6 DEF ReviewResumed, CheckpointResumed, ExitResumed, Resumed, Checkpoint,
       ExitLevel, Raise
  <1>7. CASE Review
    <2>1. \A v \in ReviewVerdicts(gate.lv) : Append(level[gate.lv].reviews, v) \in Seq({"PASS", "FAIL"})
      BY <1>4 DEF Evidence, ReviewVerdicts
    <2>2. level' \in [Level -> Evidence]
      BY <1>2, <1>4, <1>7, <2>1, Written DEF Review
    <2> QED
      BY <1>2, <1>3, <1>7, <2>2, MovedOn DEF Review, Raise
  <1>8. CASE WriteHandoff
    <2>1. gate.head \in Int
      BY <1>4 DEF GateState
    <2>2. level' \in [Level -> Evidence]
      BY <1>2, <1>4, <1>8, <2>1, Written DEF WriteHandoff
    <2> QED
      BY <1>2, <1>3, <1>8, <2>2, MovedOn DEF WriteHandoff
  <1> QED
    BY <1>6, <1>7, <1>8 DEF Closings

\* The host runner's steps keep the types.
LEMMA RunnerType == Typed /\ RunnerStep => Typed'
  <1> SUFFICES ASSUME Typed, RunnerStep PROVE Typed'
    OBVIOUS
  <1>1. runner.on \in {"accept", "turn"}
    BY DEF RunnerStep, RunnerAccept, RunnerOpen, RunnerWrite, RunnerEnd, RunnerAcceptTimeout
  <1>2. runner.lv \in Level
    BY <1>1 DEF Typed
  <1>3. level \in [Level -> Evidence] /\ gate \in GateState /\ runner \in Runner
    BY DEF Typed, TypeOK
  <1>4. ASSUME NEW pc \in {"raised", "answer"}, Goto(pc), gate.pc = "turn"
        PROVE  gate' \in GateState /\ gate'.lv = gate.lv /\ gate.pc \in InLevel
    <2>1. pc \in PCs
      BY DEF PCs
    <2>2. "turn" \in InLevel
      BY DEF InLevel, Packaged, PastPackage, PastPreflight, Executing
    <2> QED
      BY <1>3, <1>4, <2>1, <2>2, Moved
  <1>5. RunnerGone => runner' \in Runner /\ runner'.on = "off" /\ socket' \in BOOLEAN
    BY GoneType DEF RunnerGone
  <1>6. CASE RunnerAccept
    <2>1. CASE RequestIsNew(runner.lv)
      <3>1. level' \in [Level -> Evidence]
        BY <1>2, <1>3, <1>6, <2>1, Written DEF RunnerAccept
      <3>2. runner' \in Runner /\ runner'.lv = runner.lv
        BY <1>3, <1>6, <2>1 DEF RunnerAccept, Runner
      <3>3. launches' \in [Level -> Nat]
        BY <1>2, <1>6, <2>1 DEF RunnerAccept, Typed, TypeOK
      <3> QED
        BY <1>2, <1>6, <2>1, <3>1, <3>2, <3>3 DEF RunnerAccept, Typed, TypeOK
    <2>2. CASE ~RequestIsNew(runner.lv)
      <3>1. gate' = gate \/ (gate.pc = "turn" /\ Goto("raised"))
        BY <1>6, <2>2 DEF RunnerAccept, Raise, GateAt
      <3> QED
        BY <1>4, <1>5, <1>6, <2>2, <3>1 DEF RunnerAccept, Typed, TypeOK
    <2> QED
      BY <2>1, <2>2
  <1>7. CASE RunnerOpen
    <2>1. PICK f \in Files \ level[runner.lv].journal :
            /\ level' = [level EXCEPT ![runner.lv].journal = @ \union {f}]
            /\ tree' = [tree EXCEPT ![runner.lv][f] = 1]
            /\ runner' = [runner EXCEPT !.writing = {f}]
      BY <1>7 DEF RunnerOpen
    <2>2. level' \in [Level -> Evidence]
      <3> DEFINE j == level[runner.lv].journal \union {f}
      <3>2. j \in SUBSET Files
        BY <1>2, <1>3 DEF Evidence
      <3>3. level' = [level EXCEPT ![runner.lv] = [level[runner.lv] EXCEPT !.journal = j]]
        BY <2>1
      <3> HIDE DEF j
      <3>1. [level[runner.lv] EXCEPT !.journal = j] \in Evidence
        BY <1>2, <1>3, <3>2, JournalType
      <3> QED
        BY <1>2, <1>3, <3>1, <3>3
    <2>3. tree' \in [Level -> Edits]
      <3>1. tree \in [Level -> Edits] /\ f \in Files
        BY DEF Typed, TypeOK
      <3>2. [tree[runner.lv] EXCEPT ![f] = 1] \in Edits
        BY <1>2, <3>1 DEF Edits
      <3> QED
        BY <1>2, <2>1, <3>1, <3>2
    <2>4. runner' \in Runner /\ runner'.lv = runner.lv
      BY <1>3, <2>1 DEF Runner
    <2> QED
      BY <1>2, <1>7, <2>2, <2>3, <2>4 DEF RunnerOpen, Typed, TypeOK, history
  <1>8. CASE RunnerWrite
    <2>1. PICK f \in runner.writing : tree' = [tree EXCEPT ![runner.lv][f] = 2]
      BY <1>8 DEF RunnerWrite
    <2>2. tree' \in [Level -> Edits]
      <3>1. tree \in [Level -> Edits] /\ f \in Files
        BY <1>3 DEF Typed, TypeOK, Runner
      <3>2. [tree[runner.lv] EXCEPT ![f] = 2] \in Edits
        BY <1>2, <3>1 DEF Edits
      <3> QED
        BY <1>2, <2>1, <3>1, <3>2
    <2>3. runner' \in Runner /\ runner'.lv = runner.lv
      BY <1>3, <1>8 DEF RunnerWrite, Runner
    <2> QED
      BY <1>2, <1>8, <2>2, <2>3 DEF RunnerWrite, Typed, TypeOK, history
  <1>9. CASE RunnerEnd
    <2>1. level' \in [Level -> Evidence]
      BY <1>2, <1>3, <1>9, Written DEF RunnerEnd
    <2>2. gate' = gate \/ (gate.pc = "turn" /\ \E pc \in {"raised", "answer"} : Goto(pc))
      BY <1>9 DEF RunnerEnd, Raise, GateAt
    <2> QED
      BY <1>4, <1>5, <1>9, <2>1, <2>2 DEF RunnerEnd, Typed, TypeOK, history
  <1>10. CASE RunnerAcceptTimeout
    BY <1>5, <1>10 DEF RunnerAcceptTimeout, Typed, TypeOK, disk, history
  <1> QED
    BY <1>6, <1>7, <1>8, <1>9, <1>10 DEF RunnerStep

\* A write cut short leaves well-typed evidence.
LEMMA TornType == Typed /\ TornWrite => level' \in [Level -> Evidence]
  <1> SUFFICES ASSUME Typed, TornWrite PROVE level' \in [Level -> Evidence]
    OBVIOUS
  <1>1. level \in [Level -> Evidence]
    BY DEF Typed, TypeOK
  <1>2. CASE gate.pc \in Sealing \/ gate.pc \in {"result", "package"}
    <2>1. gate.lv \in Level
      BY <1>2 DEF Typed, Sealing, InLevel, Packaged, PastPackage, PastPreflight, PastWorker,
         PastReview, PastCheckpoint, PastExit, Executing
    <2>2. level[gate.lv] \in Evidence /\ HEAD \in Nat
      BY <1>1, <2>1, HeadType DEF Typed
    <2> DEFINE e == [level[gate.lv] EXCEPT !.package = "PARTIAL", !.source = HEAD]
    <2>3. e \in Evidence
      BY <2>2 DEF Evidence
    <2>4. \/ level' = level
          \/ Put(gate.lv, "torn", TRUE)
          \/ Put(gate.lv, "result", "TORN")
          \/ level' = [level EXCEPT ![gate.lv] = e]
      BY DEF TornWrite
    <2> HIDE DEF e
    <2> QED
      BY <1>1, <2>1, <2>3, <2>4, Written
  <1> QED
    BY <1>1, <1>2 DEF TornWrite, GateAt

\* A killed service and a terminated Gate keep the types.
LEMMA FaultType == Typed /\ (Crash \/ Timeout) => Typed'
  <1> SUFFICES ASSUME Typed, Crash \/ Timeout PROVE Typed'
    OBVIOUS
  <1>1. level' \in [Level -> Evidence]
    BY TornType DEF Crash, Timeout
  <1>2. gate' \in GateState /\ gate'.pc = "off"
    BY GoneType DEF Crash, Timeout
  <1>3. sup \in QueueItem /\ faults \in [crashes : Nat, timeouts : Nat]
    BY DEF Typed, TypeOK
  <1>4. sup' \in QueueItem
    <2>1. [state |-> "READY", attempt |-> sup.attempt + 1, resume |-> TRUE] \in QueueItem
      BY <1>3 DEF QueueItem
    <2> QED
      BY <1>3, <2>1, RetriedType DEF Crash, Timeout
  <1>5. runner' \in Runner /\ (runner'.on # "off" => runner'.lv \in Level)
    BY GoneType DEF Crash, Timeout, Typed, TypeOK, processes
  <1>6. faults' \in [crashes : Nat, timeouts : Nat]
    <2>1. /\ [faults EXCEPT !.crashes = @ + 1] \in [crashes : Nat, timeouts : Nat]
          /\ [faults EXCEPT !.timeouts = @ + 1] \in [crashes : Nat, timeouts : Nat]
      BY <1>3
    <2> QED
      BY <2>1 DEF Crash, Timeout
  <1> QED
    BY <1>1, <1>2, <1>4, <1>5, <1>6, OutsideLevels DEF Crash, Timeout, Typed, TypeOK, processes

\* Every step keeps the types.
LEMMA TypeStep == Typed /\ [Next]_vars => Typed'
  <1> SUFFICES ASSUME Typed, [Next]_vars PROVE Typed'
    OBVIOUS
  <1>1. CASE UNCHANGED vars
    BY <1>1 DEF vars, Typed, TypeOK
  <1> QED
    BY <1>1, SupervisorType, LineagesType, SealsType, PackagesType, WorkersType, ClosingsType,
       RunnerType, FaultType DEF Next, GateStep, Settled

-----------------------------------------------------------------------------
(* The evidence of the levels *)

\* What the invariant reads of a level's evidence is left alone.
Kept ==
  /\ start' = start
  /\ \A l \in Level :
       /\ level'[l].package = level[l].package /\ level'[l].source = level[l].source
       /\ level'[l].result = level[l].result /\ level'[l].commit = level[l].commit
       /\ level'[l].handoff = level[l].handoff /\ level'[l].events = level[l].events

\* A step that leaves the events alone seals and unseals nothing.
LEMMA KeptSealed ==
    ASSUME Kept
    PROVE  \A l \in Level, s \in Stage : Sealed(l, s)' <=> Sealed(l, s)
  BY DEF Kept, Sealed

\* A step that leaves the evidence and the commits alone keeps what is on disk.
LEMMA KeptOnDisk ==
    ASSUME OnDisk, Kept, commits' = commits
    PROVE  OnDisk'
  <1>1. \A l \in Level, s \in Stage : Sealed(l, s)' <=> Sealed(l, s)
    BY KeptSealed
  <1>2. {"PACKAGE", "PREFLIGHT", "WORKER", "REVIEW", "CHECKPOINT", "EXIT", "HANDOFF"} = Stage
    BY DEF Stage, Lifecycle
  <1>3. \A l \in Level : \A m \in 1..(l - 1) : m \in Level
    BY DEF Level
  <1>4. ASSUME NEW l \in Level PROVE Chained(l)'
    BY <1>1, <1>2 DEF OnDisk, Chained
  <1>5. ASSUME NEW l \in Level PROVE Backed(l)'
    BY <1>1, <1>2, <1>3 DEF OnDisk, Backed, Kept
  <1> QED
    BY <1>4, <1>5 DEF OnDisk

\* Which stages are sealed after one more event.
LEMMA SealedNext ==
    ASSUME Typed, gate.lv \in Level, NEW pc, NEW stage \in Stage, NEW next, Seal(pc, stage, next)
    PROVE  /\ \A l \in Level, s \in Stage :
                Sealed(l, s)' <=> Sealed(l, s) \/ (l = gate.lv /\ s = stage)
           /\ \A l \in Level :
                /\ level'[l].package = level[l].package /\ level'[l].source = level[l].source
                /\ level'[l].result = level[l].result /\ level'[l].commit = level[l].commit
                /\ level'[l].handoff = level[l].handoff
  <1>1. level \in [Level -> Evidence] /\ level[gate.lv] \in Evidence
    BY DEF Typed, TypeOK
  <1>2. level' = [level EXCEPT ![gate.lv]["events"] = Append(level[gate.lv].events, stage)]
    BY DEF Seal, Put
  <1>3. level[gate.lv].events \in Seq(Stage)
    BY <1>1 DEF Evidence
  <1>4. \A l \in Level \ {gate.lv} : level'[l] = level[l]
    BY <1>1, <1>2
  <1>5. level'[gate.lv].events = Append(level[gate.lv].events, stage)
    BY <1>1, <1>2 DEF Evidence
  <1>6. ASSUME NEW l \in Level, l = gate.lv, NEW s \in Stage
        PROVE  Sealed(l, s)' <=> Sealed(l, s) \/ s = stage
    <2> DEFINE e == level[l].events
    <2>1. /\ DOMAIN Append(e, stage) = 1..(Len(e) + 1) /\ DOMAIN e = 1..Len(e)
          /\ \A i \in 1..Len(e) : Append(e, stage)[i] = e[i]
          /\ Append(e, stage)[Len(e) + 1] = stage /\ Len(e) \in Nat
      BY <1>3, <1>6
    <2>2. Sealed(l, s)' <=> \E i \in DOMAIN Append(e, stage) : Append(e, stage)[i] = s
      BY <1>5, <1>6 DEF Sealed
    <2> QED
      BY <2>1, <2>2 DEF Sealed
  <1>7. ASSUME NEW l \in Level, l # gate.lv, NEW s \in Stage
        PROVE  Sealed(l, s)' <=> Sealed(l, s)
    BY <1>4, <1>7 DEF Sealed
  <1>8. ASSUME NEW l \in Level
        PROVE  /\ level'[l].package = level[l].package /\ level'[l].source = level[l].source
               /\ level'[l].result = level[l].result /\ level'[l].commit = level[l].commit
               /\ level'[l].handoff = level[l].handoff
    BY <1>1, <1>2 DEF Evidence
  <1> QED
    BY <1>6, <1>7, <1>8

\* The steps that write no evidence, or only evidence the invariant does not read.
LEMMA KeptSteps ==
    ASSUME Typed,
           \/ SupervisorStep \/ Lineages \/ RehydratePackage \/ PackageRefused \/ Preflights
           \/ (Workers /\ ~WriteResult) \/ (Closings /\ ~WriteHandoff) \/ RunnerStep
    PROVE  Kept /\ (CommitCheckpoint \/ commits' = commits)
  <1>1. level \in [Level -> Evidence]
    BY DEF Typed, TypeOK
  <1>2. ASSUME NEW l, NEW v,
               \/ Put(l, "preflight", v) \/ Put(l, "request", v) \/ Put(l, "ledger", v)
               \/ Put(l, "reviews", v) \/ Put(l, "torn", v),
               start' = start
        PROVE  Kept
    <2>1. CASE Put(l, "preflight", v)
      BY <1>1, <1>2, <2>1 DEF Put, Kept, Evidence
    <2>2. CASE Put(l, "request", v)
      BY <1>1, <1>2, <2>2 DEF Put, Kept, Evidence
    <2>3. CASE Put(l, "ledger", v)
      BY <1>1, <1>2, <2>3 DEF Put, Kept, Evidence
    <2>4. CASE Put(l, "reviews", v)
      BY <1>1, <1>2, <2>4 DEF Put, Kept, Evidence
    <2>5. CASE Put(l, "torn", v)
      BY <1>1, <1>2, <2>5 DEF Put, Kept, Evidence
    <2> QED
      BY <1>2, <2>1, <2>2, <2>3, <2>4, <2>5
  <1>3. ASSUME level' = level, start' = start
        PROVE  Kept
    BY <1>3 DEF Kept
  <1> USE DEF disk
  <1>4. CASE SupervisorStep
    BY <1>3, <1>4 DEF SupervisorStep, Launch, PreflightBlocked, HandleFailure
  <1>5. CASE Lineages
    BY <1>3, <1>5 DEF Lineages, ExecuteGate, BeginLevel, ExitGate, CompleteLevel
  <1>6. CASE RehydratePackage \/ PackageRefused \/ Preflights
    BY <1>2, <1>3, <1>6 DEF RehydratePackage, PackageRefused, Preflights, PreflightResumed,
       PreflightRun, Resumed
  <1>7. CASE Workers /\ ~WriteResult
    BY <1>2, <1>3, <1>7 DEF Workers, WorkerResumed, Resumed, WorkerResult, WorkerRequest,
       ExecuteWorker, SpawnRunner, TurnAnswered, CollectChanges, Validate, CommitCheckpoint
  <1>8. CASE Closings /\ ~WriteHandoff
    BY <1>2, <1>3, <1>8 DEF Closings, ReviewResumed, CheckpointResumed, ExitResumed, Resumed,
       Review, Checkpoint, ExitLevel
  <1>9. CASE RunnerStep
    <2>1. CASE RunnerOpen
      BY <1>1, <2>1 DEF RunnerOpen, Kept, Evidence
    <2>2. CASE RunnerAccept
      BY <1>2, <1>3, <2>2 DEF RunnerAccept
    <2>3. CASE RunnerWrite \/ RunnerAcceptTimeout
      BY <1>3, <2>3 DEF RunnerWrite, RunnerAcceptTimeout
    <2>4. CASE RunnerEnd
      BY <1>2, <2>4 DEF RunnerEnd
    <2> QED
      BY <1>9, <2>1, <2>2, <2>3, <2>4 DEF RunnerStep, RunnerOpen, RunnerAccept, RunnerWrite,
         RunnerEnd, RunnerAcceptTimeout
  <1> QED
    BY <1>4, <1>5, <1>6, <1>7, <1>8, <1>9

\* The stages, and the levels before a level.
LEMMA StageNames ==
    /\ Stage = {"PACKAGE", "PREFLIGHT", "WORKER", "REVIEW", "CHECKPOINT", "EXIT", "HANDOFF"}
    /\ \A l \in Level : \A m \in 1..(l - 1) : m \in Level
  BY DEF Stage, Lifecycle, Level

\* Sealing the event of a stage: the evidence of the stage is there already.
LEMMA SealsCore == Core /\ Seals => Core'
  <1> SUFFICES ASSUME Core, Seals PROVE Core'
    OBVIOUS
  <1>1. Typed'
    BY SealsType DEF Core
  <1>2. PICK pc, stage, next :
          /\ Seal(pc, stage, next)
          /\ \/ pc = "seal_package" /\ stage = "PACKAGE" /\ next = "preflight"
             \/ pc = "seal_preflight" /\ stage = "PREFLIGHT" /\ next = "worker"
             \/ pc = "seal_worker" /\ stage = "WORKER" /\ next = "review"
             \/ pc = "seal_review" /\ stage = "REVIEW" /\ next = "checkpoint"
             \/ pc = "seal_checkpoint" /\ stage = "CHECKPOINT" /\ next = "exit"
             \/ pc = "seal_exit" /\ stage = "EXIT" /\ next = "handoff"
             \/ pc = "seal_handoff" /\ stage = "HANDOFF" /\ next = "complete"
    BY DEF Seals, SealPackage, SealPreflight, SealWorker, SealReview, SealCheckpoint,
       SealExit, SealHandoff
  <1> USE DEF InLevel, Packaged, PastPackage, PastPreflight, PastWorker, PastReview,
       PastCheckpoint, PastExit, PastHandoff, Executing
  <1>3. gate.pc = pc /\ gate.lv \in Level /\ stage \in Stage /\ next \in PCs
    BY <1>2, StageNames DEF Seal, GateAt, Core, Typed, PCs
  <1>4. /\ \A l \in Level, s \in Stage :
             Sealed(l, s)' <=> Sealed(l, s) \/ (l = gate.lv /\ s = stage)
        /\ \A l \in Level :
             /\ level'[l].package = level[l].package /\ level'[l].source = level[l].source
             /\ level'[l].result = level[l].result /\ level'[l].commit = level[l].commit
             /\ level'[l].handoff = level[l].handoff
    BY <1>2, <1>3, SealedNext DEF Core
  <1>5. start' = start /\ commits' = commits
    BY <1>2 DEF Seal
  <1>6. gate'.pc = next /\ gate'.lv = gate.lv /\ gate'.records = gate.records
    BY <1>2, <1>3, Moved DEF Seal, Core, Typed, TypeOK
  <1>7. ASSUME NEW l \in Level PROVE Chained(l)'
    BY <1>2, <1>3, <1>4, StageNames DEF Core, OnDisk, Passed, Chained
  <1>8. ASSUME NEW l \in Level PROVE Backed(l)'
    BY <1>2, <1>3, <1>4, <1>5, StageNames DEF Core, OnDisk, InProgress, Backed
  <1>9. OnDisk'
    BY <1>5, <1>7, <1>8 DEF Core, OnDisk
  <1>10. InProgress'
    BY <1>2, <1>3, <1>4, <1>5, <1>6, StageNames DEF Core, InProgress, InRecords
  <1>11. Passed'
    BY <1>2, <1>3, <1>4, <1>6, StageNames DEF Core, Passed
  <1> QED
    BY <1>1, <1>9, <1>10, <1>11 DEF Core

\* A process that moves on within its level, the evidence being as it was: what
\* has to be there at the place it moves to.
LEMMA MovedCore ==
    ASSUME Core, Typed', Kept, commits' = commits, gate.pc \in InLevel, NEW pc \in PCs, Goto(pc),
           pc # "level",
           pc \in Packaged => level[gate.lv].package = "SEALED",
           pc \in Executing => level[gate.lv].result = "NONE",
           pc = "result" => Len(commits) = gate.lv,
           pc = "seal_worker" => level[gate.lv].result = "OK",
           pc \in PastPackage => Sealed(gate.lv, "PACKAGE"),
           pc \in PastPreflight => Sealed(gate.lv, "PREFLIGHT"),
           pc \in PastWorker => Sealed(gate.lv, "WORKER"),
           pc \in PastReview => Sealed(gate.lv, "REVIEW"),
           pc \in PastCheckpoint => Sealed(gate.lv, "CHECKPOINT"),
           pc \in PastExit => Sealed(gate.lv, "EXIT"),
           pc \in PastHandoff => Sealed(gate.lv, "HANDOFF")
    PROVE  Core'
  <1>1. gate.lv \in Level /\ gate \in GateState
    BY DEF Core, Typed, TypeOK
  <1>2. gate'.pc = pc /\ gate'.lv = gate.lv /\ gate'.records = gate.records
    BY <1>1, Moved
  <1>3. \A l \in Level, s \in Stage : Sealed(l, s)' <=> Sealed(l, s)
    BY KeptSealed
  <1>4. OnDisk'
    BY KeptOnDisk DEF Core
  <1>5. InProgress'
    BY <1>1, <1>2, <1>3, StageNames DEF Core, InProgress, InRecords, Kept, Packaged, Executing
  <1>6. Passed'
    BY <1>1, <1>2, <1>3, StageNames DEF Passed
  <1> QED
    BY <1>4, <1>5, <1>6 DEF Core

\* A process that failed has no level in progress any more.
LEMMA RaisedCore ==
    ASSUME Core, Typed', Kept, commits' = commits,
           gate'.pc \in {"off", "execute", "raised", "artifact"}
    PROVE  Core'
  <1>1. OnDisk'
    BY KeptOnDisk DEF Core
  <1>2. InProgress' /\ Passed'
    BY DEF InProgress, Passed, InLevel, Packaged, PastPackage, PastPreflight, PastWorker,
       PastReview, PastCheckpoint, PastExit, PastHandoff, Executing
  <1> QED
    BY <1>1, <1>2 DEF Core

\* REVIEW, CHECKPOINT and EXIT: a resumed stage has its event among the records.
LEMMA ClosingsCore == Core /\ Closings => Core'
  <1> SUFFICES ASSUME Core, Closings PROVE Core'
    OBVIOUS
  <1>1. Typed'
    BY ClosingsType DEF Core
  <1>2. gate.pc \in {"review", "checkpoint", "exit", "handoff"}
    BY DEF Closings, ReviewResumed, Review, CheckpointResumed, Checkpoint, ExitResumed,
       ExitLevel, WriteHandoff, Resumed, GateAt
  <1> USE DEF InLevel, Packaged, PastPackage, PastPreflight, PastWorker, PastReview,
       PastCheckpoint, PastExit, PastHandoff, Executing
  <1>3. gate.pc \in InLevel /\ gate.lv \in Level /\ gate \in GateState
    BY <1>2 DEF Core, Typed, TypeOK
  <1>4. /\ Sealed(gate.lv, "PACKAGE") /\ Sealed(gate.lv, "PREFLIGHT") /\ Sealed(gate.lv, "WORKER")
        /\ level[gate.lv].package = "SEALED"
        /\ gate.pc \in {"checkpoint", "exit", "handoff"} => Sealed(gate.lv, "REVIEW")
        /\ gate.pc \in {"exit", "handoff"} => Sealed(gate.lv, "CHECKPOINT")
        /\ gate.pc = "handoff" => Sealed(gate.lv, "EXIT")
    BY <1>2 DEF Core, Passed, InProgress
  <1>5. \A s \in Stage : InRecords(s) => Sealed(gate.lv, s)
    BY <1>3 DEF Core, InProgress
  <1>6. {"seal_review", "checkpoint", "seal_checkpoint", "exit", "seal_exit", "handoff",
         "complete", "raised", "seal_handoff"} \subseteq PCs
    BY DEF PCs, Sealing
  <1>7. ASSUME ~WriteHandoff PROVE Kept /\ commits' = commits
    BY <1>7, KeptSteps DEF Core, Closings, CommitCheckpoint, ReviewResumed, Review,
       CheckpointResumed, Checkpoint, ExitResumed, ExitLevel, Resumed, disk
  <1>8. CASE Goto("raised") /\ ~WriteHandoff
    <2>1. gate'.pc = "raised"
      BY <1>3, <1>6, <1>8, Moved
    <2> QED
      BY <1>1, <1>7, <1>8, <2>1, RaisedCore
  <1>9. CASE ReviewResumed \/ Review
    <2>1. ~WriteHandoff
      BY <1>9 DEF ReviewResumed, Review, Resumed, WriteHandoff, GateAt
    <2>2. gate.pc = "review"
      BY <1>9 DEF ReviewResumed, Review, Resumed, GateAt
    <2>3. CASE InRecords("REVIEW") /\ Goto("checkpoint")
      BY <1>1, <1>3, <1>4, <1>5, <1>6, <1>7, <2>1, <2>3, MovedCore, StageNames
    <2>4. CASE Goto("seal_review")
      BY <1>1, <1>3, <1>4, <1>6, <1>7, <2>1, <2>4, MovedCore
    <2> QED
      BY <1>8, <1>9, <2>1, <2>3, <2>4 DEF ReviewResumed, Resumed, Review, Raise
  <1>10. CASE CheckpointResumed \/ Checkpoint
    <2>1. ~WriteHandoff /\ gate.pc = "checkpoint"
      BY <1>10 DEF CheckpointResumed, Checkpoint, Resumed, WriteHandoff, GateAt
    <2>2. CASE InRecords("CHECKPOINT") /\ Goto("exit")
      BY <1>1, <1>3, <1>4, <1>5, <1>6, <1>7, <2>1, <2>2, MovedCore, StageNames
    <2>3. CASE Goto("seal_checkpoint")
      BY <1>1, <1>3, <1>4, <1>6, <1>7, <2>1, <2>3, MovedCore
    <2> QED
      BY <1>10, <2>2, <2>3 DEF CheckpointResumed, Resumed, Checkpoint
  <1>11. CASE ExitResumed \/ ExitLevel
    <2>1. ~WriteHandoff /\ gate.pc = "exit"
      BY <1>11 DEF ExitResumed, ExitLevel, Resumed, WriteHandoff, GateAt
    <2>2. CASE InRecords("EXIT") /\ Goto("handoff")
      BY <1>1, <1>3, <1>4, <1>5, <1>6, <1>7, <2>1, <2>2, MovedCore, StageNames
    <2>3. CASE Goto("seal_exit")
      BY <1>1, <1>3, <1>4, <1>6, <1>7, <2>1, <2>3, MovedCore
    <2> QED
      BY <1>8, <1>11, <2>1, <2>2, <2>3 DEF ExitResumed, Resumed, ExitLevel, Raise
  <1>12. CASE WriteHandoff
    <2>1. gate.pc = "handoff"
      BY <1>12 DEF WriteHandoff, GateAt
    <2>2. CASE InRecords("HANDOFF")
      <3>1. Kept /\ commits' = commits /\ Goto("complete")
        BY <1>12, <2>2 DEF WriteHandoff, Kept
      <3> QED
        BY <1>1, <1>3, <1>4, <1>5, <1>6, <2>1, <2>2, <3>1, MovedCore, StageNames
    <2>3. CASE ~InRecords("HANDOFF")
      <3>1. level' = [level EXCEPT ![gate.lv]["handoff"] = gate.head] /\ Goto("seal_handoff")
        BY <1>12, <2>3 DEF WriteHandoff, Put
      <3>2. gate'.pc = "seal_handoff" /\ gate'.lv = gate.lv /\ gate'.records = gate.records
        BY <1>3, <1>6, <3>1, Moved
      <3>3. \A l \in Level :
             /\ level'[l].package = level[l].package /\ level'[l].source = level[l].source
             /\ level'[l].result = level[l].result /\ level'[l].commit = level[l].commit
             /\ level'[l].events = level[l].events
             /\ l # gate.lv => level'[l].handoff = level[l].handoff
        BY <3>1 DEF Core, Typed, TypeOK, Evidence
      <3>4. \A l \in Level, s \in Stage : Sealed(l, s)' <=> Sealed(l, s)
        BY <3>3 DEF Sealed
      <3>5. start' = start /\ commits' = commits
        BY <1>12 DEF WriteHandoff
      <3>6. ASSUME NEW l \in Level PROVE Chained(l)' /\ Backed(l)'
        BY <1>4, <2>1, <3>3, <3>4, <3>5, StageNames DEF Core, OnDisk, Chained, Backed
      <3>7. OnDisk'
        BY <3>5, <3>6 DEF Core, OnDisk
      <3>8. InProgress' /\ Passed'
        BY <1>3, <1>4, <2>1, <3>2, <3>3, <3>4, <3>5, StageNames
           DEF Core, InProgress, Passed, InRecords
      <3> QED
        BY <1>1, <3>7, <3>8 DEF Core
    <2> QED
      BY <2>2, <2>3
  <1> QED
    BY <1>9, <1>10, <1>11, <1>12 DEF Closings

\* PACKAGE and PREFLIGHT: a new package stands on the commit of the level before.
LEMMA PackagesCore == Core /\ (Packages \/ Preflights) => Core'
  <1> SUFFICES ASSUME Core, Packages \/ Preflights PROVE Core'
    OBVIOUS
  <1>1. Typed'
    BY PackagesType DEF Core
  <1>2. gate.pc \in {"package", "preflight"}
    BY DEF Packages, Preflights, CreatePackage, RehydratePackage, PackageRefused,
       PreflightResumed, PreflightRun, Resumed, GateAt
  <1> USE DEF InLevel, Packaged, PastPackage, PastPreflight, PastWorker, PastReview,
       PastCheckpoint, PastExit, PastHandoff, Executing
  <1>3. /\ gate.pc \in InLevel /\ gate.lv \in Level /\ gate \in GateState
        /\ level \in [Level -> Evidence] /\ level[gate.lv] \in Evidence
    BY <1>2 DEF Core, Typed, TypeOK
  <1>4. {"seal_package", "preflight", "seal_preflight", "worker", "raised", "artifact"} \subseteq PCs
    BY DEF PCs, Sealing
  <1>5. ASSUME ~CreatePackage PROVE Kept /\ commits' = commits
    BY <1>2, <1>5, KeptSteps DEF Core, Packages, CommitCheckpoint, GateAt
  <1>6. CASE ~CreatePackage /\ \E pc \in {"raised", "artifact"} : Goto(pc)
    <2>1. gate'.pc \in {"raised", "artifact"}
      BY <1>3, <1>4, <1>6, Moved
    <2> QED
      BY <1>1, <1>5, <1>6, <2>1, RaisedCore
  <1>7. CASE CreatePackage
    <2>1. /\ level' = [level EXCEPT ![gate.lv].package = "SEALED", ![gate.lv].source = HEAD]
          /\ start' = start /\ commits' = commits /\ Goto("seal_package") /\ gate.pc = "package"
      BY <1>7 DEF CreatePackage, GateAt
    <2>2. level[gate.lv].package = "NONE"
      BY <1>3, <1>7 DEF CreatePackage, PackageVerdict, Evidence
    <2>3. Len(commits) = gate.lv - 1 /\ HEAD = start + gate.lv - 1
      <3>1. Len(commits) \in {gate.lv - 1, gate.lv} /\ ~(Len(commits) >= gate.lv)
        BY <1>3, <2>2 DEF Core, InProgress, OnDisk, Backed
      <3>2. Len(commits) \in Nat /\ start \in Nat /\ gate.lv \in Nat
        BY <1>3, HeadType DEF Core, Typed, Level
      <3> QED
        BY <3>1, <3>2 DEF HEAD
    <2>4. gate'.pc = "seal_package" /\ gate'.lv = gate.lv /\ gate'.records = gate.records
      BY <1>3, <1>4, <2>1, Moved
    <2>5. /\ \A l \in Level :
               /\ level'[l].result = level[l].result /\ level'[l].commit = level[l].commit
               /\ level'[l].events = level[l].events /\ level'[l].handoff = level[l].handoff
               /\ l # gate.lv => /\ level'[l].package = level[l].package
                                 /\ level'[l].source = level[l].source
          /\ level'[gate.lv].package = "SEALED" /\ level'[gate.lv].source = HEAD
      BY <1>3, <2>1 DEF Evidence
    <2>6. \A l \in Level, s \in Stage : Sealed(l, s)' <=> Sealed(l, s)
      BY <2>5 DEF Sealed
    <2>7. ASSUME NEW l \in Level PROVE Chained(l)'
      BY <2>6, StageNames DEF Core, OnDisk, Chained
    <2>8. ASSUME NEW l \in Level PROVE Backed(l)'
      <3>1. CASE l = gate.lv
        BY <1>2, <1>3, <2>1, <2>3, <2>5, <2>6, <3>1, StageNames DEF Core, OnDisk, InProgress, Backed
      <3>2. CASE l # gate.lv
        <4>1. Backed(l)
          BY DEF Core, OnDisk
        <4>2. /\ level'[l].result = level[l].result /\ level'[l].commit = level[l].commit
              /\ level'[l].handoff = level[l].handoff /\ level'[l].package = level[l].package
              /\ level'[l].source = level[l].source
          BY <2>5, <3>2
        <4> QED
          BY <2>1, <2>6, <4>1, <4>2, StageNames DEF Backed
      <3> QED
        BY <3>1, <3>2
    <2>9. OnDisk'
      BY <2>1, <2>7, <2>8 DEF Core, OnDisk
    <2>10. InProgress' /\ Passed'
      BY <1>3, <2>1, <2>4, <2>5, <2>6, StageNames DEF Core, InProgress, Passed, InRecords
    <2> QED
      BY <1>1, <2>9, <2>10 DEF Core
  <1>8. CASE RehydratePackage
    <2>1. ~CreatePackage /\ level[gate.lv].package = "SEALED"
      BY <1>8 DEF RehydratePackage, CreatePackage, PackageVerdict
    <2>2. CASE Goto("seal_package")
      BY <1>1, <1>3, <1>4, <1>5, <2>1, <2>2, MovedCore
    <2>3. CASE /\ level[gate.lv].events # <<>>
               /\ gate' = [gate EXCEPT !.pc = "preflight", !.records = level[gate.lv].events]
      <3> DEFINE e == level[gate.lv].events
      <3>1. gate'.pc = "preflight" /\ gate'.lv = gate.lv /\ gate'.records = e
        BY <1>3, <2>3 DEF GateState
      <3>2. e \in Seq(Stage) /\ e # <<>>
        BY <1>3, <2>3 DEF Evidence
      <3>3. 1 \in DOMAIN e /\ e[1] \in Stage
        BY <3>2
      <3>4. Sealed(gate.lv, e[1])
        BY <3>3 DEF Sealed
      <3>5. Sealed(gate.lv, "PACKAGE")
        BY <1>3, <3>3, <3>4, StageNames DEF Core, OnDisk, Chained
      <3>6. Kept /\ commits' = commits
        BY <1>5, <2>1
      <3>7. \A l \in Level, s \in Stage : Sealed(l, s)' <=> Sealed(l, s)
        BY <3>6, KeptSealed
      <3>8. \A s \in Stage : InRecords(s)' <=> Sealed(gate.lv, s)
        BY <3>1 DEF InRecords, Sealed
      <3>9. OnDisk'
        BY <3>6, KeptOnDisk DEF Core
      <3>10. InProgress'
        BY <1>3, <2>1, <3>1, <3>6, <3>7, <3>8, StageNames DEF Core, InProgress, Kept
      <3>11. Passed'
        BY <1>3, <3>1, <3>5, <3>7, StageNames DEF Passed
      <3> QED
        BY <1>1, <3>9, <3>10, <3>11 DEF Core
    <2> QED
      BY <1>6, <1>8, <2>1, <2>2, <2>3 DEF RehydratePackage, RaiseArtifact
  <1>9. CASE PackageRefused
    <2>1. ~CreatePackage
      BY <1>9 DEF PackageRefused, CreatePackage
    <2> QED
      BY <1>6, <1>9, <2>1 DEF PackageRefused, Raise, RaiseArtifact
  <1>10. CASE Preflights
    <2>1. ~CreatePackage /\ gate.pc = "preflight"
      BY <1>10 DEF Preflights, PreflightResumed, PreflightRun, Resumed, CreatePackage, GateAt
    <2>2. Sealed(gate.lv, "PACKAGE") /\ level[gate.lv].package = "SEALED"
      BY <2>1 DEF Core, Passed, InProgress
    <2>3. CASE InRecords("PREFLIGHT") /\ Goto("worker")
      <3>1. Sealed(gate.lv, "PREFLIGHT")
        BY <1>3, <2>3, StageNames DEF Core, InProgress
      <3> QED
        BY <1>1, <1>3, <1>4, <1>5, <2>1, <2>2, <2>3, <3>1, MovedCore
    <2>4. CASE Goto("seal_preflight")
      BY <1>1, <1>3, <1>4, <1>5, <2>1, <2>2, <2>4, MovedCore
    <2> QED
      BY <1>6, <1>10, <2>1, <2>3, <2>4 DEF Preflights, PreflightResumed, PreflightRun, Resumed,
         Raise, RaiseArtifact
  <1> QED
    BY <1>7, <1>8, <1>9, <1>10 DEF Packages

\* WORKER: the commit of a level is made on its package's commit, or it is the
\* one that was made before.
LEMMA WorkersCore == Core /\ Workers => Core'
  <1> SUFFICES ASSUME Core, Workers PROVE Core'
    OBVIOUS
  <1>1. Typed'
    BY WorkersType DEF Core
  <1>2. gate.pc \in {"worker"} \union Executing
    BY DEF Workers, WorkerResumed, WorkerResult, WorkerRequest, ExecuteWorker, SpawnRunner,
       TurnAnswered, CollectChanges, Validate, CommitCheckpoint, WriteResult, GateAt, Executing
  <1> USE DEF InLevel, Packaged, PastPackage, PastPreflight, PastWorker, PastReview,
       PastCheckpoint, PastExit, PastHandoff, Executing
  <1>3. /\ gate.pc \in InLevel /\ gate.lv \in Level /\ gate \in GateState
        /\ level \in [Level -> Evidence] /\ level[gate.lv] \in Evidence
    BY <1>2 DEF Core, Typed, TypeOK
  <1>4. {"worker", "seal_worker", "review", "raised"} \union Executing \subseteq PCs
    BY DEF PCs, Sealing
  <1>5. /\ Sealed(gate.lv, "PACKAGE") /\ Sealed(gate.lv, "PREFLIGHT")
        /\ level[gate.lv].package = "SEALED" /\ level[gate.lv].source = start + gate.lv - 1
        /\ Len(commits) \in {gate.lv - 1, gate.lv}
    BY <1>2, <1>3 DEF Core, Passed, InProgress, OnDisk, Backed
  <1>6. Len(commits) \in Nat /\ start \in Nat /\ gate.lv \in Nat
    BY <1>3, HeadType DEF Core, Typed, Level
  <1>7. ASSUME ~WriteResult, ~CommitCheckpoint PROVE Kept /\ commits' = commits
    BY <1>7, KeptSteps DEF Core
  <1>8. CASE Goto("raised") /\ ~WriteResult /\ ~CommitCheckpoint
    <2>1. gate'.pc = "raised"
      BY <1>3, <1>4, <1>8, Moved
    <2> QED
      BY <1>1, <1>7, <1>8, <2>1, RaisedCore
  <1>9. CASE gate.pc = "worker"
    <2>1. ~WriteResult /\ ~CommitCheckpoint
      BY <1>9 DEF WriteResult, CommitCheckpoint, GateAt
    <2>2. CASE InRecords("WORKER") /\ Goto("review")
      <3>1. Sealed(gate.lv, "WORKER")
        BY <1>3, <2>2, StageNames DEF Core, InProgress
      <3> QED
        BY <1>1, <1>3, <1>4, <1>5, <1>7, <2>1, <2>2, <3>1, MovedCore
    <2>3. CASE level[gate.lv].result = "OK" /\ Goto("seal_worker")
      BY <1>1, <1>3, <1>4, <1>5, <1>7, <2>1, <2>3, MovedCore
    <2>4. CASE level[gate.lv].result = "NONE" /\ Goto("work")
      BY <1>1, <1>3, <1>4, <1>5, <1>7, <2>1, <2>4, MovedCore
    <2> QED
      BY <1>8, <1>9, <2>1, <2>2, <2>3, <2>4 DEF Workers, WorkerResumed, WorkerResult, WorkerRequest,
         Resumed, Raise, ExecuteWorker, SpawnRunner, TurnAnswered, CollectChanges, Validate,
         CommitCheckpoint, WriteResult, GateAt
  <1>10. CASE gate.pc \in {"work", "spawn", "turn", "answer"}
    <2>1. ~WriteResult /\ ~CommitCheckpoint
      BY <1>10 DEF WriteResult, CommitCheckpoint, GateAt
    <2>2. level[gate.lv].result = "NONE"
      BY <1>10 DEF Core, InProgress
    <2>3. Goto("raised") \/ \E pc \in {"spawn", "turn", "collect"} : Goto(pc)
      BY <1>10 DEF Workers, WorkerResumed, WorkerResult, WorkerRequest,
         Resumed, Raise, ExecuteWorker, SpawnRunner, TurnAnswered, CollectChanges, Validate,
         CommitCheckpoint, WriteResult, GateAt
    <2>4. ASSUME NEW pc \in {"spawn", "turn", "collect"}, Goto(pc) PROVE Core'
      BY <1>1, <1>3, <1>4, <1>5, <1>7, <2>1, <2>2, <2>4, MovedCore
    <2> QED
      BY <1>8, <2>1, <2>3, <2>4
  <1>11. CASE gate.pc \in {"collect", "validate"}
    <2>1. ~WriteResult /\ ~CommitCheckpoint
      BY <1>11 DEF WriteResult, CommitCheckpoint, GateAt
    <2>2. level[gate.lv].result = "NONE" /\ Kept /\ commits' = commits
      BY <1>7, <1>11, <2>1 DEF Core, InProgress
    <2>3. \/ Goto("raised")
          \/ \E c : gate' = [gate EXCEPT !.pc = "validate", !.changed = c]
          \/ gate' = [gate EXCEPT !.pc = "commit", !.tested = tree[gate.lv]]
      BY <1>11 DEF Workers, WorkerResumed, WorkerResult, WorkerRequest,
         Resumed, Raise, ExecuteWorker, SpawnRunner, TurnAnswered, CollectChanges, Validate,
         CommitCheckpoint, WriteResult, GateAt
    <2>4. \/ Goto("raised")
          \/ /\ gate'.pc \in {"validate", "commit"}
             /\ gate'.lv = gate.lv /\ gate'.records = gate.records
      BY <1>3, <2>3 DEF GateState
    <2>5. \A l \in Level, s \in Stage : Sealed(l, s)' <=> Sealed(l, s)
      BY <2>2, KeptSealed
    <2>6. ASSUME ~Goto("raised") PROVE InProgress' /\ Passed'
      BY <1>3, <1>5, <2>2, <2>4, <2>5, <2>6, StageNames
         DEF Core, InProgress, Passed, InRecords, Kept
    <2>7. OnDisk'
      BY <2>2, KeptOnDisk DEF Core
    <2> QED
      BY <1>1, <1>8, <2>1, <2>6, <2>7 DEF Core
  <1>12. CASE CommitCheckpoint
    <2>1. /\ gate.pc = "commit" /\ Goto("result") /\ level' = level /\ start' = start
      BY <1>12 DEF CommitCheckpoint, GateAt
    <2>2. gate'.pc = "result" /\ gate'.lv = gate.lv /\ gate'.records = gate.records
      BY <1>3, <1>4, <2>1, Moved
    <2>3. level[gate.lv].result = "NONE"
      BY <2>1 DEF Core, InProgress
    <2>4. Kept
      BY <2>1 DEF Kept
    <2>5. \A l \in Level, s \in Stage : Sealed(l, s)' <=> Sealed(l, s)
      BY <2>4, KeptSealed
    <2>6. /\ Len(commits') = gate.lv
          /\ \A i \in 1..gate.lv : commits'[i].lv = i
      <3>1. CASE ~NeedsCommit(gate.lv)
        <4>1. commits' = commits /\ Len(commits) = gate.lv
          BY <1>5, <1>6, <1>12, <3>1 DEF CommitCheckpoint, NeedsCommit, HEAD
        <4> QED
          BY <4>1 DEF Core, OnDisk
      <3>2. CASE NeedsCommit(gate.lv)
        <4>1. Len(commits) = gate.lv - 1
          BY <1>5, <1>6, <3>2 DEF NeedsCommit, HEAD
        <4> DEFINE C == [lv |-> gate.lv, content |-> Only(tree[gate.lv], gate.changed),
                         tested |-> Only(gate.tested, gate.changed)]
        <4>2. commits' = Append(commits, C) /\ C.lv = gate.lv
          BY <1>12, <3>2 DEF CommitCheckpoint
        <4>3. commits \in Seq(Checkpoints)
          BY DEF Core, Typed, TypeOK
        <4> HIDE DEF C
        <4>4. /\ Len(commits') = Len(commits) + 1
              /\ \A i \in 1..Len(commits) : commits'[i] = commits[i]
              /\ commits'[Len(commits) + 1] = C
          BY <4>2, <4>3
        <4> QED
          BY <1>6, <4>1, <4>2, <4>4 DEF Core, OnDisk
      <3> QED
        BY <3>1, <3>2
    <2>7. ASSUME NEW l \in Level PROVE Chained(l)'
      BY <2>5, StageNames DEF Core, OnDisk, Chained
    <2>8. ASSUME NEW l \in Level PROVE Backed(l)'
      <3>1. Backed(l) /\ l \in Nat
        BY DEF Core, OnDisk, Level
      <3>2. l <= gate.lv => level[l].package = "SEALED"
        <4>1. CASE l = gate.lv
          BY <1>5, <4>1
        <4>2. CASE l < gate.lv
          <5>1. Len(commits) >= l
            BY <1>5, <1>6, <3>1, <4>2
          <5> QED
            BY <3>1, <5>1 DEF Backed
        <4> QED
          BY <1>6, <3>1, <4>1, <4>2
      <3>3. level[l].result = "OK" => gate.lv >= l
        BY <1>5, <1>6, <3>1 DEF Backed
      <3> QED
        BY <1>6, <2>1, <2>5, <2>6, <3>1, <3>2, <3>3, StageNames DEF Backed
    <2>9. OnDisk'
      BY <1>3, <2>6, <2>7, <2>8 DEF OnDisk, Level
    <2>10. InProgress' /\ Passed'
      BY <1>3, <1>5, <1>6, <2>1, <2>2, <2>3, <2>5, <2>6, StageNames
         DEF Core, InProgress, Passed, InRecords
    <2> QED
      BY <1>1, <2>9, <2>10 DEF Core
  <1>13. CASE WriteResult /\ Clean
    <2>1. /\ gate.pc = "result" /\ Goto("seal_worker") /\ commits' = commits /\ start' = start
          /\ level' = [level EXCEPT ![gate.lv].result = "OK", ![gate.lv].commit = HEAD]
      BY <1>13 DEF WriteResult, GateAt
    <2>2. gate'.pc = "seal_worker" /\ gate'.lv = gate.lv /\ gate'.records = gate.records
      BY <1>3, <1>4, <2>1, Moved
    <2>3. Len(commits) = gate.lv /\ HEAD = start + gate.lv
      BY <2>1 DEF Core, InProgress, HEAD
    <2>4. /\ \A l \in Level :
               /\ level'[l].package = level[l].package /\ level'[l].source = level[l].source
               /\ level'[l].events = level[l].events /\ level'[l].handoff = level[l].handoff
               /\ l # gate.lv => /\ level'[l].result = level[l].result
                                 /\ level'[l].commit = level[l].commit
          /\ level'[gate.lv].result = "OK" /\ level'[gate.lv].commit = HEAD
      BY <1>3, <2>1 DEF Evidence
    <2>5. \A l \in Level, s \in Stage : Sealed(l, s)' <=> Sealed(l, s)
      BY <2>4 DEF Sealed
    <2>6. ASSUME NEW l \in Level PROVE Chained(l)'
      BY <2>5, StageNames DEF Core, OnDisk, Chained
    <2>7. ASSUME NEW l \in Level PROVE Backed(l)'
      <3>1. Backed(l)
        BY DEF Core, OnDisk
      <3>2. CASE l = gate.lv
        <4>1. /\ level'[l].package = level[l].package /\ level'[l].source = level[l].source
              /\ level'[l].handoff = level[l].handoff
              /\ level'[l].result = "OK" /\ level'[l].commit = start + l
          BY <2>3, <2>4, <3>2
        <4>2. Len(commits) >= l
          BY <1>6, <2>3, <3>2
        <4> QED
          BY <2>1, <2>5, <3>1, <4>1, <4>2, StageNames DEF Backed
      <3>3. CASE l # gate.lv
        BY <2>1, <2>4, <2>5, <3>1, <3>3, StageNames DEF Backed
      <3> QED
        BY <3>2, <3>3
    <2>8. OnDisk'
      BY <2>1, <2>6, <2>7 DEF Core, OnDisk
    <2>9. InProgress' /\ Passed'
      BY <1>3, <1>5, <2>1, <2>2, <2>4, <2>5, StageNames DEF Core, InProgress, Passed, InRecords
    <2> QED
      BY <1>1, <2>8, <2>9 DEF Core
  <1>14. CASE WriteResult /\ ~Clean
    <2>1. Kept /\ commits' = commits /\ Goto("raised")
      BY <1>14 DEF WriteResult, Raise, Kept
    <2>2. gate'.pc = "raised"
      BY <1>3, <1>4, <2>1, Moved
    <2> QED
      BY <1>1, <2>1, <2>2, RaisedCore
  <1>15. gate.pc = "commit" => CommitCheckpoint
    BY DEF Workers, WorkerResumed, WorkerResult, WorkerRequest, ExecuteWorker, SpawnRunner,
       TurnAnswered, CollectChanges, Validate, WriteResult, GateAt
  <1>16. gate.pc = "result" => WriteResult
    BY DEF Workers, WorkerResumed, WorkerResult, WorkerRequest, ExecuteWorker, SpawnRunner,
       TurnAnswered, CollectChanges, Validate, CommitCheckpoint, GateAt
  <1> QED
    BY <1>2, <1>9, <1>10, <1>11, <1>12, <1>13, <1>14, <1>15, <1>16

\* A handoff file proves that its level was committed.
LEMMA HandoffCommitted ==
    ASSUME Core, NEW l \in Level, Sealed(l, "EXIT") \/ level[l].handoff # -1
    PROVE  /\ level[l].result = "OK" /\ level[l].package = "SEALED"
           /\ level[l].source = start + l - 1 /\ level[l].commit = start + l
           /\ Len(commits) >= l
  BY DEF Core, OnDisk, Chained, Backed

\* A level that _sealed_completed_lv_lineage accepts is the last one committed,
\* and every level up to it is handed off.
LEMMA CompletedIsLast ==
    ASSUME Core, NEW l \in Level, CompletedLevel(l)
    PROVE  Len(commits) = l /\ \A m \in 1..l : Sealed(m, "HANDOFF")
  <1>1. level[l].events = Lifecycle
    BY DEF CompletedLevel
  <1>2. Sealed(l, "EXIT") /\ Sealed(l, "HANDOFF")
    <2>1. /\ 6 \in DOMAIN Lifecycle /\ Lifecycle[6] = "EXIT"
          /\ 7 \in DOMAIN Lifecycle /\ Lifecycle[7] = "HANDOFF"
      BY DEF Lifecycle
    <2> QED
      BY <1>1, <2>1 DEF Sealed
  <1>3. level[l].package = "SEALED" /\ level[l].source = start + l - 1
    BY <1>2, HandoffCommitted
  <1>4. Len(commits) \in Nat /\ start \in Nat /\ l \in Nat
    BY HeadType DEF Core, Typed, Level
  <1>5. Len(commits) = l
    BY <1>3, <1>4 DEF CompletedLevel, HEAD
  <1>6. \A m \in 1..(l - 1) : Sealed(m, "HANDOFF")
    BY <1>3 DEF Core, OnDisk, Backed
  <1> QED
    BY <1>2, <1>4, <1>5, <1>6

\* Between the levels: whatever the Gate starts from or goes on from, the levels
\* it takes for done are handed off and at most the next one is committed.
LEMMA LineagesCore == Core /\ Lineages => Core'
  <1> SUFFICES ASSUME Core, Lineages PROVE Core'
    OBVIOUS
  <1>1. Typed'
    BY LineagesType DEF Core
  <1>2. gate.pc \in {"execute", "level", "complete"}
    BY DEF Lineages, ExecuteGate, BeginLevel, ExitGate, CompleteLevel, GateAt
  <1>3. Kept /\ commits' = commits
    BY <1>2, KeptSteps DEF Core, CommitCheckpoint, GateAt
  <1>4. OnDisk'
    BY <1>3, KeptOnDisk DEF Core
  <1>5. \A l \in Level, s \in Stage : Sealed(l, s)' <=> Sealed(l, s)
    BY <1>3, KeptSealed
  <1>6. gate \in GateState /\ gate' \in GateState /\ HEAD \in Nat /\ Len(commits) \in Nat /\ start \in Nat
    BY <1>1, HeadType DEF Core, Typed, TypeOK
  <1>7. CASE gate'.pc \in {"off", "execute", "raised", "artifact"}
    BY <1>1, <1>3, <1>7, RaisedCore
  <1>8. "raised" \in PCs
    BY DEF PCs
  <1>9. CASE Raise
    <2>1. gate'.pc = "raised"
      BY <1>6, <1>8, <1>9, Moved DEF Raise
    <2> QED
      BY <1>7, <2>1
  <1> USE DEF InLevel, Packaged, PastPackage, PastPreflight, PastWorker, PastReview,
       PastCheckpoint, PastExit, PastHandoff, Executing
  <1>10. ASSUME gate'.pc = "level", Len(commits) \in {gate'.done, gate'.done + 1},
                gate'.done \in 0..N, \A m \in 1..gate'.done : Sealed(m, "HANDOFF")
         PROVE  Core'
    <2>1. \A m \in 1..gate'.done : m \in Level
      BY <1>10 DEF Level
    <2>2. InProgress' /\ Passed'
      BY <1>3, <1>5, <1>10, <2>1, StageNames DEF InProgress, Passed
    <2> QED
      BY <1>1, <1>4, <2>2 DEF Core
  <1>11. CASE ExecuteGate
    <2> DEFINE d == IF gate.resume THEN Cardinality(HandedOff) ELSE 0
               h == IF LineageAtEntry(d) = "SEALED" THEN HEAD ELSE -1
               g == [gate EXCEPT !.pc = "level", !.done = d, !.lineage = h]
    <2>1. Raise \/ (gate' = g /\ LineageAtEntry(d) # "MISSING")
      BY <1>11 DEF ExecuteGate
    <2>2. Cardinality(HandedOff) \in 0..N /\ IsFiniteSet(HandedOff)
      BY LevelsCounted DEF HandedOff
    <2>3. d \in 0..N
      BY <2>2, GateAssumption
    <2>4. CASE gate' = g /\ LineageAtEntry(d) # "MISSING"
      <3>1. gate'.pc = "level" /\ gate'.done = d
        BY <1>6, <2>4 DEF GateState
      <3>2. CASE HEAD = 0
        <4>1. Len(commits) = 0
          BY <1>6, <3>2 DEF HEAD
        <4>2. HandedOff = {}
          <5>1. ASSUME NEW l \in HandedOff PROVE FALSE
            <6>1. l \in Level /\ level[l].handoff # -1
              BY DEF HandedOff
            <6>2. Len(commits) >= l
              BY <6>1, HandoffCommitted
            <6> QED
              BY <4>1, <6>1, <6>2 DEF Level
          <5> QED
            BY <5>1
        <4>3. d = 0
          BY <4>2, FS_EmptySet
        <4> QED
          BY <1>10, <3>1, <4>1, <4>3, GateAssumption
      <3>3. CASE HEAD # 0
        <4>1. HasSourceLineage /\ (d = 0 \/ CompletedLevel(d))
          <5> HIDE DEF d
          <5> QED
            BY <2>4, <3>3 DEF LineageAtEntry
        <4>2. CASE d = 0
          <5>1. CASE VerifiedCompletedGate
            <6>1. Len(commits) = 0
              BY <1>6, <5>1 DEF VerifiedCompletedGate, HEAD
            <6> QED
              BY <1>10, <3>1, <4>2, <6>1, GateAssumption
          <5>2. CASE VerifiedResumeCheckpoint
            <6>1. SealedCheckpoints # {}
              BY <5>2, FS_EmptySet DEF VerifiedResumeCheckpoint
            <6>2. PICK l \in Level : /\ level[l].result = "OK" /\ level[l].commit = HEAD
                                     /\ Sealed(l, "WORKER") /\ level[l].source = 0
              BY <6>1 DEF SealedCheckpoints
            <6>3. /\ level[l].commit = start + l /\ level[l].source = start + l - 1
                  /\ l \in Nat \ {0}
              BY <6>2 DEF Core, OnDisk, Chained, Backed, Level
            <6>4. Len(commits) = 1
              <7>1. start + l = start + Len(commits) /\ start + l - 1 = 0
                BY <6>2, <6>3 DEF HEAD
              <7>2. start \in Nat /\ l \in Nat \ {0} /\ Len(commits) \in Nat
                BY <1>6, <6>3
              <7>3. \A a, b, c \in Nat : a + b = a + c /\ a + b - 1 = 0 /\ b # 0 => c = 1
                OBVIOUS
              <7> QED
                BY <7>1, <7>2, <7>3
            <6> QED
              BY <1>10, <3>1, <4>2, <6>4, GateAssumption
          <5> QED
            BY <4>1, <5>1, <5>2 DEF HasSourceLineage
        <4>3. CASE d # 0
          <5>1. d \in Level /\ CompletedLevel(d)
            BY <2>3, <4>1, <4>3 DEF Level
          <5> HIDE DEF d
          <5>2. Len(commits) = d /\ \A m \in 1..d : Sealed(m, "HANDOFF")
            BY <5>1, CompletedIsLast
          <5> QED
            BY <1>10, <2>3, <3>1, <5>2
        <4> QED
          BY <4>2, <4>3
      <3> QED
        BY <3>2, <3>3
    <2> QED
      BY <1>9, <2>1, <2>4
  <1>12. CASE BeginLevel
    <2>1. gate.pc = "level" /\ gate.done < N /\ gate.done \in 0..N
      BY <1>6, <1>12 DEF BeginLevel, GateAt, GateState
    <2>2. CASE HEAD # 0 /\ gate.lineage # HEAD
      BY <1>9, <1>12, <2>2 DEF BeginLevel
    <2>3. CASE ~(HEAD # 0 /\ gate.lineage # HEAD)
      <3>1. gate'.pc = "package" /\ gate'.lv = gate.done + 1 /\ gate'.records = <<>>
        BY <1>6, <1>12, <2>3 DEF BeginLevel, GateState
      <3>2. gate.done + 1 \in Level /\ \A m \in 1..gate.done : m \in Level
        BY <2>1 DEF Level
      <3>3. \A s \in Stage : ~InRecords(s)'
        BY <3>1 DEF InRecords
      <3>4. /\ Len(commits) \in {gate'.lv - 1, gate'.lv}
            /\ \A m \in 1..(gate'.lv - 1) : Sealed(m, "HANDOFF")
        BY <1>6, <2>1, <3>1 DEF Core, InProgress
      <3>5. InProgress' /\ Passed'
        BY <1>3, <1>5, <2>1, <3>1, <3>2, <3>3, <3>4, StageNames DEF InProgress, Passed
      <3> QED
        BY <1>1, <1>4, <3>5 DEF Core
    <2> QED
      BY <2>2, <2>3
  <1>13. CASE ExitGate
    <2>1. gate'.pc = "off"
      BY <1>13, GoneType DEF ExitGate
    <2> QED
      BY <1>7, <2>1
  <1>14. CASE CompleteLevel
    <2>1. gate.pc = "complete" /\ gate.lv \in Level /\ gate.lv \in 0..N
      BY <1>6, <1>14 DEF CompleteLevel, GateAt, Core, Typed, GateState
    <2>2. HEAD # 0
      <3>1. Sealed(gate.lv, "EXIT")
        BY <2>1 DEF Core, Passed
      <3>2. Len(commits) >= gate.lv
        BY <2>1, <3>1, HandoffCommitted
      <3> QED
        BY <1>6, <2>1, <3>2 DEF HEAD, Level
    <2>3. CASE CompletedLevel(gate.lv)
      <3>1. gate'.pc = "level" /\ gate'.done = gate.lv
        BY <1>6, <1>14, <2>2, <2>3 DEF CompleteLevel, GateState
      <3>2. Len(commits) = gate.lv /\ \A m \in 1..gate.lv : Sealed(m, "HANDOFF")
        BY <2>1, <2>3, CompletedIsLast
      <3> QED
        BY <1>10, <2>1, <3>1, <3>2
    <2> QED
      BY <1>9, <1>14, <2>2, <2>3 DEF CompleteLevel
  <1> QED
    BY <1>11, <1>12, <1>13, <1>14 DEF Lineages

\* A supervisor's step, a runner's step and a fault leave no level in progress or
\* the one there was.
LEMMA OthersCore ==
    Core /\ (SupervisorStep \/ RunnerStep \/ Crash \/ Timeout) => Core'
  <1> SUFFICES ASSUME Core, SupervisorStep \/ RunnerStep \/ Crash \/ Timeout PROVE Core'
    OBVIOUS
  <1>1. Typed'
    BY SupervisorType, RunnerType, FaultType DEF Core
  <1>2. gate \in GateState /\ gate' \in GateState /\ level \in [Level -> Evidence]
    BY <1>1 DEF Core, Typed, TypeOK
  <1>3. CASE SupervisorStep /\ ~PreflightBlocked
    <2>1. gate'.pc \in {"off", "execute"}
      BY <1>3, GoneType DEF SupervisorStep, Launch, HandleFailure, GateState
    <2>2. Kept /\ commits' = commits
      BY <1>3, KeptSteps DEF Core, SupervisorStep, Launch, HandleFailure, disk
    <2> QED
      BY <1>1, <2>1, <2>2, RaisedCore
  <1>4. ASSUME Kept, commits' = commits, gate' = gate PROVE Core'
    <2>1. \A l \in Level, s \in Stage : Sealed(l, s)' <=> Sealed(l, s)
      BY <1>4, KeptSealed
    <2>2. gate.pc \in InLevel => gate.lv \in Level
      BY DEF Core, Typed
    <2>3. gate.pc = "level" => \A m \in 1..gate.done : m \in Level
      BY <1>2 DEF GateState, Level
    <2>4. InProgress'
      BY <1>4, <2>1, <2>2, <2>3, StageNames DEF Core, InProgress, InRecords, Kept, InLevel, Packaged,
         PastPackage, PastPreflight, Executing
    <2>5. Passed'
      BY <1>4, <2>1, <2>2, StageNames DEF Core, Passed, InLevel, Packaged, PastPackage, PastPreflight,
         PastWorker, PastReview, PastCheckpoint, PastExit
    <2> QED
      BY <1>1, <1>4, <2>4, <2>5, KeptOnDisk DEF Core
  <1>5. CASE PreflightBlocked
    <2>1. Kept
      BY <1>5 DEF PreflightBlocked, Kept, disk
    <2> QED
      BY <1>4, <1>5, <2>1 DEF PreflightBlocked, disk
  <1>6. CASE RunnerStep
    <2>1. Kept /\ commits' = commits
      BY <1>6, KeptSteps DEF Core, RunnerStep, RunnerAccept, RunnerOpen, RunnerWrite, RunnerEnd,
         RunnerAcceptTimeout, disk
    <2>2. \/ gate' = gate \/ Goto("raised")
          \/ gate.pc = "turn" /\ Goto("answer")
      BY <1>6 DEF RunnerStep, RunnerAccept, RunnerOpen, RunnerWrite, RunnerEnd,
         RunnerAcceptTimeout, Raise, GateAt
    <2>3. {"raised", "answer"} \subseteq PCs
      BY DEF PCs
    <2>4. CASE Goto("raised")
      <3>1. gate'.pc = "raised"
        BY <1>2, <2>3, <2>4, Moved
      <3> QED
        BY <1>1, <2>1, <3>1, RaisedCore
    <2>5. CASE gate.pc = "turn" /\ Goto("answer")
      <3> USE DEF InLevel, Packaged, PastPackage, PastPreflight, PastWorker, PastReview,
           PastCheckpoint, PastExit, PastHandoff, Executing
      <3>1. /\ Sealed(gate.lv, "PACKAGE") /\ Sealed(gate.lv, "PREFLIGHT")
            /\ level[gate.lv].package = "SEALED" /\ level[gate.lv].result = "NONE"
        BY <2>5 DEF Core, Passed, InProgress
      <3> QED
        BY <1>1, <2>1, <2>3, <2>5, <3>1, MovedCore
    <2> QED
      BY <1>4, <2>1, <2>2, <2>4, <2>5
  <1>7. CASE Crash \/ Timeout
    <2>1. /\ gate'.pc = "off" /\ start' = start /\ commits' = commits /\ TornWrite
      BY <1>7, GoneType DEF Crash, Timeout
    <2>2. InProgress' /\ Passed'
      BY <2>1 DEF InProgress, Passed, InLevel, Packaged, PastPackage, PastPreflight, PastWorker,
         PastReview, PastCheckpoint, PastExit, PastHandoff, Executing
    <2>3. CASE level' = level \/ Put(gate.lv, "torn", TRUE)
      <3>1. Kept
        <4>1. CASE level' = level
          BY <2>1, <4>1 DEF Kept
        <4>2. CASE Put(gate.lv, "torn", TRUE)
          BY <1>2, <2>1, <4>2 DEF Put, Kept, Evidence
        <4> QED
          BY <2>3, <4>1, <4>2
      <3> QED
        BY <1>1, <2>1, <2>2, <3>1, KeptOnDisk DEF Core
    <2>4. CASE gate.pc = "result" /\ Put(gate.lv, "result", "TORN")
      <3>1. gate.lv \in Level /\ level[gate.lv].result = "NONE"
        BY <2>4 DEF Core, Typed, InProgress, InLevel, Packaged, PastPackage, PastPreflight, Executing
      <3>2. \A l \in Level :
             /\ level'[l].package = level[l].package /\ level'[l].source = level[l].source
             /\ level'[l].commit = level[l].commit
             /\ level'[l].events = level[l].events /\ level'[l].handoff = level[l].handoff
             /\ level'[l].result = level[l].result
                  \/ (level[l].result = "NONE" /\ level'[l].result = "TORN")
        BY <1>2, <2>4, <3>1 DEF Put, Evidence
      <3>3. \A l \in Level, s \in Stage : Sealed(l, s)' <=> Sealed(l, s)
        BY <3>2 DEF Sealed
      <3>4. ASSUME NEW l \in Level PROVE Chained(l)'
        BY <3>3, StageNames DEF Core, OnDisk, Chained
      <3>5. ASSUME NEW l \in Level PROVE Backed(l)'
        <4>1. Backed(l)
          BY DEF Core, OnDisk
        <4> QED
          BY <2>1, <3>2, <3>3, <4>1, StageNames DEF Backed
      <3> QED
        BY <1>1, <2>1, <2>2, <3>4, <3>5 DEF Core, OnDisk
    <2>5. CASE /\ gate.pc = "package" /\ PackageVerdict(gate.lv) = "NEW"
               /\ level' = [level EXCEPT ![gate.lv].package = "PARTIAL", ![gate.lv].source = HEAD]
      <3>1. gate.lv \in Level
        BY <2>5 DEF Core, Typed, InLevel
      <3>2. level[gate.lv].package = "NONE"
        BY <1>2, <2>5, <3>1 DEF PackageVerdict, Evidence
      <3>3. \A l \in Level :
             /\ level'[l].commit = level[l].commit /\ level'[l].result = level[l].result
             /\ level'[l].events = level[l].events /\ level'[l].handoff = level[l].handoff
             /\ \/ level'[l].package = level[l].package /\ level'[l].source = level[l].source
                \/ level[l].package = "NONE" /\ level'[l].package = "PARTIAL"
        BY <1>2, <2>5, <3>1, <3>2 DEF Evidence
      <3>4. \A l \in Level, s \in Stage : Sealed(l, s)' <=> Sealed(l, s)
        BY <3>3 DEF Sealed
      <3>5. ASSUME NEW l \in Level PROVE Chained(l)'
        BY <3>4, StageNames DEF Core, OnDisk, Chained
      <3>6. ASSUME NEW l \in Level PROVE Backed(l)'
        <4>1. Backed(l)
          BY DEF Core, OnDisk
        <4> QED
          BY <2>1, <3>3, <3>4, <4>1, StageNames DEF Backed
      <3> QED
        BY <1>1, <2>1, <2>2, <3>5, <3>6 DEF Core, OnDisk
    <2> QED
      BY <2>1, <2>3, <2>4, <2>5 DEF TornWrite, GateAt
  <1> QED
    BY <1>3, <1>5, <1>6, <1>7

\* Every step keeps the evidence and the place of the process consistent.
LEMMA CoreStep == Core /\ [Next]_vars => Core'
  <1> SUFFICES ASSUME Core, [Next]_vars PROVE Core'
    OBVIOUS
  <1>1. CASE UNCHANGED vars
    <2>1. Typed'
      BY <1>1, TypeStep DEF Core
    <2>2. OnDisk'
      <3>1. level' = level /\ start' = start /\ commits' = commits
        BY <1>1 DEF vars
      <3>2. Kept
        BY <3>1 DEF Kept
      <3> QED
        BY <3>1, <3>2, KeptOnDisk DEF Core
    <2>3. InProgress' /\ Passed'
      BY <1>1 DEF vars, Core, InProgress, Passed, Sealed, InRecords
    <2> QED
      BY <2>1, <2>2, <2>3 DEF Core
  <1> QED
    BY <1>1, LineagesCore, SealsCore, PackagesCore, WorkersCore, ClosingsCore, OthersCore
       DEF Next, GateStep, Settled

\* The initial state.
LEMMA CoreInit == Init => Core
  <1> SUFFICES ASSUME Init PROVE Core
    OBVIOUS
  <1>1. Typed /\ gate.pc = "off"
    BY InitialType, GoneType DEF Init
  <1>2. \A l \in Level, s \in Stage : ~Sealed(l, s)
    BY DEF Init, Sealed, Untouched
  <1>3. /\ Len(commits) = 0
        /\ \A l \in Level : /\ level[l].package = "NONE" /\ level[l].result = "NONE"
                             /\ level[l].handoff = -1 /\ l > 0
    BY DEF Init, Untouched, Level
  <1>4. OnDisk
    BY <1>2, <1>3, StageNames, GateAssumption DEF OnDisk, Chained, Backed, Level
  <1>5. InProgress /\ Passed
    BY <1>1 DEF InProgress, Passed, InLevel, Packaged, PastPackage, PastPreflight, PastWorker,
       PastReview, PastCheckpoint, PastExit, PastHandoff, Executing
  <1> QED
    BY <1>1, <1>4, <1>5 DEF Core

-----------------------------------------------------------------------------
(* The supervisor, the ledger *)

\* The supervisor waits for exactly the Gate process there is.
LEMMA SupervisedStep == Typed /\ Supervised /\ [Next]_vars => Supervised'
  <1> SUFFICES ASSUME Typed, Supervised, [Next]_vars PROVE Supervised'
    OBVIOUS
  <1>1. gate \in GateState /\ sup \in QueueItem
    BY DEF Typed, TypeOK
  <1>2. ASSUME sup' = sup, gate.pc # "off", gate'.pc # "off" PROVE Supervised'
    BY <1>2 DEF Supervised
  <1>3. ASSUME sup' = sup, gate' = gate PROVE Supervised'
    BY <1>3 DEF Supervised
  <1>4. ASSUME NEW pc \in PCs \ {"off"}, Goto(pc) PROVE gate'.pc # "off"
    BY <1>1, <1>4, Moved
  <1>5. PCs \ {"off"} = {"execute", "level", "package", "preflight", "worker", "work", "spawn",
          "turn", "answer", "collect", "validate", "commit", "result", "review",
          "checkpoint", "exit", "handoff", "complete", "raised", "artifact",
          "seal_package", "seal_preflight", "seal_worker", "seal_review",
          "seal_checkpoint", "seal_exit", "seal_handoff"}
    BY DEF PCs, Sealing
  <1> USE DEF history
  <1>6. CASE Lineages
    <2>1. CASE ExitGate
      BY <1>1, <2>1, GoneType DEF ExitGate, Supervised, QueueItem
    <2>2. CASE ExecuteGate
      <3>1. gate'.pc # "off"
        BY <1>1, <1>4, <1>5, <2>2 DEF ExecuteGate, Raise, GateState
      <3> QED
        BY <1>2, <2>2, <3>1 DEF ExecuteGate, GateAt
    <2>3. CASE BeginLevel
      <3>1. gate'.pc # "off"
        BY <1>1, <1>4, <1>5, <2>3 DEF BeginLevel, Raise, GateState
      <3> QED
        BY <1>2, <2>3, <3>1 DEF BeginLevel, GateAt
    <2>4. CASE CompleteLevel
      <3>1. gate'.pc # "off"
        BY <1>1, <1>4, <1>5, <2>4 DEF CompleteLevel, Raise, GateState
      <3> QED
        BY <1>2, <2>4, <3>1 DEF CompleteLevel, GateAt
    <2> QED
      BY <1>6, <2>1, <2>2, <2>3, <2>4 DEF Lineages
  <1>7. CASE Seals
    BY <1>2, <1>4, <1>5, <1>7 DEF Seals, SealPackage, SealPreflight, SealWorker, SealReview,
       SealCheckpoint, SealExit, SealHandoff, Seal, GateAt
  <1>8. CASE Packages \/ Preflights
    <2>1. gate'.pc # "off"
      BY <1>1, <1>4, <1>5, <1>8 DEF Packages, Preflights, CreatePackage, RehydratePackage, PackageRefused,
         PreflightResumed, PreflightRun, Resumed, Raise, RaiseArtifact, GateState
    <2> QED
      BY <1>2, <1>8, <2>1 DEF Packages, Preflights, CreatePackage, RehydratePackage, PackageRefused,
         PreflightResumed, PreflightRun, Resumed, GateAt
  <1>9. CASE Workers
    <2>1. gate'.pc # "off"
      <3>1. \/ \E pc \in PCs \ {"off"} : Goto(pc)
            \/ \E c : gate' = [gate EXCEPT !.pc = "validate", !.changed = c]
            \/ gate' = [gate EXCEPT !.pc = "commit", !.tested = tree[gate.lv]]
        BY <1>5, <1>9 DEF Workers, WorkerResumed, WorkerResult, WorkerRequest, ExecuteWorker, SpawnRunner,
           TurnAnswered, CollectChanges, Validate, CommitCheckpoint, WriteResult, Resumed, Raise
      <3> QED
        BY <1>1, <1>4, <3>1 DEF GateState
    <2> QED
      BY <1>2, <1>9, <2>1 DEF Workers, WorkerResumed, WorkerResult, WorkerRequest, ExecuteWorker,
         SpawnRunner, TurnAnswered, CollectChanges, Validate, CommitCheckpoint, WriteResult, Resumed,
         GateAt
  <1>10. CASE Closings
    <2>1. gate'.pc # "off"
      BY <1>4, <1>5, <1>10 DEF Closings, ReviewResumed, Review, CheckpointResumed, Checkpoint,
         ExitResumed, ExitLevel, WriteHandoff, Resumed, Raise
    <2> QED
      BY <1>2, <1>10, <2>1 DEF Closings, ReviewResumed, Review, CheckpointResumed, Checkpoint,
         ExitResumed, ExitLevel, WriteHandoff, Resumed, GateAt
  <1>11. CASE SupervisorStep
    <2>1. CASE Launch
      BY <1>1, <2>1, GoneType DEF Launch, Supervised, GateState, QueueItem
    <2>2. CASE PreflightBlocked
      BY <1>1, <2>2 DEF PreflightBlocked, Supervised, QueueItem
    <2>3. CASE HandleFailure
      <3>1. sup'.state # "RUNNING"
        BY <1>1, <2>3 DEF HandleFailure, Retried, QueueItem
      <3> QED
        BY <2>3, <3>1, GoneType DEF HandleFailure, Supervised
    <2> QED
      BY <1>11, <2>1, <2>2, <2>3 DEF SupervisorStep
  <1>12. CASE RunnerStep
    <2>1. sup' = sup
      BY <1>12 DEF RunnerStep, RunnerAccept, RunnerOpen, RunnerWrite, RunnerEnd, RunnerAcceptTimeout
    <2>2. gate' = gate \/ (gate.pc = "turn" /\ \E pc \in PCs \ {"off"} : Goto(pc))
      BY <1>5, <1>12 DEF RunnerStep, RunnerAccept, RunnerOpen, RunnerWrite, RunnerEnd,
         RunnerAcceptTimeout, Raise, GateAt
    <2> QED
      BY <1>2, <1>3, <1>4, <2>1, <2>2
  <1>13. CASE Crash \/ Timeout
    <2>1. sup'.state # "RUNNING"
      BY <1>1, <1>13 DEF Crash, Timeout, Retried, QueueItem
    <2> QED
      BY <1>13, <2>1, GoneType DEF Crash, Timeout, Supervised
  <1>14. CASE UNCHANGED vars
    BY <1>3, <1>14 DEF vars
  <1> QED
    BY <1>6, <1>7, <1>8, <1>9, <1>10, <1>11, <1>12, <1>13, <1>14 DEF Next, GateStep, Settled

\* Only a host runner writes the ledger, and it starts a turn only with a request
\* the ledger does not hold.
LEMMA ReceivedStep == Typed /\ Received /\ [Next]_vars => Received'
  <1> SUFFICES ASSUME Typed, Received, [Next]_vars PROVE Received'
    OBVIOUS
  <1>1. level \in [Level -> Evidence] /\ launches \in [Level -> Nat]
    BY DEF Typed, TypeOK
  <1>2. ASSUME launches' = launches, \A l \in Level : level'[l].ledger = level[l].ledger
        PROVE  Received'
    BY <1>2 DEF Received
  <1>3. ASSUME NEW l, NEW v,
               \/ Put(l, "preflight", v) \/ Put(l, "request", v) \/ Put(l, "events", v)
               \/ Put(l, "reviews", v) \/ Put(l, "torn", v) \/ Put(l, "result", v)
               \/ Put(l, "handoff", v)
               \/ level' = level
        PROVE  \A m \in Level : level'[m].ledger = level[m].ledger
    <2>1. ASSUME NEW field \in {"preflight", "request", "events", "reviews", "torn", "result", "handoff"},
                 Put(l, field, v)
          PROVE  \A m \in Level : level'[m].ledger = level[m].ledger
      BY <1>1, <2>1 DEF Put, Evidence
    <2> QED
      BY <1>3, <2>1
  <1> USE DEF history, disk
  <1>4. CASE Lineages \/ SupervisorStep
    BY <1>2, <1>3, <1>4 DEF Lineages, ExecuteGate, BeginLevel, ExitGate, CompleteLevel, SupervisorStep,
       Launch, PreflightBlocked, HandleFailure
  <1>5. CASE Seals
    BY <1>2, <1>3, <1>5 DEF Seals, SealPackage, SealPreflight, SealWorker, SealReview,
       SealCheckpoint, SealExit, SealHandoff, Seal
  <1>6. CASE CreatePackage
    BY <1>1, <1>2, <1>6 DEF CreatePackage, Evidence
  <1>7. CASE RehydratePackage \/ PackageRefused \/ Preflights
    BY <1>2, <1>3, <1>7 DEF RehydratePackage, PackageRefused, Preflights, PreflightResumed,
       PreflightRun, Resumed
  <1>8. CASE WriteResult
    <2>1. \A m \in Level : level'[m].ledger = level[m].ledger
      <3>1. \/ level' = level
            \/ level' = [level EXCEPT ![gate.lv].result = "OK", ![gate.lv].commit = HEAD]
        BY <1>8 DEF WriteResult
      <3>2. CASE level' = [level EXCEPT ![gate.lv].result = "OK", ![gate.lv].commit = HEAD]
        BY <1>1, <3>2 DEF Evidence
      <3> QED
        BY <3>1, <3>2
    <2> QED
      BY <1>2, <1>8, <2>1 DEF WriteResult
  <1>9. CASE Workers /\ ~WriteResult
    BY <1>2, <1>3, <1>9 DEF Workers, WorkerResumed, WorkerResult, WorkerRequest, ExecuteWorker,
       SpawnRunner, TurnAnswered, CollectChanges, Validate, CommitCheckpoint, Resumed
  <1>10. CASE Closings
    BY <1>2, <1>3, <1>10 DEF Closings, ReviewResumed, Review, CheckpointResumed, Checkpoint,
       ExitResumed, ExitLevel, WriteHandoff, Resumed
  <1>11. CASE RunnerAccept
    <2>1. runner.lv \in Level
      BY <1>11 DEF RunnerAccept, Typed
    <2>2. CASE RequestIsNew(runner.lv)
      <3>1. /\ launches' = [launches EXCEPT ![runner.lv] = @ + 1]
            /\ level' = [level EXCEPT ![runner.lv]["ledger"] = "RUNNING"]
        BY <1>11, <2>2 DEF RunnerAccept, Put
      <3>2. level'[runner.lv].ledger = "RUNNING"
            /\ \A m \in Level \ {runner.lv} : level'[m] = level[m]
        BY <1>1, <2>1, <3>1 DEF Evidence
      <3>3. launches[runner.lv] = 0
        BY <2>1, <2>2 DEF RequestIsNew, Received
      <3> QED
        BY <1>1, <2>1, <3>1, <3>2, <3>3 DEF Received
    <2>3. CASE ~RequestIsNew(runner.lv)
      BY <1>2, <1>11, <2>3 DEF RunnerAccept
    <2> QED
      BY <2>2, <2>3
  <1>12. CASE RunnerOpen
    BY <1>1, <1>2, <1>12 DEF RunnerOpen, Evidence
  <1>13. CASE RunnerEnd
    <2>1. PICK v \in {"COMPLETED", "FAILED"} : Put(runner.lv, "ledger", v)
      BY <1>13 DEF RunnerEnd
    <2>2. \A m \in Level : level'[m].ledger = level[m].ledger \/ level'[m].ledger = v
      BY <1>1, <2>1 DEF Put, Evidence
    <2> QED
      BY <1>13, <2>2 DEF RunnerEnd, Received
  <1>14. CASE RunnerWrite \/ RunnerAcceptTimeout \/ UNCHANGED vars
    BY <1>2, <1>14 DEF RunnerWrite, RunnerAcceptTimeout, vars
  <1>15. CASE Crash \/ Timeout
    <2>1. CASE level' = [level EXCEPT ![gate.lv].package = "PARTIAL", ![gate.lv].source = HEAD]
      BY <1>1, <1>2, <1>15, <2>1 DEF Crash, Timeout, Evidence
    <2>2. launches' = launches
      BY <1>15 DEF Crash, Timeout
    <2>3. \/ level' = level \/ Put(gate.lv, "torn", TRUE) \/ Put(gate.lv, "result", "TORN")
          \/ level' = [level EXCEPT ![gate.lv].package = "PARTIAL", ![gate.lv].source = HEAD]
      BY <1>15 DEF Crash, Timeout, TornWrite
    <2> QED
      BY <1>2, <1>3, <2>1, <2>2, <2>3
  <1> QED
    BY <1>4, <1>5, <1>6, <1>7, <1>8, <1>9, <1>10, <1>11, <1>12, <1>13, <1>14, <1>15
       DEF Next, GateStep, Packages, RunnerStep, Settled

-----------------------------------------------------------------------------
(* The theorems that hold whatever fails *)

\* IInv is inductive.
LEMMA Invariance == Spec => []IInv
  <1>1. Init => IInv
    <2> SUFFICES ASSUME Init PROVE IInv
      OBVIOUS
    <2>1. Supervised
      BY GoneType DEF Init, Supervised
    <2>2. Received
      BY DEF Init, Received
    <2> QED
      BY <2>1, <2>2, CoreInit DEF IInv
  <1>2. IInv /\ [Next]_vars => IInv'
    BY CoreStep, SupervisedStep, ReceivedStep DEF IInv, Core
  <1> QED
    BY <1>1, <1>2, PTL DEF Spec

\* The evidence on disk, both processes and the queue item keep their types
\* through every interleaving of retries, kills and Gate timeouts.
THEOREM TypeCorrect == Spec => []TypeOK
  <1>1. IInv => TypeOK
    BY DEF IInv, Core, Typed
  <1> QED
    BY <1>1, Invariance, PTL

\* The worker turn of a level is started at most once, by whatever number of
\* attempts, service deaths and terminated Gates.
THEOREM TurnsAreStartedOnce == Spec => []WorkerTurnOnce
  <1>1. IInv => WorkerTurnOnce
    BY DEF IInv, Received, WorkerTurnOnce
  <1> QED
    BY <1>1, Invariance, PTL

\* A package is sealed on the commit of the level before it, after the HANDOFF
\* event of every earlier level.
THEOREM PackagesFollowHandoffs == Spec => []PackageFollowsHandoff
  <1>1. IInv => PackageFollowsHandoff
    BY DEF IInv, Core, OnDisk, Backed, PackageFollowsHandoff
  <1> QED
    BY <1>1, Invariance, PTL

\* A handoff file, which is all a resumed Gate reads to skip a level, is backed
\* by the level's whole chain, its result and its own commit.
THEOREM HandoffsAreBacked == Spec => []HandoffBacked
  <1>1. ASSUME IInv PROVE HandoffBacked
    <2>1. SUFFICES ASSUME NEW l \in HandedOff
                   PROVE  /\ \A i \in 1..6 : Sealed(l, Lifecycle[i])
                          /\ level[l].result = "OK"
                          /\ level[l].commit - start \in DOMAIN commits
                          /\ commits[level[l].commit - start].lv = l
      BY DEF HandoffBacked
    <2>2. l \in Level /\ level[l].handoff # -1
      BY DEF HandedOff
    <2>3. /\ Sealed(l, "PACKAGE") /\ Sealed(l, "PREFLIGHT") /\ Sealed(l, "WORKER")
          /\ Sealed(l, "REVIEW") /\ Sealed(l, "CHECKPOINT") /\ Sealed(l, "EXIT")
      BY <1>1, <2>2 DEF IInv, Core, OnDisk, Chained, Backed
    <2>4. \A i \in 1..6 : Sealed(l, Lifecycle[i])
      <3>1. /\ Lifecycle[1] = "PACKAGE" /\ Lifecycle[2] = "PREFLIGHT" /\ Lifecycle[3] = "WORKER"
            /\ Lifecycle[4] = "REVIEW" /\ Lifecycle[5] = "CHECKPOINT" /\ Lifecycle[6] = "EXIT"
        BY DEF Lifecycle
      <3>2. \A i \in 1..6 : i \in {1, 2, 3, 4, 5, 6}
        OBVIOUS
      <3> QED
        BY <2>3, <3>1, <3>2
    <2>5. level[l].result = "OK" /\ level[l].commit = start + l /\ Len(commits) >= l
      BY <1>1, <2>2, HandoffCommitted DEF IInv
    <2>6. /\ start \in Nat /\ Len(commits) \in Nat /\ commits \in Seq(Checkpoints)
          /\ l \in 1..Len(commits)
      BY <1>1, <2>2, <2>5, HeadType DEF IInv, Core, Typed, TypeOK, Level
    <2>7. level[l].commit - start = l
      BY <2>5, <2>6
    <2>8. commits[l].lv = l
      BY <1>1, <2>6 DEF IInv, Core, OnDisk
    <2> QED
      BY <2>4, <2>5, <2>6, <2>7, <2>8
  <1> QED
    BY <1>1, Invariance, PTL

-----------------------------------------------------------------------------
(* The Gate implements its plan of levels *)

\* Nothing but the sealing of an event touches the events.
LEMMA EventsKept ==
    ASSUME Typed, [Next]_vars, ~Seals
    PROVE  \A l \in Level : level'[l].events = level[l].events
  <1>1. level \in [Level -> Evidence]
    BY DEF Typed, TypeOK
  <1>2. CASE \/ SupervisorStep \/ Lineages \/ RehydratePackage \/ PackageRefused \/ Preflights
             \/ (Workers /\ ~WriteResult) \/ (Closings /\ ~WriteHandoff) \/ RunnerStep
    BY <1>2, KeptSteps DEF Kept
  <1>3. CASE CreatePackage
    BY <1>1, <1>3 DEF CreatePackage, Evidence
  <1>4. CASE WriteResult
    <2>1. \/ level' = level
          \/ level' = [level EXCEPT ![gate.lv].result = "OK", ![gate.lv].commit = HEAD]
      BY <1>4 DEF WriteResult
    <2>2. CASE level' = [level EXCEPT ![gate.lv].result = "OK", ![gate.lv].commit = HEAD]
      BY <1>1, <2>2 DEF Evidence
    <2> QED
      BY <2>1, <2>2
  <1>5. ASSUME NEW l, NEW v, Put(l, "handoff", v) \/ Put(l, "torn", v) \/ Put(l, "result", v)
        PROVE  \A m \in Level : level'[m].events = level[m].events
    <2>1. ASSUME NEW field \in {"handoff", "torn", "result"}, Put(l, field, v)
          PROVE  \A m \in Level : level'[m].events = level[m].events
      BY <1>1, <2>1 DEF Put, Evidence
    <2> QED
      BY <1>5, <2>1
  <1>6. CASE WriteHandoff
    BY <1>5, <1>6 DEF WriteHandoff
  <1>7. CASE Crash \/ Timeout
    <2>1. \/ level' = level \/ Put(gate.lv, "torn", TRUE) \/ Put(gate.lv, "result", "TORN")
          \/ level' = [level EXCEPT ![gate.lv].package = "PARTIAL", ![gate.lv].source = HEAD]
      BY <1>7 DEF Crash, Timeout, TornWrite
    <2>2. CASE level' = [level EXCEPT ![gate.lv].package = "PARTIAL", ![gate.lv].source = HEAD]
      BY <1>1, <2>2 DEF Evidence
    <2> QED
      BY <1>5, <2>1, <2>2
  <1>8. CASE UNCHANGED vars
    BY <1>8 DEF vars
  <1> QED
    BY <1>2, <1>3, <1>4, <1>6, <1>7, <1>8 DEF Next, GateStep, Packages, Workers, Closings, Settled

\* Nothing but git commit of a new checkpoint touches the commits.
LEMMA CommitsKept ==
    ASSUME [Next]_vars, ~CommitCheckpoint
    PROVE  commits' = commits
  BY DEF Next, GateStep, Lineages, Seals, Packages, Preflights, Workers, Closings,
     SupervisorStep, RunnerStep, ExecuteGate, BeginLevel, ExitGate, CompleteLevel,
     SealPackage, SealPreflight, SealWorker, SealReview, SealCheckpoint, SealExit, SealHandoff, Seal,
     CreatePackage, RehydratePackage, PackageRefused, PreflightResumed, PreflightRun, Resumed,
     WorkerResumed, WorkerResult, WorkerRequest, ExecuteWorker, SpawnRunner, TurnAnswered,
     CollectChanges, Validate, WriteResult, ReviewResumed, Review, CheckpointResumed, Checkpoint,
     ExitResumed, ExitLevel, WriteHandoff, Launch, PreflightBlocked, HandleFailure, RunnerAccept,
     RunnerOpen, RunnerWrite, RunnerEnd, RunnerAcceptTimeout, Crash, Timeout, Settled, vars, disk

\* The Gate exits, for good, when it has no level left.
LEMMA ExitedKept ==
    ASSUME Typed, Supervised, [Next]_vars, ~ExitGate
    PROVE  (sup.state = "EXITED")' <=> sup.state = "EXITED"
  <1>1. sup \in QueueItem
    BY DEF Typed, TypeOK
  <1>2. CASE Launch \/ PreflightBlocked
    BY <1>1, <1>2 DEF Launch, PreflightBlocked, QueueItem
  <1>3. CASE HandleFailure \/ Crash \/ Timeout
    <2>1. sup.state = "RUNNING"
      BY <1>3 DEF HandleFailure, Crash, Timeout, Supervised
    <2>2. sup'.state \in {"READY", "BLOCKED"}
      BY <1>1, <1>3 DEF HandleFailure, Crash, Timeout, Retried, QueueItem
    <2> QED
      BY <2>1, <2>2
  <1>4. CASE sup' = sup
    BY <1>4
  <1> QED
    BY <1>2, <1>3, <1>4
       DEF Next, GateStep, Lineages, Seals, Packages, Preflights, Workers, Closings,
     SupervisorStep, RunnerStep, ExecuteGate, BeginLevel, CompleteLevel,
     SealPackage, SealPreflight, SealWorker, SealReview, SealCheckpoint, SealExit, SealHandoff, Seal,
     CreatePackage, RehydratePackage, PackageRefused, PreflightResumed, PreflightRun, Resumed,
     WorkerResumed, WorkerResult, WorkerRequest, ExecuteWorker, SpawnRunner, TurnAnswered,
     CollectChanges, Validate, CommitCheckpoint, WriteResult, ReviewResumed, Review,
     CheckpointResumed, Checkpoint, ExitResumed, ExitLevel, WriteHandoff, RunnerAccept,
     RunnerOpen, RunnerWrite, RunnerEnd, RunnerAcceptTimeout, Settled, vars, history

\* The size of an initial segment of the levels.
LEMMA SegmentSize ==
    ASSUME NEW n \in Nat
    PROVE  Cardinality(1..n) = n
  BY FS_Interval

\* The handed levels are the committed ones, or all of them but the last.
HandedIsCommitted ==
  /\ HandedCount \in Nat /\ Len(commits) \in Nat
  /\ \/ HandedCount = Len(commits)
        /\ \A l \in Level : Sealed(l, "HANDOFF") <=> l <= Len(commits)
     \/ HandedCount = Len(commits) - 1
        /\ \A l \in Level : Sealed(l, "HANDOFF") <=> l <= Len(commits) - 1

\* It follows from the evidence on disk.
LEMMA HandedCounted == Core => HandedIsCommitted
  <1> SUFFICES ASSUME Core PROVE HandedIsCommitted
    OBVIOUS
  <1> DEFINE c == Len(commits)
             H == {l \in Level : Sealed(l, "HANDOFF")}
  <1>1. c \in Nat /\ c <= N
    BY HeadType DEF Core, Typed, OnDisk
  <1>2. \A l \in H : l <= c
    <2>1. ASSUME NEW l \in Level, Sealed(l, "HANDOFF") PROVE Len(commits) >= l
      <3>1. Sealed(l, "EXIT")
        BY <2>1 DEF Core, OnDisk, Chained
      <3> QED
        BY <3>1, HandoffCommitted
    <2> QED
      BY <1>1, <2>1 DEF Level
  <1>3. \A m \in 1..(c - 1) : m \in H
    <2>1. CASE c = 0
      BY <2>1
    <2>2. CASE c # 0
      <3>1. c \in Level
        BY <1>1, <2>2 DEF Level
      <3>2. level[c].package = "SEALED"
        BY <1>1, <3>1 DEF Core, OnDisk, Backed
      <3>3. \A m \in 1..(c - 1) : Sealed(m, "HANDOFF")
        BY <3>1, <3>2 DEF Core, OnDisk, Backed
      <3> QED
        BY <3>1, <3>3, StageNames
    <2> QED
      BY <2>1, <2>2
  <1>4. CASE c \in H \/ c = 0
    <2>1. H = 1..c
      BY <1>1, <1>2, <1>3, <1>4 DEF Level
    <2>2. Cardinality(1..c) = c
      BY <1>1, SegmentSize
    <2>3. \A l \in Level : Sealed(l, "HANDOFF") <=> l <= c
      BY <1>1, <2>1 DEF Level
    <2> QED
      BY <1>1, <2>1, <2>2, <2>3 DEF HandedCount, HandedIsCommitted
  <1>5. CASE c \notin H /\ c # 0
    <2>1. H = 1..(c - 1)
      BY <1>1, <1>2, <1>3, <1>5 DEF Level
    <2>2. Cardinality(1..(c - 1)) = c - 1 /\ c - 1 \in Nat
      <3>1. c - 1 \in Nat
        BY <1>1, <1>5
      <3> QED
        BY <3>1, SegmentSize
    <2>3. \A l \in Level : Sealed(l, "HANDOFF") <=> l <= c - 1
      BY <1>1, <2>1 DEF Level
    <2> QED
      BY <1>1, <2>1, <2>2, <2>3 DEF HandedCount, HandedIsCommitted
  <1> QED
    BY <1>4, <1>5

\* Steps that seal no HANDOFF leave the number of handed levels.
LEMMA HandedKept ==
    ASSUME \A l \in Level : Sealed(l, "HANDOFF")' <=> Sealed(l, "HANDOFF")
    PROVE  HandedCount' = HandedCount
  BY DEF HandedCount

\* Every step of the Gate is a step of the plan of its levels, or changes nothing
\* the plan speaks of.
LEMMA PlanStep == IInv /\ IInv' /\ [Next]_vars => [Levels!Next]_(Levels!levelVars)
  <1> SUFFICES ASSUME IInv, IInv', [Next]_vars PROVE [Levels!Next]_(Levels!levelVars)
    OBVIOUS
  <1> USE DEF Levels!levelVars
  <1>1. Core /\ Core' /\ Typed /\ Supervised
    BY DEF IInv, Core
  <1>2. ASSUME ~Seals \/ (Seals /\ ~SealHandoff)
        PROVE  HandedCount' = HandedCount
    <2>1. CASE ~Seals
      <3>1. \A l \in Level : level'[l].events = level[l].events
        BY <1>1, <2>1, EventsKept
      <3>2. \A l \in Level : Sealed(l, "HANDOFF")' <=> Sealed(l, "HANDOFF")
        BY <3>1 DEF Sealed
      <3> QED
        BY <3>2, HandedKept
    <2>2. CASE Seals /\ ~SealHandoff
      <3>1. PICK pc, stage, next :
              /\ Seal(pc, stage, next) /\ pc \in Sealing
              /\ stage \in {"PACKAGE", "PREFLIGHT", "WORKER", "REVIEW", "CHECKPOINT", "EXIT"}
        BY <2>2 DEF Seals, SealPackage, SealPreflight, SealWorker, SealReview,
           SealCheckpoint, SealExit, Sealing
      <3>2. gate.lv \in Level
        BY <1>1, <3>1 DEF Seal, GateAt, Sealing, InLevel, Typed, Packaged, PastPackage, PastPreflight,
           PastWorker, PastReview, PastCheckpoint, PastExit
      <3>3. \A l \in Level, s \in Stage :
              Sealed(l, s)' <=> Sealed(l, s) \/ (l = gate.lv /\ s = stage)
        BY <1>1, <3>1, <3>2, SealedNext, StageNames
      <3>4. \A l \in Level : Sealed(l, "HANDOFF")' <=> Sealed(l, "HANDOFF")
        BY <3>1, <3>3, StageNames
      <3> QED
        BY <3>4, HandedKept
    <2> QED
      BY <1>2, <2>1, <2>2
  <1>3. CASE ~CommitCheckpoint /\ ~SealHandoff /\ ~ExitGate
    BY <1>1, <1>2, <1>3, CommitsKept, ExitedKept
  <1>4. CASE CommitCheckpoint
    <2>1. gate.pc = "commit" /\ gate.lv \in Level
      BY <1>1, <1>4 DEF CommitCheckpoint, GateAt, Typed, InLevel, Packaged, PastPackage, PastPreflight,
         Executing
    <2>2. ~Seals /\ ~ExitGate
      BY <2>1 DEF Seals, SealPackage, SealPreflight, SealWorker, SealReview, SealCheckpoint, SealExit,
         SealHandoff, Seal, GateAt, ExitGate
    <2>3. HandedCount' = HandedCount /\ ((sup.state = "EXITED")' <=> sup.state = "EXITED")
      BY <1>1, <1>2, <2>2, ExitedKept
    <2>4. CASE ~NeedsCommit(gate.lv)
      BY <1>4, <2>3, <2>4 DEF CommitCheckpoint
    <2>5. CASE NeedsCommit(gate.lv)
      <3>1. /\ level[gate.lv].source = start + gate.lv - 1
            /\ \A m \in 1..(gate.lv - 1) : Sealed(m, "HANDOFF")
        BY <1>1, <2>1 DEF Core, OnDisk, Backed, InProgress, Packaged, PastPackage, PastPreflight,
           Executing, InLevel
      <3>2. start \in Nat /\ Len(commits) \in Nat /\ gate.lv \in Nat /\ gate.lv \in 1..N
        BY <1>1, <2>1, HeadType DEF Typed, Level
      <3>3. Len(commits) = gate.lv - 1
        BY <2>5, <3>1, <3>2 DEF NeedsCommit, HEAD
      <3>4. HandedCount = Len(commits)
        <4>1. CASE gate.lv = 1
          BY <1>1, <3>3, <4>1, HandedCounted DEF HandedIsCommitted
        <4>2. CASE gate.lv # 1
          <5>1. gate.lv - 1 \in Level /\ Sealed(gate.lv - 1, "HANDOFF")
            BY <3>1, <3>2, <4>2 DEF Level
          <5> QED
            BY <1>1, <3>2, <3>3, <5>1, HandedCounted DEF HandedIsCommitted
        <4> QED
          BY <4>1, <4>2
      <3>5. Len(commits') = Len(commits) + 1
        BY <1>1, <1>4, <2>5 DEF CommitCheckpoint, Typed, TypeOK
      <3>6. Levels!CommitLevel
        BY <2>3, <3>2, <3>3, <3>4, <3>5 DEF Levels!CommitLevel
      <3> QED
        BY <3>6 DEF Levels!Next
    <2> QED
      BY <2>4, <2>5
  <1>5. CASE SealHandoff
    <2>1. gate.pc = "seal_handoff" /\ gate.lv \in Level
      BY <1>1, <1>5 DEF SealHandoff, Seal, GateAt, Typed, InLevel, Packaged, PastPackage, PastPreflight,
         PastWorker, PastReview, PastCheckpoint, PastExit
    <2>2. ~CommitCheckpoint /\ ~ExitGate
      BY <2>1 DEF CommitCheckpoint, ExitGate, GateAt
    <2>3. commits' = commits /\ ((sup.state = "EXITED")' <=> sup.state = "EXITED")
      BY <1>1, <2>2, CommitsKept, ExitedKept
    <2>4. \A l \in Level : Sealed(l, "HANDOFF")' <=> Sealed(l, "HANDOFF") \/ l = gate.lv
      BY <1>1, <1>5, <2>1, SealedNext, StageNames DEF SealHandoff
    <2>5. CASE Sealed(gate.lv, "HANDOFF")
      <3>1. \A l \in Level : Sealed(l, "HANDOFF")' <=> Sealed(l, "HANDOFF")
        BY <2>4, <2>5
      <3> QED
        BY <2>3, <3>1, HandedKept
    <2>6. CASE ~Sealed(gate.lv, "HANDOFF")
      <3>1. Len(commits) \in {gate.lv - 1, gate.lv} /\ Sealed(gate.lv, "EXIT")
        BY <1>1, <2>1 DEF Core, InProgress, Passed, PastExit, InLevel, Packaged, PastPackage, PastPreflight,
           PastWorker, PastReview, PastCheckpoint
      <3>2. Len(commits) = gate.lv /\ gate.lv \in Nat
        BY <1>1, <2>1, <3>1, HandoffCommitted DEF Level
      <3>3. HandedCount = Len(commits) - 1
        BY <1>1, <2>1, <2>6, <3>2, HandedCounted DEF HandedIsCommitted
      <3>4. HandedCount' = Len(commits)
        <4>1. \A l \in Level : l = gate.lv => Sealed(l, "HANDOFF")'
          BY <2>4
        <4>2. HandedIsCommitted'
          BY <1>1, HandedCounted, PTL
        <4> QED
          BY <2>1, <2>3, <3>2, <4>1, <4>2 DEF HandedIsCommitted
      <3>5. Levels!HandOff
        BY <2>3, <3>2, <3>3, <3>4 DEF Levels!HandOff
      <3> QED
        BY <3>5 DEF Levels!Next
    <2> QED
      BY <2>5, <2>6
  <1>6. CASE ExitGate
    <2>1. gate.pc = "level" /\ gate.done = N /\ sup'.state = "EXITED"
      BY <1>1, <1>6 DEF ExitGate, GateAt, Typed, TypeOK, QueueItem
    <2>2. ~Seals /\ ~CommitCheckpoint
      BY <2>1 DEF Seals, SealPackage, SealPreflight, SealWorker, SealReview, SealCheckpoint, SealExit,
         SealHandoff, Seal, GateAt, CommitCheckpoint
    <2>3. HandedCount' = HandedCount /\ commits' = commits
      BY <1>2, <2>2, CommitsKept
    <2>4. N \in Level /\ Sealed(N, "HANDOFF") /\ Len(commits) <= N
      BY <1>1, <2>1, GateAssumption DEF Core, InProgress, OnDisk, Level
    <2>5. HandedCount = N
      BY <1>1, <2>4, HandedCounted, GateAssumption DEF HandedIsCommitted
    <2>6. Levels!Exit
      BY <2>1, <2>3, <2>5 DEF Levels!Exit
    <2> QED
      BY <2>6 DEF Levels!Next
  <1> QED
    BY <1>3, <1>4, <1>5, <1>6

\* The Gate implements the plan of its levels: they are committed one at a time
\* and in order, each after the handoff of the one before, nothing is taken back,
\* and the Gate exits with its last level handed off.
THEOREM GateImplementsLevelPlan == Spec => ImplementsLevelPlan
  <1>1. Init => Levels!Init
    <2> SUFFICES ASSUME Init PROVE Levels!Init
      OBVIOUS
    <2>1. Core /\ Len(commits) = 0 /\ sup.state = "READY"
      BY CoreInit DEF Init
    <2>2. HandedCount = 0
      BY <2>1, HandedCounted DEF HandedIsCommitted
    <2> QED
      BY <2>1, <2>2 DEF Levels!Init
  <1> QED
    BY <1>1, PlanStep, Invariance, PTL DEF Spec, ImplementsLevelPlan, Levels!Spec

-----------------------------------------------------------------------------
(* The theorems that hold until a Gate is terminated by its timeout *)

\* Timeouts are counted and never forgotten.
LEMMA NoTimeoutBefore ==
    ASSUME Typed, [Next]_vars, faults'.timeouts = 0
    PROVE  faults.timeouts = 0 /\ ~Timeout
  <1>1. faults \in [crashes : Nat, timeouts : Nat]
    BY DEF Typed, TypeOK
  <1>2. CASE Timeout
    <2>1. faults'.timeouts = faults.timeouts + 1 /\ faults.timeouts \in Nat
      BY <1>1, <1>2 DEF Timeout
    <2> QED
      BY <2>1
  <1>3. CASE Crash
    <2>1. faults'.timeouts = faults.timeouts
      BY <1>1, <1>3 DEF Crash
    <2> QED
      BY <1>2, <2>1
  <1>4. CASE ~Timeout /\ ~Crash
    <2>1. faults' = faults
      BY <1>4 DEF Next, GateStep, Lineages, Seals, Packages, Preflights, Workers, Closings,
     SupervisorStep, RunnerStep, ExecuteGate, BeginLevel, ExitGate, CompleteLevel,
     SealPackage, SealPreflight, SealWorker, SealReview, SealCheckpoint, SealExit, SealHandoff, Seal,
     CreatePackage, RehydratePackage, PackageRefused, PreflightResumed, PreflightRun, Resumed,
     WorkerResumed, WorkerResult, WorkerRequest, ExecuteWorker, SpawnRunner, TurnAnswered,
     CollectChanges, Validate, CommitCheckpoint, WriteResult, ReviewResumed, Review,
     CheckpointResumed, Checkpoint, ExitResumed, ExitLevel, WriteHandoff, Launch, PreflightBlocked,
     HandleFailure, RunnerAccept, RunnerOpen, RunnerWrite, RunnerEnd, RunnerAcceptTimeout, Settled,
     vars, history
    <2> QED
      BY <1>4, <2>1
  <1> QED
    BY <1>2, <1>3, <1>4

\* The worker result of a level is written by WriteResult only, or torn by a kill.
LEMMA ResultKept ==
    ASSUME Typed, [Next]_vars, ~WriteResult, ~Crash, ~Timeout
    PROVE  \A l \in Level : level'[l].result = level[l].result
  <1>1. level \in [Level -> Evidence]
    BY DEF Typed, TypeOK
  <1>2. CASE \/ SupervisorStep \/ Lineages \/ RehydratePackage \/ PackageRefused \/ Preflights
             \/ (Workers /\ ~WriteResult) \/ (Closings /\ ~WriteHandoff) \/ RunnerStep
    BY <1>2, KeptSteps DEF Kept
  <1>3. CASE CreatePackage
    BY <1>1, <1>3 DEF CreatePackage, Evidence
  <1>4. ASSUME NEW l, NEW v, Put(l, "handoff", v) \/ Put(l, "events", v)
        PROVE  \A m \in Level : level'[m].result = level[m].result
    <2>1. ASSUME NEW field \in {"handoff", "events"}, Put(l, field, v)
          PROVE  \A m \in Level : level'[m].result = level[m].result
      BY <1>1, <2>1 DEF Put, Evidence
    <2> QED
      BY <1>4, <2>1
  <1>5. CASE WriteHandoff
    BY <1>4, <1>5 DEF WriteHandoff
  <1>6. CASE Seals
    BY <1>4, <1>6 DEF Seals, SealPackage, SealPreflight, SealWorker, SealReview,
       SealCheckpoint, SealExit, SealHandoff, Seal
  <1>7. CASE UNCHANGED vars
    BY <1>7 DEF vars
  <1> QED
    BY <1>2, <1>3, <1>5, <1>6, <1>7 DEF Next, GateStep, Packages, Settled

\* The checkpoint is committed right after the validations.
LEMMA CommitEntry ==
    ASSUME Typed, Supervised, (GateStep \/ SupervisorStep) /\ ~SpawnRunner, gate'.pc = "commit"
    PROVE  Validate
  <1>1. gate \in GateState
    BY DEF Typed, TypeOK
  <1>2. ~\E pc \in PCs \ {"commit"} : Goto(pc)
    BY <1>1, Moved
  <1>3. PCs \ {"commit"} = {"off", "execute", "level", "package", "preflight", "worker", "work", "spawn",
          "turn", "answer", "collect", "validate", "result", "review",
          "checkpoint", "exit", "handoff", "complete", "raised", "artifact",
          "seal_package", "seal_preflight", "seal_worker", "seal_review",
          "seal_checkpoint", "seal_exit", "seal_handoff"}
    BY DEF PCs, Sealing
  <1>4. CASE Lineages \/ SupervisorStep
    BY <1>1, <1>2, <1>3, <1>4, GoneType DEF Lineages, ExecuteGate, BeginLevel, ExitGate, CompleteLevel,
       SupervisorStep, Launch, PreflightBlocked, HandleFailure, Raise, GateState, Supervised
  <1>5. CASE Seals \/ Packages \/ Preflights \/ Closings
    BY <1>1, <1>2, <1>3, <1>5 DEF Seals, Packages, Preflights, Closings, SealPackage, SealPreflight,
       SealWorker, SealReview, SealCheckpoint, SealExit, SealHandoff, Seal, CreatePackage,
       RehydratePackage, PackageRefused, PreflightResumed, PreflightRun, Resumed,
       ReviewResumed, Review, CheckpointResumed, Checkpoint,
       ExitResumed, ExitLevel, WriteHandoff, Raise, RaiseArtifact, GateState
  <1>6. CASE Workers
    <2>1. ~CollectChanges
      BY <1>1, <1>2, <1>3 DEF CollectChanges, Raise, GateState
    <2> QED
      BY <1>2, <1>3, <1>6, <2>1 DEF Workers, WorkerResumed,
         WorkerResult, WorkerRequest, ExecuteWorker, TurnAnswered, Resumed,
         CommitCheckpoint, WriteResult, Raise
  <1> QED
    BY <1>4, <1>5, <1>6 DEF GateStep

\* Without timeouts a host runner never outlives the Gate process that waits for
\* it, so the worktree of a level is left alone from its validation on.
LEMMA AttendedStep == IInv /\ Attended /\ [Next]_vars => Attended'
  <1> SUFFICES ASSUME IInv, Attended, [Next]_vars, faults'.timeouts = 0
               PROVE  /\ runner'.on # "off" => gate'.pc = "turn" /\ runner'.lv = gate'.lv
                      /\ \A l \in Level : level'[l].result # "NONE" => ~Dirty(l)'
                      /\ gate'.pc = "commit" => gate'.tested = tree'[gate'.lv]
    BY DEF Attended
  <1>1. Core /\ Supervised /\ Typed /\ faults.timeouts = 0 /\ ~Timeout
    BY NoTimeoutBefore DEF IInv, Core
  <1>2. /\ gate \in GateState /\ runner \in Runner /\ tree \in [Level -> Edits]
        /\ level \in [Level -> Evidence]
    BY <1>1 DEF Typed, TypeOK
  <1>3. /\ runner.on # "off" => gate.pc = "turn" /\ runner.lv = gate.lv
        /\ \A l \in Level : level[l].result # "NONE" => ~Dirty(l)
        /\ gate.pc = "commit" => gate.tested = tree[gate.lv]
    BY <1>1 DEF Attended
  <1>4. gate.pc = "turn" => gate.lv \in Level /\ level[gate.lv].result = "NONE"
    BY <1>1 DEF Typed, Core, InProgress, InLevel, Packaged, PastPackage, PastPreflight, Executing
  <1>5. ASSUME tree' = tree PROVE \A l \in Level : Dirty(l)' <=> Dirty(l)
    BY <1>5 DEF Dirty, Touched
  <1>6. CASE RunnerStep
    <2>1. gate.pc = "turn" /\ runner.lv = gate.lv /\ runner.on # "off"
      BY <1>3, <1>6 DEF RunnerStep, RunnerAccept, RunnerOpen, RunnerWrite, RunnerEnd, RunnerAcceptTimeout
    <2>2. /\ \/ runner'.on = "off" \/ runner'.lv = runner.lv
          /\ \/ gate' = gate \/ (runner'.on = "off" /\ \E pc \in {"raised", "answer"} : Goto(pc))
      BY <1>2, <1>6, <2>1, GoneType DEF RunnerStep, RunnerAccept, RunnerOpen, RunnerWrite, RunnerEnd,
         RunnerAcceptTimeout, RunnerGone, Raise, GateAt, Runner
    <2>3. \A l \in Level : level'[l].result = level[l].result
      BY <1>1, <1>6, KeptSteps DEF Kept
    <2>4. \A l \in Level \ {gate.lv} : tree'[l] = tree[l]
      BY <1>2, <1>6, <2>1 DEF RunnerStep, RunnerAccept, RunnerOpen, RunnerWrite, RunnerEnd,
         RunnerAcceptTimeout, disk
    <2>5. \A l \in Level \ {gate.lv} : Dirty(l)' <=> Dirty(l)
      BY <2>4 DEF Dirty, Touched
    <2>6. gate'.pc # "commit"
      BY <1>2, <2>1, <2>2, Moved DEF PCs
    <2> QED
      BY <1>3, <1>4, <2>1, <2>2, <2>3, <2>5, <2>6
  <1>7. CASE Crash
    <2>1. runner'.on = "off" /\ gate'.pc = "off" /\ tree' = tree
      BY <1>7, GoneType DEF Crash
    <2>2. ASSUME NEW l \in Level, level'[l].result # "NONE", Dirty(l) PROVE FALSE
      <3>1. level[l].result = "NONE"
        BY <1>3, <2>2
      <3>2. \/ level' = level \/ Put(gate.lv, "torn", TRUE)
            \/ Clean /\ Put(gate.lv, "result", "TORN")
            \/ level' = [level EXCEPT ![gate.lv].package = "PARTIAL", ![gate.lv].source = HEAD]
        BY <1>7 DEF Crash, TornWrite
      <3>3. ~Clean
        BY <2>2 DEF Clean
      <3>4. level'[l].result = level[l].result
        <4>1. CASE Put(gate.lv, "torn", TRUE)
          BY <1>2, <4>1 DEF Put, Evidence
        <4>2. CASE level' = [level EXCEPT ![gate.lv].package = "PARTIAL", ![gate.lv].source = HEAD]
          BY <1>2, <4>2 DEF Evidence
        <4> QED
          BY <3>2, <3>3, <4>1, <4>2
      <3> QED
        BY <2>2, <3>1, <3>4
    <2> QED
      BY <1>5, <2>1, <2>2
  <1>8. CASE UNCHANGED vars
    BY <1>3, <1>5, <1>8 DEF vars
  <1>9. CASE SpawnRunner
    <2>1. gate'.pc = "turn" /\ gate'.lv = gate.lv
      BY <1>2, <1>9, Moved DEF SpawnRunner, PCs
    <2>2. runner'.lv = gate.lv
      BY <1>9 DEF SpawnRunner
    <2> QED
      BY <1>3, <1>5, <1>9, <2>1, <2>2 DEF SpawnRunner, disk
  <1>10. CASE (GateStep \/ SupervisorStep) /\ ~SpawnRunner /\ ~Crash
    <2>1. gate.pc # "turn"
      BY <1>1, <1>10 DEF GateStep, Lineages, Seals, Packages, Preflights, Workers, Closings,
         SupervisorStep, ExecuteGate, BeginLevel, ExitGate, CompleteLevel, SealPackage, SealPreflight,
         SealWorker, SealReview, SealCheckpoint, SealExit, SealHandoff, Seal, CreatePackage,
         RehydratePackage, PackageRefused, PreflightResumed, PreflightRun, Resumed, WorkerResumed,
         WorkerResult, WorkerRequest, ExecuteWorker, TurnAnswered, CollectChanges, Validate,
         CommitCheckpoint, WriteResult, ReviewResumed, Review, CheckpointResumed, Checkpoint,
         ExitResumed, ExitLevel, WriteHandoff, Launch, PreflightBlocked, HandleFailure,
         GateAt, Supervised
    <2>2. runner' = runner
      BY <1>10 DEF GateStep, Lineages, Seals, Packages, Preflights, Workers, Closings,
         SupervisorStep, ExecuteGate, BeginLevel, ExitGate, CompleteLevel, SealPackage, SealPreflight,
         SealWorker, SealReview, SealCheckpoint, SealExit, SealHandoff, Seal, CreatePackage,
         RehydratePackage, PackageRefused, PreflightResumed, PreflightRun, Resumed, WorkerResumed,
         WorkerResult, WorkerRequest, ExecuteWorker, TurnAnswered, CollectChanges, Validate,
         CommitCheckpoint, WriteResult, ReviewResumed, Review, CheckpointResumed, Checkpoint,
         ExitResumed, ExitLevel, WriteHandoff, Launch, PreflightBlocked, HandleFailure,
         processes
    <2>3. tree' = tree \/ CommitCheckpoint
      BY <1>10 DEF GateStep, Lineages, Seals, Packages, Preflights, Workers, Closings,
         SupervisorStep, ExecuteGate, BeginLevel, ExitGate, CompleteLevel, SealPackage, SealPreflight,
         SealWorker, SealReview, SealCheckpoint, SealExit, SealHandoff, Seal, CreatePackage,
         RehydratePackage, PackageRefused, PreflightResumed, PreflightRun, Resumed, WorkerResumed,
         WorkerResult, WorkerRequest, ExecuteWorker, TurnAnswered, CollectChanges, Validate,
         CommitCheckpoint, WriteResult, ReviewResumed, Review, CheckpointResumed, Checkpoint,
         ExitResumed, ExitLevel, WriteHandoff, Launch, PreflightBlocked, HandleFailure, disk
    <2>4. gate'.pc = "commit" => Validate
      BY <1>1, <1>2, <1>10, CommitEntry
    <2>5. CASE CommitCheckpoint
      <3>1. ASSUME NEW l \in Level, Dirty(l)' PROVE Dirty(l)
        <4>1. \A f \in Files : tree'[l][f] > 0 => tree[l][f] > 0
          <5>1. \/ tree' = tree
                \/ tree' = [tree EXCEPT ![gate.lv] = Only(tree[gate.lv], Files \ gate.changed)]
            BY <2>5 DEF CommitCheckpoint
          <5> QED
            BY <1>2, <5>1 DEF Only
        <4> QED
          BY <3>1, <4>1 DEF Dirty, Touched
      <3>2. ~WriteResult /\ ~Crash /\ ~Validate
        BY <2>5, <1>1 DEF CommitCheckpoint, WriteResult, Crash, Validate, GateAt, history, IInv
      <3> QED
        BY <1>1, <1>3, <2>1, <2>2, <2>4, <3>1, <3>2, ResultKept
    <2>6. CASE tree' = tree
      <3>1. ASSUME NEW l \in Level, level'[l].result # "NONE", Dirty(l) PROVE FALSE
        <4>1. level[l].result = "NONE" /\ ~Clean
          BY <1>3, <3>1 DEF Clean
        <4>2. CASE WriteResult
          BY <3>1, <4>1, <4>2 DEF WriteResult
        <4>3. CASE ~WriteResult
          <5>1. ~Crash
            BY <1>10
          <5> QED
            BY <1>1, <3>1, <4>1, <4>3, <5>1, ResultKept
        <4> QED
          BY <4>2, <4>3
      <3>2. CASE Validate
        <4>1. gate' = [gate EXCEPT !.pc = "commit", !.tested = tree[gate.lv]] \/ Goto("raised")
          BY <3>2 DEF Validate, Raise
        <4>2. gate'.pc = "commit" => gate'.tested = tree[gate.lv] /\ gate'.lv = gate.lv
          BY <1>2, <4>1, Moved DEF GateState, PCs
        <4> QED
          BY <1>3, <1>5, <2>1, <2>2, <2>6, <3>1, <4>2
      <3> QED
        BY <1>3, <1>5, <2>1, <2>2, <2>4, <2>6, <3>1, <3>2
    <2> QED
      BY <2>3, <2>5, <2>6
  <1> QED
    BY <1>1, <1>6, <1>7, <1>8, <1>9, <1>10 DEF Next, Settled

\* No process runs initially.
LEMMA AttendedInit == Init => Attended
  BY GoneType DEF Init, Untouched, Attended

\* The stages by their number.
LEMMA StageNumbers ==
    /\ Lifecycle \in Seq(Stage) /\ Len(Lifecycle) = 7 /\ DOMAIN Lifecycle = 1..7
    /\ Lifecycle[1] = "PACKAGE" /\ Lifecycle[2] = "PREFLIGHT" /\ Lifecycle[3] = "WORKER"
    /\ Lifecycle[4] = "REVIEW" /\ Lifecycle[5] = "CHECKPOINT" /\ Lifecycle[6] = "EXIT"
    /\ Lifecycle[7] = "HANDOFF"
    /\ \A i, j \in 1..7 : Lifecycle[i] = Lifecycle[j] => i = j
  <1>1. /\ Len(Lifecycle) = 7 /\ DOMAIN Lifecycle = 1..7
        /\ Lifecycle[1] = "PACKAGE" /\ Lifecycle[2] = "PREFLIGHT" /\ Lifecycle[3] = "WORKER"
        /\ Lifecycle[4] = "REVIEW" /\ Lifecycle[5] = "CHECKPOINT" /\ Lifecycle[6] = "EXIT"
        /\ Lifecycle[7] = "HANDOFF"
    BY DEF Lifecycle
  <1>2. Lifecycle \in Seq(Stage)
    BY StageNames DEF Lifecycle
  <1>3. 1..7 = {1, 2, 3, 4, 5, 6, 7}
    OBVIOUS
  <1>4. \A i, j \in {1, 2, 3, 4, 5, 6, 7} : Lifecycle[i] = Lifecycle[j] => i = j
    BY <1>1
  <1> QED
    BY <1>1, <1>2, <1>3, <1>4

\* A prefix of the lifecycle goes on with the stage of the next number.
LEMMA PrefixAppend ==
    ASSUME NEW s \in Seq(Stage), Prefix(s, Lifecycle), NEW k \in 1..7, Len(s) = k - 1
    PROVE  Prefix(Append(s, Lifecycle[k]), Lifecycle)
  <1>1. Lifecycle[k] \in Stage
    BY StageNumbers DEF Stage
  <1>2. /\ Len(Append(s, Lifecycle[k])) = k /\ DOMAIN Append(s, Lifecycle[k]) = 1..k
        /\ \A i \in 1..(k - 1) : Append(s, Lifecycle[k])[i] = s[i]
        /\ Append(s, Lifecycle[k])[k] = Lifecycle[k]
        /\ DOMAIN s = 1..(k - 1)
    BY <1>1
  <1> QED
    BY <1>2, StageNumbers DEF Prefix

\* It holds exactly the stages up to its length.
LEMMA InPrefix ==
    ASSUME NEW s \in Seq(Stage), Prefix(s, Lifecycle), NEW k \in 1..7
    PROVE  (\E i \in DOMAIN s : s[i] = Lifecycle[k]) <=> k <= Len(s)
  <1>1. DOMAIN s = 1..Len(s) /\ Len(s) \in Nat /\ Len(s) <= 7
    BY StageNumbers DEF Prefix
  <1>2. \A i \in 1..Len(s) : s[i] = Lifecycle[i] /\ i \in 1..7
    BY <1>1 DEF Prefix
  <1> QED
    BY <1>1, <1>2, StageNumbers

\* A stage that is not among the records is due; one that is, is behind.
LEMMA StageDecided ==
    ASSUME Typed, gate.pc \in InLevel, Prefix(gate.records, Lifecycle), NEW k \in 0..6, Reached(k)
    PROVE  /\ ~InRecords(Lifecycle[k + 1]) => Due(k)
           /\ InRecords(Lifecycle[k + 1]) => Reached(k + 1)
  <1>1. gate.records \in Seq(Stage) /\ level[gate.lv].events \in Seq(Stage)
    BY DEF Typed, TypeOK, GateState, Evidence
  <1>2. InRecords(Lifecycle[k + 1]) <=> k + 1 <= Len(gate.records)
    BY <1>1, InPrefix DEF InRecords
  <1>3. Len(gate.records) \in Nat /\ Len(level[gate.lv].events) \in Nat
    BY <1>1
  <1> QED
    BY <1>2, <1>3 DEF Due, Reached

\* While the events and the records stay, so does the place in the chain.
LEMMA PlaceKept ==
    ASSUME Typed, gate.pc \in InLevel, gate'.lv = gate.lv, gate'.records = gate.records,
           \A l \in Level : level'[l].events = level[l].events
    PROVE  \A k : (Due(k)' <=> Due(k)) /\ (Reached(k)' <=> Reached(k))
  BY DEF Typed, Due, Reached

\* Sealing the event that is due keeps the chains, and the next stage is reached.
LEMMA SealPlaced ==
    ASSUME IInv, ChainFollowsLifecycle, Placed, NEW k \in 1..7, NEW pc \in Sealing,
           NEW next \in PCs, Seal(pc, Lifecycle[k], next), Due(k - 1)
    PROVE  /\ ChainFollowsLifecycle' /\ Reached(k)' /\ Prefix(gate'.records, Lifecycle)
           /\ gate'.pc = next
  <1>1. gate.pc \in InLevel
    BY DEF Seal, GateAt, Sealing, InLevel, Packaged, PastPackage, PastPreflight,
       PastWorker, PastReview, PastCheckpoint, PastExit
  <1>2. /\ gate.lv \in Level /\ gate \in GateState /\ level \in [Level -> Evidence]
    BY <1>1 DEF IInv, Core, Typed, TypeOK
  <1>3. /\ gate'.pc = next /\ gate'.lv = gate.lv /\ gate'.records = gate.records
    BY <1>2, Moved DEF Seal
  <1> DEFINE e == level[gate.lv].events
  <1>4. /\ e \in Seq(Stage) /\ gate.records \in Seq(Stage) /\ Lifecycle[k] \in Stage
    BY <1>2, StageNumbers DEF Evidence, GateState, Stage
  <1>5. level' = [level EXCEPT ![gate.lv]["events"] = Append(e, Lifecycle[k])]
    BY DEF Seal, Put
  <1>6. /\ level'[gate.lv].events = Append(e, Lifecycle[k])
        /\ \A l \in Level \ {gate.lv} : level'[l].events = level[l].events
    BY <1>2, <1>5 DEF Evidence
  <1>7. Len(e) = k - 1 /\ Len(gate.records) <= k - 1 /\ Len(gate.records) \in Nat
    BY <1>4 DEF Due
  <1>8. Prefix(e, Lifecycle) /\ Prefix(gate.records, Lifecycle)
    BY <1>1, <1>2 DEF ChainFollowsLifecycle, Placed
  <1>9. Prefix(Append(e, Lifecycle[k]), Lifecycle)
    BY <1>4, <1>7, <1>8, PrefixAppend
  <1>10. Len(Append(e, Lifecycle[k])) = k
    BY <1>4, <1>7
  <1>11. ChainFollowsLifecycle'
    BY <1>6, <1>8, <1>9 DEF ChainFollowsLifecycle
  <1>12. Len(level'[gate'.lv].events) = k
    BY <1>3, <1>6, <1>10
  <1>13. Reached(k)'
    BY <1>3, <1>7, <1>12 DEF Reached
  <1> QED
    BY <1>3, <1>8, <1>11, <1>13

\* The steps that seal keep the chains and the place in them.
LEMMA SealsPlaced ==
    ASSUME IInv, ChainFollowsLifecycle, Placed, Seals
    PROVE  (ChainFollowsLifecycle /\ Placed)'
  <1> USE SealPlaced, StageNumbers DEF Sealing, PCs
  <1>1. CASE SealPackage
    <2>1. Seal("seal_package", Lifecycle[1], "preflight") /\ Due(1 - 1)
      BY <1>1 DEF SealPackage, Seal, GateAt, Placed
    <2>2. ChainFollowsLifecycle' /\ Reached(1)' /\ Prefix(gate'.records, Lifecycle) /\ gate'.pc = "preflight"
      BY <2>1
    <2> QED
      BY <2>2 DEF Placed, Executing
  <1>2. CASE SealPreflight
    <2>1. Seal("seal_preflight", Lifecycle[2], "worker") /\ Due(2 - 1)
      BY <1>2 DEF SealPreflight, Seal, GateAt, Placed
    <2>2. ChainFollowsLifecycle' /\ Reached(2)' /\ Prefix(gate'.records, Lifecycle) /\ gate'.pc = "worker"
      BY <2>1
    <2> QED
      BY <2>2 DEF Placed, Executing
  <1>3. CASE SealWorker
    <2>1. Seal("seal_worker", Lifecycle[3], "review") /\ Due(3 - 1)
      BY <1>3 DEF SealWorker, Seal, GateAt, Placed
    <2>2. ChainFollowsLifecycle' /\ Reached(3)' /\ Prefix(gate'.records, Lifecycle) /\ gate'.pc = "review"
      BY <2>1
    <2> QED
      BY <2>2 DEF Placed, Executing
  <1>4. CASE SealReview
    <2>1. Seal("seal_review", Lifecycle[4], "checkpoint") /\ Due(4 - 1)
      BY <1>4 DEF SealReview, Seal, GateAt, Placed
    <2>2. ChainFollowsLifecycle' /\ Reached(4)' /\ Prefix(gate'.records, Lifecycle) /\ gate'.pc = "checkpoint"
      BY <2>1
    <2> QED
      BY <2>2 DEF Placed, Executing
  <1>5. CASE SealCheckpoint
    <2>1. Seal("seal_checkpoint", Lifecycle[5], "exit") /\ Due(5 - 1)
      BY <1>5 DEF SealCheckpoint, Seal, GateAt, Placed
    <2>2. ChainFollowsLifecycle' /\ Reached(5)' /\ Prefix(gate'.records, Lifecycle) /\ gate'.pc = "exit"
      BY <2>1
    <2> QED
      BY <2>2 DEF Placed, Executing
  <1>6. CASE SealExit
    <2>1. Seal("seal_exit", Lifecycle[6], "handoff") /\ Due(6 - 1)
      BY <1>6 DEF SealExit, Seal, GateAt, Placed
    <2>2. ChainFollowsLifecycle' /\ Reached(6)' /\ Prefix(gate'.records, Lifecycle) /\ gate'.pc = "handoff"
      BY <2>1
    <2> QED
      BY <2>2 DEF Placed, Executing
  <1>7. CASE SealHandoff
    <2>1. Seal("seal_handoff", Lifecycle[7], "complete") /\ Due(7 - 1)
      BY <1>7 DEF SealHandoff, Seal, GateAt, Placed
    <2>2. ChainFollowsLifecycle' /\ Prefix(gate'.records, Lifecycle) /\ gate'.pc = "complete"
      BY <2>1
    <2> QED
      BY <2>2 DEF Placed, Executing
  <1> QED
    BY <1>1, <1>2, <1>3, <1>4, <1>5, <1>6, <1>7 DEF Seals

\* A process that goes on with the records it has keeps the chains in place when
\* the stage it goes to is the one that is reached or due.
LEMMA GoesPlaced ==
    ASSUME IInv, Placed, gate.pc \in InLevel, NEW pc \in PCs, Goto(pc),
           \A l \in Level : level'[l].events = level[l].events
    PROVE  /\ gate'.pc = pc /\ gate'.records = gate.records
           /\ Prefix(gate'.records, Lifecycle)
           /\ \A k : (Due(k)' <=> Due(k)) /\ (Reached(k)' <=> Reached(k))
  <1>1. Typed /\ gate \in GateState
    BY DEF IInv, Core, Typed, TypeOK
  <1>2. gate'.pc = pc /\ gate'.lv = gate.lv /\ gate'.records = gate.records
    BY <1>1, Moved
  <1>3. Prefix(gate.records, Lifecycle)
    BY DEF Placed
  <1> QED
    BY <1>1, <1>2, <1>3, PlaceKept

\* A process that leaves the level has no place to keep.
LEMMA LeavesPlaced ==
    ASSUME gate'.pc \notin InLevel
    PROVE  Placed'
  BY DEF Placed, InLevel, Packaged, PastPackage, PastPreflight, PastWorker, PastReview,
     PastCheckpoint, PastExit, Executing

\* So has one that fails.
LEMMA RaisePlaced ==
    ASSUME IInv, Raise \/ RaiseArtifact
    PROVE  Placed'
  <1>1. gate \in GateState
    BY DEF IInv, Core, Typed, TypeOK
  <1>2. gate'.pc \in {"raised", "artifact"}
    BY <1>1, Moved DEF Raise, RaiseArtifact, PCs
  <1> QED
    BY <1>2, OutsideLevels, LeavesPlaced

\* A process that does not move keeps its place.
LEMMA StaysPlaced ==
    ASSUME IInv, Placed, gate' = gate, \A l \in Level : level'[l].events = level[l].events
    PROVE  Placed'
  <1>1. CASE gate.pc \notin InLevel
    BY <1>1, LeavesPlaced
  <1>2. CASE gate.pc \in InLevel
    <2>1. Typed
      BY DEF IInv, Core
    <2>2. \A k : (Due(k)' <=> Due(k)) /\ (Reached(k)' <=> Reached(k))
      BY <1>2, <2>1, PlaceKept
    <2> QED
      BY <2>2 DEF Placed
  <1> QED
    BY <1>1, <1>2

\* The package stage finds the chain empty, or resumes from it.
LEMMA PackagesPlaced ==
    ASSUME IInv, ChainFollowsLifecycle, Placed, Packages,
           \A l \in Level : level'[l].events = level[l].events
    PROVE  Placed'
  <1>1. GateAt("package") /\ gate.pc \in InLevel
    BY DEF Packages, CreatePackage, RehydratePackage, PackageRefused, GateAt, InLevel
  <1>2. Typed /\ gate.lv \in Level /\ gate \in GateState /\ level \in [Level -> Evidence]
    BY <1>1 DEF IInv, Core, Typed, TypeOK
  <1> DEFINE e == level[gate.lv].events
  <1>3. e \in Seq(Stage) /\ Prefix(e, Lifecycle) /\ gate.records = <<>>
    BY <1>1, <1>2 DEF Evidence, ChainFollowsLifecycle, Placed, GateAt
  <1>4. ASSUME Goto("seal_package"), e = <<>>
        PROVE  Placed'
    <2>1. Due(0)
      BY <1>3, <1>4 DEF Due
    <2>2. gate'.pc = "seal_package" /\ Prefix(gate'.records, Lifecycle) /\ Due(0)'
      BY <1>1, <1>4, <2>1, GoesPlaced DEF PCs, Sealing
    <2> QED
      BY <2>2 DEF Placed, Executing
  <1>5. CASE CreatePackage
    <2>1. level[gate.lv].package # "SEALED"
      BY <1>5 DEF CreatePackage, PackageVerdict
    <2>2. ~Sealed(gate.lv, "PACKAGE")
      BY <1>2, <2>1 DEF IInv, Core, OnDisk, Backed
    <2>3. e = <<>>
      <3>1. e # <<>> => 1 \in DOMAIN e /\ e[1] = "PACKAGE"
        BY <1>3, StageNumbers DEF Prefix
      <3> QED
        BY <2>2, <3>1 DEF Sealed
    <2> QED
      BY <1>4, <1>5, <2>3 DEF CreatePackage
  <1>6. CASE PackageRefused
    BY <1>6, RaisePlaced DEF PackageRefused
  <1>7. CASE RehydratePackage
    <2>1. CASE e = <<>> /\ (RaiseArtifact \/ Goto("seal_package"))
      BY <1>4, <2>1, RaisePlaced
    <2>2. CASE e # <<>> /\ gate' = [gate EXCEPT !.pc = "preflight", !.records = e]
      <3>1. gate'.pc = "preflight" /\ gate'.records = e /\ gate'.lv = gate.lv
        BY <1>2, <2>2 DEF GateState
      <3>2. Len(e) \in Nat \ {0} /\ level'[gate.lv].events = e
        BY <1>2, <1>3, <2>2, EmptySeq
      <3>3. Reached(1)'
        BY <3>1, <3>2 DEF Reached
      <3> QED
        BY <1>3, <3>1, <3>3 DEF Placed, Executing
    <2>3. \/ e = <<>> /\ (RaiseArtifact \/ Goto("seal_package"))
          \/ e # <<>> /\ gate' = [gate EXCEPT !.pc = "preflight", !.records = e]
      BY <1>7 DEF RehydratePackage
    <2> QED
      BY <2>1, <2>2, <2>3
  <1> QED
    BY <1>5, <1>6, <1>7 DEF Packages

\* A stage whose event is among the records is passed over; the work of one that
\* is not ends where its event is due.
LEMMA StagesPlaced ==
    ASSUME IInv, Placed, Preflights \/ WorkerResumed \/ Closings,
           \A l \in Level : level'[l].events = level[l].events
    PROVE  Placed'
  <1>1. gate.pc \in InLevel
    BY DEF Preflights, PreflightResumed, PreflightRun, WorkerResumed, Closings, ReviewResumed,
       Review, CheckpointResumed, Checkpoint, ExitResumed, ExitLevel, WriteHandoff, Resumed,
       GateAt, InLevel, Packaged, PastPackage, PastPreflight, PastWorker, PastReview,
       PastCheckpoint, PastExit
  <1>2. Typed /\ Prefix(gate.records, Lifecycle)
    BY <1>1 DEF IInv, Core, Placed
  <1>3. ASSUME NEW k \in 0..6, Reached(k)
        PROVE  /\ ~InRecords(Lifecycle[k + 1]) => Due(k)
               /\ InRecords(Lifecycle[k + 1]) => Reached(k + 1)
    BY <1>1, <1>2, <1>3, StageDecided
  <1>4. ASSUME NEW pc \in PCs, Goto(pc)
        PROVE  /\ gate'.pc = pc /\ Prefix(gate'.records, Lifecycle)
               /\ \A k : (Due(k)' <=> Due(k)) /\ (Reached(k)' <=> Reached(k))
    BY <1>1, <1>4, GoesPlaced
  <1>5. CASE Raise \/ RaiseArtifact
    BY <1>5, RaisePlaced
  <1>6. CASE GateAt("preflight")
    <2>1. Reached(1)
      BY <1>6 DEF GateAt, Placed
    <2>2. (~InRecords("PREFLIGHT") => Due(1)) /\ (InRecords("PREFLIGHT") => Reached(1 + 1))
      BY <1>3, <2>1, StageNumbers
    <2>3. CASE PreflightResumed
      <3>1. gate'.pc = "worker" /\ Prefix(gate'.records, Lifecycle) /\ Reached(1 + 1)'
        BY <1>4, <2>2, <2>3 DEF PreflightResumed, Resumed, PCs
      <3> QED
        BY <3>1 DEF Placed, Executing
    <2>4. CASE PreflightRun /\ Goto("seal_preflight")
      <3>1. gate'.pc = "seal_preflight" /\ Prefix(gate'.records, Lifecycle) /\ Due(1)'
        BY <1>4, <2>2, <2>4 DEF PreflightRun, PCs, Sealing
      <3> QED
        BY <3>1 DEF Placed, Executing
    <2>5. PreflightResumed \/ (PreflightRun /\ Goto("seal_preflight")) \/ Raise \/ RaiseArtifact
      BY <1>6 DEF Preflights, PreflightRun, WorkerResumed, Closings, ReviewResumed,
         Review, CheckpointResumed, Checkpoint, ExitResumed, ExitLevel, WriteHandoff, Resumed, GateAt
    <2> QED
      BY <1>5, <2>3, <2>4, <2>5
  <1>7. CASE GateAt("worker")
    <2>1. Reached(2)
      BY <1>7 DEF GateAt, Placed
    <2>2. InRecords("WORKER") => Reached(2 + 1)
      BY <1>3, <2>1, StageNumbers
    <2>3. InRecords("WORKER") /\ Goto("review")
      BY <1>7 DEF Preflights, PreflightResumed, PreflightRun, WorkerResumed, Closings,
         ReviewResumed, Review, CheckpointResumed, Checkpoint, ExitResumed, ExitLevel,
         WriteHandoff, Resumed, GateAt
    <2>4. gate'.pc = "review" /\ Prefix(gate'.records, Lifecycle) /\ Reached(2 + 1)'
      BY <1>4, <2>2, <2>3 DEF PCs
    <2> QED
      BY <2>4 DEF Placed, Executing
  <1>8. CASE GateAt("review")
    <2>1. Reached(3)
      BY <1>8 DEF GateAt, Placed
    <2>2. (~InRecords("REVIEW") => Due(3)) /\ (InRecords("REVIEW") => Reached(3 + 1))
      BY <1>3, <2>1, StageNumbers
    <2>3. CASE InRecords("REVIEW") /\ Goto("checkpoint")
      <3>1. gate'.pc = "checkpoint" /\ Prefix(gate'.records, Lifecycle) /\ Reached(3 + 1)'
        BY <1>4, <2>2, <2>3 DEF PCs
      <3> QED
        BY <3>1 DEF Placed, Executing
    <2>4. CASE ~InRecords("REVIEW") /\ Goto("seal_review")
      <3>1. gate'.pc = "seal_review" /\ Prefix(gate'.records, Lifecycle) /\ Due(3)'
        BY <1>4, <2>2, <2>4 DEF PCs, Sealing
      <3> QED
        BY <3>1 DEF Placed, Executing
    <2>5. \/ InRecords("REVIEW") /\ Goto("checkpoint")
          \/ ~InRecords("REVIEW") /\ Goto("seal_review")
          \/ Raise
      BY <1>8 DEF Preflights, PreflightResumed, PreflightRun, WorkerResumed, Closings,
         ReviewResumed, Review, CheckpointResumed, Checkpoint, ExitResumed, ExitLevel,
         WriteHandoff, Resumed, GateAt
    <2> QED
      BY <1>5, <2>3, <2>4, <2>5
  <1>9. CASE GateAt("checkpoint")
    <2>1. Reached(4)
      BY <1>9 DEF GateAt, Placed
    <2>2. (~InRecords("CHECKPOINT") => Due(4)) /\ (InRecords("CHECKPOINT") => Reached(4 + 1))
      BY <1>3, <2>1, StageNumbers
    <2>3. CASE InRecords("CHECKPOINT") /\ Goto("exit")
      <3>1. gate'.pc = "exit" /\ Prefix(gate'.records, Lifecycle) /\ Reached(4 + 1)'
        BY <1>4, <2>2, <2>3 DEF PCs
      <3> QED
        BY <3>1 DEF Placed, Executing
    <2>4. CASE ~InRecords("CHECKPOINT") /\ Goto("seal_checkpoint")
      <3>1. gate'.pc = "seal_checkpoint" /\ Prefix(gate'.records, Lifecycle) /\ Due(4)'
        BY <1>4, <2>2, <2>4 DEF PCs, Sealing
      <3> QED
        BY <3>1 DEF Placed, Executing
    <2>5. \/ InRecords("CHECKPOINT") /\ Goto("exit")
          \/ ~InRecords("CHECKPOINT") /\ Goto("seal_checkpoint")
      BY <1>9 DEF Preflights, PreflightResumed, PreflightRun, WorkerResumed, Closings,
         ReviewResumed, Review, CheckpointResumed, Checkpoint, ExitResumed, ExitLevel,
         WriteHandoff, Resumed, GateAt
    <2> QED
      BY <2>3, <2>4, <2>5
  <1>10. CASE GateAt("exit")
    <2>1. Reached(5)
      BY <1>10 DEF GateAt, Placed
    <2>2. (~InRecords("EXIT") => Due(5)) /\ (InRecords("EXIT") => Reached(5 + 1))
      BY <1>3, <2>1, StageNumbers
    <2>3. CASE InRecords("EXIT") /\ Goto("handoff")
      <3>1. gate'.pc = "handoff" /\ Prefix(gate'.records, Lifecycle) /\ Reached(5 + 1)'
        BY <1>4, <2>2, <2>3 DEF PCs
      <3> QED
        BY <3>1 DEF Placed, Executing
    <2>4. CASE ~InRecords("EXIT") /\ Goto("seal_exit")
      <3>1. gate'.pc = "seal_exit" /\ Prefix(gate'.records, Lifecycle) /\ Due(5)'
        BY <1>4, <2>2, <2>4 DEF PCs, Sealing
      <3> QED
        BY <3>1 DEF Placed, Executing
    <2>5. \/ InRecords("EXIT") /\ Goto("handoff")
          \/ ~InRecords("EXIT") /\ Goto("seal_exit")
          \/ Raise
      BY <1>10 DEF Preflights, PreflightResumed, PreflightRun, WorkerResumed, Closings,
         ReviewResumed, Review, CheckpointResumed, Checkpoint, ExitResumed, ExitLevel,
         WriteHandoff, Resumed, GateAt
    <2> QED
      BY <1>5, <2>3, <2>4, <2>5
  <1>11. CASE GateAt("handoff")
    <2>1. Reached(6)
      BY <1>11 DEF GateAt, Placed
    <2>2. ~InRecords("HANDOFF") => Due(6)
      BY <1>3, <2>1, StageNumbers
    <2>3. CASE Goto("complete")
      <3>1. gate'.pc = "complete" /\ Prefix(gate'.records, Lifecycle)
        BY <1>4, <2>3 DEF PCs
      <3> QED
        BY <3>1 DEF Placed, Executing
    <2>4. CASE ~InRecords("HANDOFF") /\ Goto("seal_handoff")
      <3>1. gate'.pc = "seal_handoff" /\ Prefix(gate'.records, Lifecycle) /\ Due(6)'
        BY <1>4, <2>2, <2>4 DEF PCs, Sealing
      <3> QED
        BY <3>1 DEF Placed, Executing
    <2>5. Goto("complete") \/ (~InRecords("HANDOFF") /\ Goto("seal_handoff"))
      BY <1>11 DEF Preflights, PreflightResumed, PreflightRun, WorkerResumed, Closings,
         ReviewResumed, Review, CheckpointResumed, Checkpoint, ExitResumed, ExitLevel,
         WriteHandoff, Resumed, GateAt
    <2> QED
      BY <2>3, <2>4, <2>5
  <1> QED
    BY <1>6, <1>7, <1>8, <1>9, <1>10, <1>11 DEF Preflights, PreflightResumed, PreflightRun,
       WorkerResumed, Closings, ReviewResumed, Review, CheckpointResumed, Checkpoint,
       ExitResumed, ExitLevel, WriteHandoff, Resumed

\* The worker stage, up to the sealing of its event, stays where that event is
\* due: files are never dirty beside a worker result, so a stage with its event
\* among the records is not run again.
LEMMA WorkersPlaced ==
    ASSUME IInv, Attended, faults.timeouts = 0, Placed, Workers, ~WorkerResumed,
           \A l \in Level : level'[l].events = level[l].events
    PROVE  Placed'
  <1>1. gate.pc \in {"worker"} \union Executing /\ gate.pc \in InLevel
    BY DEF Workers, WorkerResult, WorkerRequest, ExecuteWorker, SpawnRunner, TurnAnswered,
       CollectChanges, Validate, CommitCheckpoint, WriteResult, GateAt, Executing, InLevel,
       Packaged, PastPackage, PastPreflight
  <1>2. /\ Typed /\ Prefix(gate.records, Lifecycle) /\ gate.lv \in Level /\ gate \in GateState
    BY <1>1 DEF IInv, Core, Placed, Typed, TypeOK
  <1>3. Due(2)
    <2>1. CASE gate.pc \in Executing
      BY <2>1 DEF Placed
    <2>2. CASE gate.pc = "worker"
      <3>1. Reached(2)
        BY <2>2 DEF Placed
      <3>2. ~InRecords("WORKER") => Due(2)
        BY <1>1, <1>2, <3>1, StageDecided, StageNumbers
      <3>3. /\ Dirty(gate.lv) \/ ~InRecords("WORKER")
        BY <2>2 DEF Workers, WorkerResult, WorkerRequest, ExecuteWorker, SpawnRunner,
           TurnAnswered, CollectChanges, Validate, CommitCheckpoint, WriteResult, GateAt
      <3>4. InRecords("WORKER") => Sealed(gate.lv, "WORKER")
        BY <1>1, StageNames DEF IInv, Core, InProgress
      <3>5. Sealed(gate.lv, "WORKER") => level[gate.lv].result = "OK"
        BY <1>2 DEF IInv, Core, OnDisk, Backed
      <3>6. level[gate.lv].result # "NONE" => ~Dirty(gate.lv)
        BY <1>2 DEF Attended
      <3> QED
        BY <3>2, <3>3, <3>4, <3>5, <3>6
    <2> QED
      BY <1>1, <2>1, <2>2
  <1>4. gate' \in GateState
    <2>1. Typed'
      BY <1>2, TypeStep DEF Next, GateStep
    <2> QED
      BY <2>1 DEF Typed, TypeOK
  <1>5. \/ Raise
        \/ /\ gate'.pc \in Executing \union {"seal_worker"}
           /\ gate'.lv = gate.lv /\ gate'.records = gate.records
    <2>1. CASE \E pc \in Executing \union {"seal_worker"} : Goto(pc)
      <3>1. PICK pc \in Executing \union {"seal_worker"} : Goto(pc)
        BY <2>1
      <3>2. pc \in PCs
        BY DEF Executing, PCs, Sealing
      <3> QED
        BY <1>2, <3>1, <3>2, Moved
    <2>2. CASE WorkerResult
      BY <2>1, <2>2 DEF WorkerResult
    <2>3. CASE WorkerRequest
      BY <2>1, <2>3 DEF WorkerRequest, Executing
    <2>4. CASE ExecuteWorker
      <3>1. Raise \/ Goto("spawn") \/ Goto("collect")
        BY <2>4 DEF ExecuteWorker, TerminationKind
      <3> QED
        BY <2>1, <3>1 DEF Executing
    <2>5. CASE SpawnRunner
      BY <2>1, <2>5 DEF SpawnRunner, Executing
    <2>6. CASE TurnAnswered
      BY <2>1, <2>6 DEF TurnAnswered, Executing
    <2>7. CASE CollectChanges
      <3> DEFINE c == IF HEAD = level[gate.lv].source THEN Touched(tree[gate.lv])
                      ELSE Touched(commits[Len(commits)].content)
      <3>1. Raise \/ gate' = [gate EXCEPT !.pc = "validate", !.changed = c]
        BY <2>7 DEF CollectChanges
      <3> HIDE DEF c
      <3>2. CASE gate' = [gate EXCEPT !.pc = "validate", !.changed = c]
        BY <1>2, <3>2 DEF Executing, GateState
      <3> QED
        BY <3>1, <3>2
    <2>8. CASE Validate
      <3>1. Raise \/ gate' = [gate EXCEPT !.pc = "commit", !.tested = tree[gate.lv]]
        BY <2>8 DEF Validate
      <3>2. CASE gate' = [gate EXCEPT !.pc = "commit", !.tested = tree[gate.lv]]
        BY <1>2, <3>2 DEF Executing, GateState
      <3> QED
        BY <3>1, <3>2
    <2>9. CASE CommitCheckpoint
      BY <2>1, <2>9 DEF CommitCheckpoint, Executing
    <2>10. CASE WriteResult
      BY <2>1, <2>10 DEF WriteResult
    <2> QED
      BY <2>2, <2>3, <2>4, <2>5, <2>6, <2>7, <2>8, <2>9, <2>10 DEF Workers
  <1>6. CASE Raise
    BY <1>6, RaisePlaced
  <1>7. CASE /\ gate'.pc \in Executing \union {"seal_worker"}
             /\ gate'.lv = gate.lv /\ gate'.records = gate.records
    <2>1. Due(2)' /\ Prefix(gate'.records, Lifecycle)
      BY <1>1, <1>2, <1>3, <1>7, PlaceKept
    <2> QED
      BY <1>7, <2>1 DEF Placed, Executing
  <1> QED
    BY <1>5, <1>6, <1>7

\* The steps of the other actors and those between the levels.
LEMMA OthersPlaced ==
    ASSUME IInv, Placed, Attended, faults.timeouts = 0,
           Lineages \/ SupervisorStep \/ RunnerStep \/ Crash \/ UNCHANGED vars,
           \A l \in Level : level'[l].events = level[l].events
    PROVE  Placed'
  <1>1. Typed /\ gate \in GateState
    BY DEF IInv, Core, Typed, TypeOK
  <1>2. CASE gate' = NoGate
    BY <1>2, GoneType, OutsideLevels, LeavesPlaced
  <1>3. CASE Raise
    BY <1>3, RaisePlaced
  <1>4. CASE gate' = gate
    BY <1>4, StaysPlaced
  <1>5. CASE ExecuteGate
    <2> DEFINE d == IF gate.resume THEN Cardinality(HandedOff) ELSE 0
               h == IF LineageAtEntry(d) = "SEALED" THEN HEAD ELSE -1
    <2>1. Raise \/ gate' = [gate EXCEPT !.pc = "level", !.done = d, !.lineage = h]
      BY <1>5 DEF ExecuteGate
    <2> HIDE DEF d, h
    <2>2. CASE gate' = [gate EXCEPT !.pc = "level", !.done = d, !.lineage = h]
      <3>1. gate'.pc = "level"
        BY <1>1, <2>2 DEF GateState
      <3> QED
        BY <3>1, OutsideLevels, LeavesPlaced
    <2> QED
      BY <1>3, <2>1, <2>2
  <1>6. CASE CompleteLevel
    <2> DEFINE h == IF HEAD # 0 THEN HEAD ELSE -1
    <2>1. Raise \/ gate' = [gate EXCEPT !.pc = "level", !.done = gate.lv, !.lineage = h]
      BY <1>6 DEF CompleteLevel
    <2> HIDE DEF h
    <2>2. CASE gate' = [gate EXCEPT !.pc = "level", !.done = gate.lv, !.lineage = h]
      <3>1. gate'.pc = "level"
        BY <1>1, <2>2 DEF GateState
      <3> QED
        BY <3>1, OutsideLevels, LeavesPlaced
    <2> QED
      BY <1>3, <2>1, <2>2
  <1>7. CASE BeginLevel
    <2> DEFINE l == gate.done + 1
               r == gate.resume /\ level[l].package # "NONE"
    <2>1. Raise \/ gate' = [gate EXCEPT !.pc = "package", !.lv = l, !.head = HEAD,
                     !.lvResume = r, !.records = <<>>, !.changed = {}, !.tested = NoEdits]
      BY <1>7 DEF BeginLevel
    <2> HIDE DEF l, r
    <2>2. CASE gate' = [gate EXCEPT !.pc = "package", !.lv = l, !.head = HEAD,
                     !.lvResume = r, !.records = <<>>, !.changed = {}, !.tested = NoEdits]
      <3>1. gate'.pc = "package" /\ gate'.records = <<>>
        BY <1>1, <2>2 DEF GateState
      <3>2. Prefix(<<>>, Lifecycle)
        BY StageNumbers DEF Prefix
      <3> QED
        BY <3>1, <3>2 DEF Placed, Executing
    <2> QED
      BY <1>3, <2>1, <2>2
  <1>8. CASE ExitGate \/ HandleFailure \/ Crash
    BY <1>2, <1>8 DEF ExitGate, HandleFailure, Crash
  <1>9. CASE Launch
    <2>1. gate'.pc = "execute"
      BY <1>9 DEF Launch, NoGate
    <2> QED
      BY <2>1, OutsideLevels, LeavesPlaced
  <1>10. CASE PreflightBlocked \/ UNCHANGED vars
    BY <1>4, <1>10 DEF PreflightBlocked, vars
  <1>11. CASE RunnerAccept \/ RunnerOpen \/ RunnerWrite \/ RunnerAcceptTimeout
    BY <1>3, <1>4, <1>11 DEF RunnerAccept, RunnerOpen, RunnerWrite, RunnerAcceptTimeout
  <1>12. CASE RunnerEnd
    <2>1. CASE GateAt("turn") /\ Goto("answer")
      <3>1. Due(2) /\ gate.pc \in InLevel
        BY <2>1 DEF GateAt, Placed, Executing, InLevel, Packaged, PastPackage, PastPreflight
      <3>2. gate'.pc = "answer" /\ Prefix(gate'.records, Lifecycle) /\ Due(2)'
        BY <2>1, <3>1, GoesPlaced DEF PCs
      <3> QED
        BY <3>2 DEF Placed, Executing
    <2>2. (GateAt("turn") /\ Goto("answer")) \/ Raise \/ gate' = gate
      BY <1>12 DEF RunnerEnd
    <2> QED
      BY <1>3, <1>4, <2>1, <2>2
  <1> QED
    BY <1>5, <1>6, <1>7, <1>8, <1>9, <1>10, <1>11, <1>12
       DEF Lineages, SupervisorStep, RunnerStep

\* The chains and the places in them, until a Gate is terminated.
LEMMA SequencedStep == IInv /\ Attended /\ Sequenced /\ [Next]_vars => Sequenced'
  <1> SUFFICES ASSUME IInv, Attended, Sequenced, [Next]_vars, faults'.timeouts = 0
               PROVE  (ChainFollowsLifecycle /\ Placed)'
    BY DEF Sequenced
  <1>1. Typed /\ faults.timeouts = 0 /\ ~Timeout
    BY NoTimeoutBefore DEF IInv, Core
  <1>2. ChainFollowsLifecycle /\ Placed
    BY <1>1 DEF Sequenced
  <1>3. CASE Seals
    BY <1>2, <1>3, SealsPlaced
  <1>4. CASE ~Seals
    <2>1. \A l \in Level : level'[l].events = level[l].events
      BY <1>1, <1>4, EventsKept
    <2>2. ChainFollowsLifecycle'
      BY <1>2, <2>1 DEF ChainFollowsLifecycle
    <2>3. CASE Packages
      BY <1>2, <2>1, <2>2, <2>3, PackagesPlaced
    <2>4. CASE Preflights \/ WorkerResumed \/ Closings
      BY <1>2, <2>1, <2>2, <2>4, StagesPlaced
    <2>5. CASE Workers /\ ~WorkerResumed
      BY <1>1, <1>2, <2>1, <2>2, <2>5, WorkersPlaced
    <2>6. CASE Lineages \/ SupervisorStep \/ RunnerStep \/ Crash \/ UNCHANGED vars
      BY <1>1, <1>2, <2>1, <2>2, <2>6, OthersPlaced
    <2> QED
      BY <1>1, <1>4, <2>2, <2>3, <2>4, <2>5, <2>6 DEF Next, GateStep, Settled
  <1> QED
    BY <1>3, <1>4

\* No event is sealed before a Gate runs.
LEMMA SequencedInit == Init => Sequenced
  <1> SUFFICES ASSUME Init PROVE ChainFollowsLifecycle /\ Placed
    BY DEF Sequenced
  <1>1. gate.pc = "off" /\ \A l \in Level : level[l].events = <<>>
    BY GoneType DEF Init, Untouched
  <1>2. ChainFollowsLifecycle
    BY <1>1, StageNumbers DEF ChainFollowsLifecycle, Prefix
  <1>3. gate.pc \notin InLevel
    BY <1>1, OutsideLevels
  <1> QED
    BY <1>2, <1>3 DEF Placed, InLevel, Packaged, PastPackage, PastPreflight, PastWorker,
       PastReview, PastCheckpoint, PastExit, Executing

\* As long as no Gate was terminated by its timeout, every event chain is a prefix
\* of the lifecycle: crashes and resumes seal no stage twice, early or never.
THEOREM ChainsFollowLifecycle == Spec => [](faults.timeouts = 0 => ChainFollowsLifecycle)
  <1>1. IInv /\ Attended /\ Sequenced /\ [Next]_vars => (Attended /\ Sequenced)'
    BY AttendedStep, SequencedStep
  <1>2. Sequenced => (faults.timeouts = 0 => ChainFollowsLifecycle)
    BY DEF Sequenced
  <1> QED
    BY <1>1, <1>2, AttendedInit, SequencedInit, Invariance, PTL DEF Spec

-----------------------------------------------------------------------------
(* What is committed is what was validated, whatever fails *)

\* The steps that write neither a package nor a journal leave both alone.
LEMMA FieldsKept ==
    ASSUME level \in [Level -> Evidence], NEW l, NEW v,
           NEW field \in {"preflight", "request", "ledger", "torn", "result", "reviews",
                          "events", "handoff"},
           Put(l, field, v)
    PROVE  \A m \in Level : /\ level'[m].package = level[m].package
                            /\ level'[m].source = level[m].source
                            /\ level'[m].journal = level[m].journal
  BY DEF Put, Evidence

\* A sealed package stays as it is, and no write intent is taken back.
LEMMA PackageKept ==
    ASSUME Typed, [Next]_vars
    PROVE  \A m \in Level :
             /\ level[m].package = "SEALED" =>
                  level'[m].package = "SEALED" /\ level'[m].source = level[m].source
             /\ level[m].journal \subseteq level'[m].journal
  <1> DEFINE Goal == \A m \in Level :
                       /\ level[m].package = "SEALED" =>
                            level'[m].package = "SEALED" /\ level'[m].source = level[m].source
                       /\ level[m].journal \subseteq level'[m].journal
  <1> SUFFICES Goal
    OBVIOUS
  <1>1. level \in [Level -> Evidence] /\ gate \in GateState /\ HEAD \in Nat
    BY HeadType DEF Typed, TypeOK
  <1>2. level' = level => Goal
    OBVIOUS
  <1>3. ASSUME NEW l, NEW v,
               \/ Put(l, "preflight", v) \/ Put(l, "request", v) \/ Put(l, "ledger", v)
               \/ Put(l, "torn", v) \/ Put(l, "result", v) \/ Put(l, "reviews", v)
               \/ Put(l, "events", v) \/ Put(l, "handoff", v)
        PROVE  Goal
    BY <1>1, <1>3, FieldsKept
  <1>4. PackageVerdict(gate.lv) = "NEW" => level[gate.lv].package # "SEALED"
    BY <1>1 DEF PackageVerdict, GateState
  <1>5. ASSUME NEW p, level' = [level EXCEPT ![gate.lv].package = p, ![gate.lv].source = HEAD],
               PackageVerdict(gate.lv) = "NEW"
        PROVE  Goal
    BY <1>1, <1>4, <1>5 DEF Evidence
  <1>6. ASSUME level' = [level EXCEPT ![gate.lv].result = "OK", ![gate.lv].commit = HEAD]
        PROVE  Goal
    BY <1>1, <1>6 DEF Evidence
  <1>7. ASSUME NEW f, level' = [level EXCEPT ![runner.lv].journal = @ \union {f}]
        PROVE  Goal
    BY <1>1, <1>7 DEF Evidence
  <1> HIDE DEF Goal
  <1>8. CASE SupervisorStep \/ Lineages \/ UNCHANGED vars \/ Settled
    BY <1>2, <1>8 DEF SupervisorStep, Launch, PreflightBlocked, HandleFailure, Lineages, ExecuteGate,
       BeginLevel, ExitGate, CompleteLevel, Settled, vars, disk
  <1>9. CASE Seals
    BY <1>3, <1>9 DEF Seals, SealPackage, SealPreflight, SealWorker, SealReview,
       SealCheckpoint, SealExit, SealHandoff, Seal
  <1>10. CASE Packages \/ Preflights
    BY <1>2, <1>3, <1>5, <1>10 DEF Packages, CreatePackage, RehydratePackage, PackageRefused,
       Preflights, PreflightResumed, PreflightRun, Resumed, disk
  <1>11. CASE Workers
    BY <1>2, <1>3, <1>6, <1>11 DEF Workers, WorkerResumed, Resumed, WorkerResult, WorkerRequest,
       ExecuteWorker, SpawnRunner, TurnAnswered, CollectChanges, Validate, CommitCheckpoint,
       WriteResult, disk
  <1>12. CASE Closings
    BY <1>2, <1>3, <1>12 DEF Closings, ReviewResumed, CheckpointResumed, ExitResumed, Resumed,
       Review, Checkpoint, ExitLevel, WriteHandoff, disk
  <1>13. CASE RunnerStep
    BY <1>2, <1>3, <1>7, <1>13 DEF RunnerStep, RunnerAccept, RunnerOpen, RunnerWrite, RunnerEnd,
       RunnerAcceptTimeout, disk
  <1>14. CASE Crash \/ Timeout
    BY <1>2, <1>3, <1>5, <1>14 DEF Crash, Timeout, TornWrite
  <1> QED
    BY <1>8, <1>9, <1>10, <1>11, <1>12, <1>13, <1>14 DEF Next, GateStep

\* The worktree is written by the host runner and by git commit.
LEMMA TreeKept ==
    ASSUME [Next]_vars
    PROVE  /\ start' = start
           /\ tree' = tree \/ CommitCheckpoint \/ RunnerOpen \/ RunnerWrite
  BY DEF Next, GateStep, Lineages, Seals, Packages, Preflights, Workers, Closings,
     SupervisorStep, RunnerStep, ExecuteGate, BeginLevel, ExitGate, CompleteLevel,
     SealPackage, SealPreflight, SealWorker, SealReview, SealCheckpoint, SealExit, SealHandoff, Seal,
     CreatePackage, RehydratePackage, PackageRefused, PreflightResumed, PreflightRun, Resumed,
     WorkerResumed, WorkerResult, WorkerRequest, ExecuteWorker, SpawnRunner, TurnAnswered,
     CollectChanges, Validate, CommitCheckpoint, WriteResult, ReviewResumed, Review,
     CheckpointResumed, Checkpoint, ExitResumed, ExitLevel, WriteHandoff, Launch, PreflightBlocked,
     HandleFailure, RunnerAccept, RunnerOpen, RunnerWrite, RunnerEnd, RunnerAcceptTimeout, Crash,
     Timeout, Settled, vars, disk

\* A host runner is spawned, takes its own steps and is killed with the service.
LEMMA RunnerKept ==
    ASSUME [Next]_vars
    PROVE  runner' = runner \/ SpawnRunner \/ RunnerStep \/ Crash
  BY DEF Next, GateStep, Lineages, Seals, Packages, Preflights, Workers, Closings,
     SupervisorStep, ExecuteGate, BeginLevel, ExitGate, CompleteLevel,
     SealPackage, SealPreflight, SealWorker, SealReview, SealCheckpoint, SealExit, SealHandoff, Seal,
     CreatePackage, RehydratePackage, PackageRefused, PreflightResumed, PreflightRun, Resumed,
     WorkerResumed, WorkerResult, WorkerRequest, ExecuteWorker, TurnAnswered,
     CollectChanges, Validate, CommitCheckpoint, WriteResult, ReviewResumed, Review,
     CheckpointResumed, Checkpoint, ExitResumed, ExitLevel, WriteHandoff, Launch, PreflightBlocked,
     HandleFailure, Timeout, Settled, vars, processes

\* A package was made from a commit that is there.
LEMMA SourceBehind ==
    ASSUME Core, NEW l \in Level, level[l].package = "SEALED"
    PROVE  level[l].source \in Nat /\ level[l].source <= HEAD
  <1>1. /\ start \in Nat /\ Len(commits) \in Nat /\ l \in Nat /\ l > 0
        /\ level[l].source = start + l - 1 /\ \A m \in 1..(l - 1) : Sealed(m, "HANDOFF")
    BY HeadType DEF Core, Typed, OnDisk, Backed, Level
  <1>2. CASE l = 1
    BY <1>1, <1>2 DEF HEAD
  <1>3. CASE l # 1
    <2>1. l - 1 \in Level /\ Sealed(l - 1, "HANDOFF")
      BY <1>1, <1>3 DEF Level
    <2>2. Sealed(l - 1, "EXIT")
      BY <2>1 DEF Core, OnDisk, Chained
    <2>3. Len(commits) >= l - 1
      BY <2>1, <2>2, HandoffCommitted
    <2> QED
      BY <1>1, <2>3 DEF HEAD
  <1> QED
    BY <1>2, <1>3

\* A checkpoint commit moves HEAD past the package of every level there is.
LEMMA PastPackages ==
    ASSUME Core, CommitCheckpoint, commits' # commits, Core',
           NEW l \in Level, level[l].package = "SEALED"
    PROVE  ~NeedsCommit(l)'
  <1>1. commits \in Seq(Checkpoints) /\ start \in Nat /\ level' = level /\ start' = start
    BY DEF CommitCheckpoint, Core, Typed, TypeOK
  <1> DEFINE C == [lv |-> gate.lv, content |-> Only(tree[gate.lv], gate.changed),
                   tested |-> Only(gate.tested, gate.changed)]
  <1>2. commits' = Append(commits, C)
    BY DEF CommitCheckpoint
  <1> HIDE DEF C
  <1>3. Len(commits') = Len(commits) + 1 /\ Len(commits) \in Nat
    BY <1>1, <1>2
  <1>4. HEAD' = HEAD + 1
    BY <1>1, <1>3 DEF HEAD
  <1>5. level[l].source \in Nat /\ level[l].source <= HEAD /\ HEAD \in Nat
    BY SourceBehind, HeadType DEF Core, Typed
  <1> QED
    BY <1>1, <1>4, <1>5 DEF NeedsCommit

\* A step that appends no commit leaves the levels that are to be committed alone.
LEMMA NeedKept ==
    ASSUME Core, [Next]_vars, commits' = commits, NEW l \in Level, level[l].package = "SEALED"
    PROVE  NeedsCommit(l)' <=> NeedsCommit(l)
  <1>1. start' = start /\ level'[l].source = level[l].source
    BY PackageKept, TreeKept DEF Core
  <1> QED
    BY <1>1 DEF NeedsCommit, HEAD

\* The executor validates what it collected and commits what it validated.
LEMMA WorkEntry ==
    ASSUME Typed, Supervised, [Next]_vars, gate'.pc \in {"validate", "commit"}
    PROVE  gate' = gate \/ CollectChanges \/ Validate
  <1>1. gate \in GateState
    BY DEF Typed, TypeOK
  <1>2. ~\E pc \in PCs \ {"validate", "commit"} : Goto(pc)
    BY <1>1, Moved
  <1>3. PCs \ {"validate", "commit"} = {"off", "execute", "level", "package", "preflight", "worker",
          "work", "spawn", "turn", "answer", "collect", "result", "review",
          "checkpoint", "exit", "handoff", "complete", "raised", "artifact",
          "seal_package", "seal_preflight", "seal_worker", "seal_review",
          "seal_checkpoint", "seal_exit", "seal_handoff"}
    BY DEF PCs, Sealing
  <1>4. CASE Lineages \/ SupervisorStep
    BY <1>1, <1>2, <1>3, <1>4, GoneType DEF Lineages, ExecuteGate, BeginLevel, ExitGate, CompleteLevel,
       SupervisorStep, Launch, PreflightBlocked, HandleFailure, Raise, GateState, Supervised
  <1>5. CASE Seals \/ Packages \/ Preflights \/ Closings
    BY <1>1, <1>2, <1>3, <1>5 DEF Seals, Packages, Preflights, Closings, SealPackage, SealPreflight,
       SealWorker, SealReview, SealCheckpoint, SealExit, SealHandoff, Seal, CreatePackage,
       RehydratePackage, PackageRefused, PreflightResumed, PreflightRun, Resumed,
       ReviewResumed, Review, CheckpointResumed, Checkpoint,
       ExitResumed, ExitLevel, WriteHandoff, Raise, RaiseArtifact, GateState
  <1>6. CASE Workers
    BY <1>2, <1>3, <1>6 DEF Workers, WorkerResumed, WorkerResult, WorkerRequest, ExecuteWorker,
       SpawnRunner, TurnAnswered, Resumed, CommitCheckpoint, WriteResult, Raise
  <1>7. CASE RunnerStep
    BY <1>2, <1>3, <1>7 DEF RunnerStep, RunnerAccept, RunnerOpen, RunnerWrite, RunnerEnd,
       RunnerAcceptTimeout, Raise, disk
  <1>8. CASE Crash \/ Timeout
    BY <1>8, GoneType DEF Crash, Timeout
  <1>9. CASE Settled \/ UNCHANGED vars
    BY <1>9 DEF Settled, vars
  <1> QED
    BY <1>4, <1>5, <1>6, <1>7, <1>8, <1>9 DEF Next, GateStep

\* The types the proofs below read.
LEMMA WorktreeTypes ==
    ASSUME Typed
    PROVE  /\ level \in [Level -> Evidence] /\ tree \in [Level -> Edits]
           /\ runner \in Runner /\ gate \in GateState
           /\ runner.writing \subseteq Files /\ gate.changed \subseteq Files
           /\ gate.tested \in Edits
  BY DEF Typed, TypeOK, Runner, GateState

\* An edit of the runner stays within its level, and takes no dirty file back.
LEMMA RunnerEdits ==
    ASSUME Typed, RunnerOpen \/ RunnerWrite
    PROVE  /\ \A l \in Level : l # runner.lv => tree'[l] = tree[l]
           /\ \A l \in Level : Touched(tree[l]) \subseteq Touched(tree'[l])
           /\ gate' = gate /\ commits' = commits
           /\ runner.on = "turn" /\ runner'.lv = runner.lv /\ runner'.on = "turn"
  <1>1. tree \in [Level -> Edits] /\ runner \in Runner
    BY WorktreeTypes
  <1>2. /\ \/ \E f \in Files : tree' = [tree EXCEPT ![runner.lv][f] = 1] /\ runner' = [runner EXCEPT !.writing = {f}]
           \/ \E f \in runner.writing : tree' = [tree EXCEPT ![runner.lv][f] = 2] /\ runner' = [runner EXCEPT !.writing = {}]
        /\ gate' = gate /\ commits' = commits /\ runner.on = "turn"
    BY DEF RunnerOpen, RunnerWrite
  <1>3. ASSUME NEW f \in Files, NEW x \in {1, 2}, tree' = [tree EXCEPT ![runner.lv][f] = x]
        PROVE  /\ \A l \in Level : l # runner.lv => tree'[l] = tree[l]
               /\ \A l \in Level, g \in Files : tree[l][g] > 0 => tree'[l][g] > 0
    BY <1>1, <1>3 DEF Edits
  <1>4. /\ \A l \in Level : l # runner.lv => tree'[l] = tree[l]
        /\ \A l \in Level, g \in Files : tree[l][g] > 0 => tree'[l][g] > 0
    BY <1>2, <1>3, WorktreeTypes
  <1>5. runner'.lv = runner.lv /\ runner'.on = runner.on
    BY <1>1, <1>2 DEF Runner
  <1> QED
    BY <1>2, <1>4, <1>5 DEF Touched

\* The file a runner opens had no write intent, and it is half written from then on.
LEMMA Opens ==
    ASSUME Typed, RunnerOpen, runner.lv \in Level
    PROVE  \E f \in Files :
             /\ f \notin level[runner.lv].journal
             /\ level'[runner.lv].journal = level[runner.lv].journal \union {f}
             /\ runner'.writing = {f} /\ runner.writing = {}
             /\ tree'[runner.lv] = [tree[runner.lv] EXCEPT ![f] = 1]
  <1>1. /\ level \in [Level -> Evidence] /\ tree \in [Level -> Edits] /\ runner \in Runner
    BY WorktreeTypes
  <1>2. PICK f \in Files \ level[runner.lv].journal :
          /\ level' = [level EXCEPT ![runner.lv].journal = @ \union {f}]
          /\ tree' = [tree EXCEPT ![runner.lv][f] = 1]
          /\ runner' = [runner EXCEPT !.writing = {f}]
    BY DEF RunnerOpen
  <1>3. level'[runner.lv].journal = level[runner.lv].journal \union {f}
    BY <1>1, <1>2 DEF Evidence
  <1>4. runner'.writing = {f} /\ tree'[runner.lv] = [tree[runner.lv] EXCEPT ![f] = 1]
    BY <1>1, <1>2 DEF Runner
  <1>5. runner.writing = {}
    BY DEF RunnerOpen
  <1> QED
    BY <1>2, <1>3, <1>4, <1>5

\* The file it writes is the one it had open.
LEMMA Writes ==
    ASSUME Typed, RunnerWrite, runner.lv \in Level
    PROVE  \E f \in runner.writing :
             /\ tree'[runner.lv] = [tree[runner.lv] EXCEPT ![f] = 2]
             /\ runner'.writing = {} /\ level' = level
  <1>1. tree \in [Level -> Edits] /\ runner \in Runner
    BY WorktreeTypes
  <1>2. PICK f \in runner.writing : tree' = [tree EXCEPT ![runner.lv][f] = 2]
    BY DEF RunnerWrite
  <1>3. tree'[runner.lv] = [tree[runner.lv] EXCEPT ![f] = 2]
    BY <1>1, <1>2
  <1>4. runner'.writing = {} /\ level' = level
    BY <1>1 DEF RunnerWrite, Runner
  <1> QED
    BY <1>3, <1>4

\* Any other step that touches the runner leaves it nothing to write.
LEMMA RunnerIdle ==
    ASSUME Core, Journaled, [Next]_vars, ~RunnerOpen, ~RunnerWrite, runner' # runner
    PROVE  /\ runner'.writing = {}
           /\ runner'.on # "off" => level'[runner'.lv].package = "SEALED"
  <1>1. Typed /\ runner \in Runner /\ level \in [Level -> Evidence]
    BY WorktreeTypes DEF Core
  <1>2. CASE SpawnRunner
    <2>1. gate.pc = "spawn" /\ level' = level /\ runner'.lv = gate.lv /\ runner'.writing = {}
      BY <1>2 DEF SpawnRunner, GateAt, disk
    <2>2. level[gate.lv].package = "SEALED"
      BY <2>1 DEF Core, InProgress, Packaged, PastPackage, PastPreflight, Executing
    <2> QED
      BY <2>1, <2>2
  <1>3. CASE Crash \/ RunnerEnd \/ RunnerAcceptTimeout
    BY <1>3, GoneType DEF Crash, RunnerEnd, RunnerAcceptTimeout, RunnerGone, NoRunner
  <1>4. CASE RunnerAccept
    <2>1. runner.writing = {} /\ runner.on # "off"
      BY <1>4 DEF RunnerAccept, Journaled
    <2>2. CASE runner' = [runner EXCEPT !.on = "turn"]
      <3>1. runner'.writing = {} /\ runner'.lv = runner.lv
        BY <1>1, <2>1, <2>2 DEF Runner
      <3>2. runner.lv \in Level /\ level[runner.lv].package = "SEALED"
        BY <1>1, <2>1 DEF Typed, Journaled
      <3> QED
        BY <1>1, <3>1, <3>2, PackageKept
    <2>3. CASE runner' = NoRunner
      BY <2>3, GoneType DEF NoRunner
    <2> QED
      BY <1>4, <2>2, <2>3 DEF RunnerAccept, RunnerGone
  <1> QED
    BY <1>2, <1>3, <1>4, RunnerKept DEF RunnerStep

\* The journal knows every file a runner has at work or left dirty.
LEMMA JournaledStep == Core /\ Core' /\ Journaled /\ [Next]_vars => Journaled'
  <1> SUFFICES ASSUME Core, Core', Journaled, [Next]_vars PROVE Journaled'
    OBVIOUS
  <1>1. /\ Typed /\ runner \in Runner /\ tree \in [Level -> Edits] /\ level \in [Level -> Evidence]
        /\ \A l \in Level : Touched(tree[l]) \subseteq level[l].journal
    BY WorktreeTypes DEF Core, Journaled
  <1>2. \A l \in Level : /\ level[l].package = "SEALED" => level'[l].package = "SEALED"
                         /\ level[l].journal \subseteq level'[l].journal
    BY <1>1, PackageKept
  <1>3. ASSUME tree' = tree \/ CommitCheckpoint, NEW l \in Level
        PROVE  Touched(tree'[l]) \subseteq Touched(tree[l])
    <2>1. \/ tree' = tree
          \/ tree' = [tree EXCEPT ![gate.lv] = Only(tree[gate.lv], Files \ gate.changed)]
      BY <1>3 DEF CommitCheckpoint
    <2>2. \A f \in Files : tree'[l][f] > 0 => tree[l][f] > 0
      BY <1>1, <2>1 DEF Only
    <2> QED
      BY <2>2 DEF Touched
  <1>4. CASE RunnerOpen
    <2>1. runner.on = "turn" /\ runner'.on = "turn" /\ runner'.lv = runner.lv /\ runner.lv \in Level
      BY <1>1, <1>4, RunnerEdits DEF Typed
    <2>2. PICK f \in Files :
             /\ level'[runner.lv].journal = level[runner.lv].journal \union {f}
             /\ runner'.writing = {f}
             /\ tree'[runner.lv] = [tree[runner.lv] EXCEPT ![f] = 1]
      BY <1>1, <1>4, <2>1, Opens
    <2>3. ASSUME NEW l \in Level PROVE Touched(tree'[l]) \subseteq level'[l].journal
      <3>1. CASE l = runner.lv
        <4>1. Touched(tree'[l]) \subseteq Touched(tree[l]) \union {f}
          BY <1>1, <2>2, <3>1 DEF Touched, Edits
        <4> QED
          BY <1>1, <2>2, <3>1, <4>1
      <3>2. CASE l # runner.lv
        BY <1>1, <1>2, <1>4, <3>2, RunnerEdits
      <3> QED
        BY <3>1, <3>2
    <2>4. level'[runner.lv].package = "SEALED"
      BY <1>2, <2>1 DEF Journaled
    <2> QED
      BY <2>1, <2>2, <2>3, <2>4 DEF Journaled
  <1>5. CASE RunnerWrite
    <2>1. runner.on = "turn" /\ runner'.on = "turn" /\ runner'.lv = runner.lv /\ runner.lv \in Level
      BY <1>1, <1>5, RunnerEdits DEF Typed
    <2>2. PICK f \in runner.writing :
             /\ tree'[runner.lv] = [tree[runner.lv] EXCEPT ![f] = 2]
             /\ runner'.writing = {} /\ level' = level
      BY <1>1, <1>5, <2>1, Writes
    <2>3. f \in level[runner.lv].journal
      BY <2>1, <2>2 DEF Journaled
    <2>4. ASSUME NEW l \in Level PROVE Touched(tree'[l]) \subseteq level'[l].journal
      <3>1. CASE l = runner.lv
        <4>1. Touched(tree'[l]) \subseteq Touched(tree[l]) \union {f}
          BY <1>1, <2>2, <3>1 DEF Touched, Edits
        <4> QED
          BY <1>1, <2>2, <2>3, <3>1, <4>1
      <3>2. CASE l # runner.lv
        BY <1>1, <1>2, <1>5, <3>2, RunnerEdits
      <3> QED
        BY <3>1, <3>2
    <2>5. level'[runner.lv].package = "SEALED"
      BY <1>2, <2>1 DEF Journaled
    <2> QED
      BY <2>1, <2>2, <2>4, <2>5 DEF Journaled
  <1>6. CASE ~RunnerOpen /\ ~RunnerWrite
    <2>1. \A l \in Level : Touched(tree'[l]) \subseteq level'[l].journal
      <3>1. tree' = tree \/ CommitCheckpoint
        BY <1>6, TreeKept
      <3> QED
        BY <1>1, <1>2, <1>3, <3>1
    <2>2. CASE runner' # runner
      BY <1>6, <2>1, <2>2, RunnerIdle DEF Journaled
    <2>3. CASE runner' = runner
      <3>1. runner.on # "off" => runner.lv \in Level
        BY <1>1 DEF Typed
      <3> QED
        BY <1>2, <2>1, <2>3, <3>1 DEF Journaled
    <2> QED
      BY <2>2, <2>3
  <1> QED
    BY <1>4, <1>5, <1>6

\* The file it has open stays half written until its level is committed.
LEMMA OpenedStep == Core /\ Core' /\ Journaled /\ Opened /\ [Next]_vars => Opened'
  <1> SUFFICES ASSUME Core, Core', Journaled, Opened, [Next]_vars,
                      (runner.on = "turn" /\ NeedsCommit(runner.lv))', NEW f \in runner'.writing
               PROVE  tree'[runner'.lv][f] = 1
    BY DEF Opened
  <1>1. Typed /\ tree \in [Level -> Edits]
    BY WorktreeTypes DEF Core
  <1>2. CASE RunnerOpen
    <2>1. runner'.lv = runner.lv /\ runner.lv \in Level
      BY <1>1, <1>2, RunnerEdits DEF Typed
    <2>2. PICK g \in Files : /\ runner'.writing = {g}
                              /\ tree'[runner.lv] = [tree[runner.lv] EXCEPT ![g] = 1]
      BY <1>1, <1>2, <2>1, Opens
    <2>3. f = g /\ tree[runner.lv] \in Edits
      BY <1>1, <2>1, <2>2
    <2> QED
      BY <2>1, <2>2, <2>3 DEF Edits
  <1>3. ~RunnerWrite
    <2>1. ASSUME RunnerWrite PROVE FALSE
      <3>1. runner.lv \in Level
        BY <1>1, <2>1 DEF RunnerWrite, Typed
      <3> QED
        BY <1>1, <2>1, <3>1, Writes
    <2> QED
      BY <2>1
  <1>4. CASE ~RunnerOpen
    <2>1. runner' = runner
      BY <1>3, <1>4, RunnerIdle
    <2>2. runner.on = "turn" /\ runner.lv \in Level /\ level[runner.lv].package = "SEALED"
      BY <1>1, <2>1 DEF Typed, Journaled
    <2>3. NeedsCommit(runner.lv)'
      BY <2>1
    <2>4. CASE commits' = commits
      <3>1. tree' = tree
        <4>1. CASE CommitCheckpoint
          BY <2>4, <4>1 DEF CommitCheckpoint, Core, Typed, TypeOK
        <4> QED
          BY <1>3, <1>4, <4>1, TreeKept
      <3>2. NeedsCommit(runner.lv)
        BY <2>2, <2>3, <2>1, <2>4, NeedKept
      <3> QED
        BY <2>1, <2>2, <3>1, <3>2 DEF Opened
    <2>5. CASE commits' # commits
      <3>1. CommitCheckpoint
        BY <2>5, CommitsKept
      <3> QED
        BY <2>1, <2>2, <2>3, <2>5, <3>1, PastPackages
    <2> QED
      BY <2>4, <2>5
  <1> QED
    BY <1>2, <1>4

\* While the executor has its changes collected, the step of another process leaves
\* its level where it is.
LEMMA Meanwhile ==
    ASSUME Core, [Next]_vars, gate' = gate, gate.pc \in {"validate", "commit"},
           NeedsCommit(gate.lv)'
    PROVE  /\ gate.lv \in Level /\ NeedsCommit(gate.lv)
           /\ tree' = tree \/ RunnerOpen \/ RunnerWrite
  <1>1. Typed /\ gate \in GateState
    BY WorktreeTypes DEF Core
  <1>2. ~CommitCheckpoint
    <2>1. CommitCheckpoint => Goto("result")
      BY DEF CommitCheckpoint
    <2>2. Goto("result") => gate'.pc = "result"
      BY <1>1, Moved DEF PCs
    <2> QED
      BY <2>1, <2>2
  <1>3. gate.pc \in Packaged /\ gate.pc \in InLevel
    BY DEF InLevel, Packaged, PastPackage, PastPreflight, Executing
  <1>4. gate.lv \in Level /\ level[gate.lv].package = "SEALED"
    BY <1>1, <1>3 DEF Typed, Core, InProgress
  <1>5. commits' = commits
    BY <1>2, CommitsKept
  <1>6. NeedsCommit(gate.lv)' <=> NeedsCommit(gate.lv)
    BY <1>4, <1>5, NeedKept
  <1> QED
    BY <1>2, <1>4, <1>6, TreeKept

\* What was collected stays dirty up to the commit.
LEMMA TakenStep == IInv /\ Taken /\ [Next]_vars => Taken'
  <1> SUFFICES ASSUME IInv, Taken, [Next]_vars,
                      gate'.pc \in {"validate", "commit"}, NeedsCommit(gate.lv)'
               PROVE  gate'.changed \subseteq Touched(tree'[gate'.lv])
    BY DEF Taken
  <1>1. Core /\ Typed /\ Supervised /\ gate \in GateState
    BY WorktreeTypes DEF IInv, Core
  <1>2. CASE gate' = gate
    <2>1. NeedsCommit(gate.lv)'
      BY <1>2
    <2>2. /\ gate.lv \in Level /\ NeedsCommit(gate.lv)
          /\ tree' = tree \/ RunnerOpen \/ RunnerWrite
      BY <1>1, <1>2, <2>1, Meanwhile
    <2>3. Touched(tree[gate.lv]) \subseteq Touched(tree'[gate.lv])
      BY <1>1, <2>2, RunnerEdits
    <2> QED
      BY <1>2, <2>2, <2>3 DEF Taken
  <1>3. CASE CollectChanges
    <2>1. /\ start' = start /\ level' = level /\ tree' = tree /\ commits' = commits
      BY <1>3 DEF CollectChanges, disk
    <2>2. ~Raise
      BY <1>1, Moved DEF Raise, PCs
    <2> DEFINE ch == IF HEAD = level[gate.lv].source THEN Touched(tree[gate.lv])
                     ELSE Touched(commits[Len(commits)].content)
    <2>3. gate' = [gate EXCEPT !.pc = "validate", !.changed = ch]
      BY <1>3, <2>2 DEF CollectChanges
    <2> HIDE DEF ch
    <2>4. gate'.changed = ch /\ gate'.lv = gate.lv
      BY <1>1, <2>3 DEF GateState
    <2>5. NeedsCommit(gate.lv)
      BY <2>1, <2>4 DEF NeedsCommit, HEAD
    <2>6. ch = Touched(tree[gate.lv])
      BY <2>5 DEF NeedsCommit, ch
    <2> QED
      BY <2>1, <2>4, <2>6
  <1>4. CASE Validate
    <2>1. /\ start' = start /\ level' = level /\ tree' = tree /\ commits' = commits
          /\ gate.pc = "validate"
      BY <1>4 DEF Validate, GateAt, disk
    <2>2. ~Raise
      BY <1>1, Moved DEF Raise, PCs
    <2>3. gate' = [gate EXCEPT !.pc = "commit", !.tested = tree[gate.lv]]
      BY <1>4, <2>2 DEF Validate
    <2>4. gate'.changed = gate.changed /\ gate'.lv = gate.lv
      BY <1>1, <2>3 DEF GateState
    <2>5. NeedsCommit(gate.lv)
      BY <2>1, <2>4 DEF NeedsCommit, HEAD
    <2> QED
      BY <2>1, <2>4, <2>5 DEF Taken
  <1> QED
    BY <1>1, <1>2, <1>3, <1>4, WorkEntry

\* A runner that opens one more file opens none that was collected.
LEMMA OpensAnother ==
    ASSUME Typed, Journaled, Taken, Raced, RunnerOpen, gate.lv \in Level,
           gate.pc = "commit", NeedsCommit(gate.lv)
    PROVE  /\ Racing' = Racing
           /\ \A f \in Racing : tree'[gate.lv][f] = tree[gate.lv][f]
           /\ runner'.lv = gate.lv => runner'.writing \intersect gate.changed = {}
  <1>1. /\ tree \in [Level -> Edits] /\ gate.changed \subseteq Files
        /\ runner'.lv = runner.lv /\ runner.lv \in Level /\ gate' = gate
        /\ \A l \in Level : l # runner.lv => tree'[l] = tree[l]
    BY WorktreeTypes, RunnerEdits DEF Typed
  <1>2. CASE runner.lv # gate.lv
    BY <1>1, <1>2 DEF Racing
  <1>3. CASE runner.lv = gate.lv
    <2>1. PICK f \in Files :
             /\ f \notin level[runner.lv].journal
             /\ runner'.writing = {f}
             /\ tree'[runner.lv] = [tree[runner.lv] EXCEPT ![f] = 1]
      BY <1>1, Opens
    <2>2. f \notin gate.changed
      BY <1>1, <1>3, <2>1 DEF Journaled, Taken
    <2>3. \A g \in gate.changed : tree'[gate.lv][g] = tree[gate.lv][g]
      BY <1>1, <1>3, <2>1, <2>2 DEF Edits
    <2> QED
      BY <1>1, <2>1, <2>2, <2>3 DEF Racing
  <1> QED
    BY <1>2, <1>3

\* A runner that completes a file completes one that was collected at most once,
\* and then it is one of a Gate that was terminated.
LEMMA WritesOnce ==
    ASSUME Typed, Attended, Journaled, Opened, Raced, RunnerWrite, gate.lv \in Level,
           gate.pc = "commit", NeedsCommit(gate.lv)
    PROVE  \A f \in Racing' :
             /\ faults.timeouts > 0 /\ Racing' = {f}
             /\ gate.tested[f] = 1 /\ tree'[gate.lv][f] = 2
             /\ runner'.lv = gate.lv => runner'.writing \intersect gate.changed = {}
  <1>1. /\ tree \in [Level -> Edits] /\ gate.changed \subseteq Files
        /\ runner'.lv = runner.lv /\ runner.lv \in Level /\ gate' = gate /\ runner.on = "turn"
        /\ \A l \in Level : l # runner.lv => tree'[l] = tree[l]
    BY WorktreeTypes, RunnerEdits DEF Typed
  <1>2. faults.timeouts > 0
    <2>1. faults.timeouts \in Nat
      BY DEF Typed, TypeOK
    <2> QED
      BY <1>1, <2>1 DEF Attended
  <1>3. PICK f \in runner.writing :
           /\ tree'[runner.lv] = [tree[runner.lv] EXCEPT ![f] = 2]
           /\ runner'.writing = {}
    BY <1>1, Writes
  <1>4. CASE runner.lv # gate.lv \/ f \notin gate.changed
    <2>1. \A g \in gate.changed : tree'[gate.lv][g] = tree[gate.lv][g]
      BY <1>1, <1>3, <1>4 DEF Edits
    <2>2. Racing' = Racing
      BY <1>1, <2>1 DEF Racing
    <2>3. \A g \in Racing : g \in gate.changed
      BY DEF Racing
    <2> QED
      BY <1>3, <2>1, <2>2, <2>3 DEF Raced
  <1>5. CASE runner.lv = gate.lv /\ f \in gate.changed
    <2>1. Racing = {}
      BY <1>3, <1>5 DEF Raced
    <2>2. tree[gate.lv][f] = 1
      BY <1>1, <1>3, <1>5 DEF Opened
    <2>3. gate.tested[f] = 1
      BY <1>5, <2>1, <2>2 DEF Racing
    <2>4. \A g \in gate.changed : g # f => tree'[gate.lv][g] = gate.tested[g]
      BY <1>1, <1>3, <1>5, <2>1 DEF Racing, Edits
    <2>5. tree'[gate.lv][f] = 2
      BY <1>1, <1>3, <1>5 DEF Edits
    <2>6. Racing' = {f}
      BY <1>1, <1>5, <2>3, <2>4, <2>5 DEF Racing
    <2> QED
      BY <1>2, <1>3, <2>3, <2>5, <2>6
  <1> QED
    BY <1>4, <1>5

\* Timeouts that there were are not forgotten.
LEMMA TimeoutsCounted ==
    ASSUME Typed, Typed', [Next]_vars, faults.timeouts > 0
    PROVE  faults'.timeouts > 0
  <1>1. faults.timeouts \in Nat /\ faults'.timeouts \in Nat
    BY DEF Typed, TypeOK
  <1> QED
    BY <1>1, NoTimeoutBefore

\* At most the one file a runner had open at the validations changes after them.
LEMMA RacedStep == IInv /\ IInv' /\ Worktree /\ [Next]_vars => Raced'
  <1> SUFFICES ASSUME IInv, IInv', Worktree, [Next]_vars,
                      gate'.pc = "commit", NeedsCommit(gate.lv)', NEW f \in Racing'
               PROVE  /\ faults'.timeouts > 0 /\ Racing' = {f}
                      /\ gate'.tested[f] = 1 /\ tree'[gate'.lv][f] = 2
                      /\ runner'.lv = gate'.lv => runner'.writing \intersect gate'.changed = {}
    BY DEF Raced
  <1>1. Core /\ Typed /\ Typed' /\ Supervised /\ gate \in GateState /\ Journaled /\ Taken
        /\ Opened /\ Raced /\ Attended
    BY WorktreeTypes DEF IInv, Core, Worktree
  <1>2. ~CollectChanges
    <2>1. ASSUME CollectChanges PROVE gate'.pc \in {"validate", "raised"}
      BY <1>1, <2>1, Moved DEF CollectChanges, Raise, GateState, PCs
    <2> QED
      BY <2>1
  <1>3. ~Validate
    <2>1. ASSUME Validate PROVE Racing' = {}
      <3>1. tree' = tree /\ ~Raise
        BY <1>1, <2>1, Moved DEF Validate, Raise, PCs, disk
      <3>2. gate' = [gate EXCEPT !.pc = "commit", !.tested = tree[gate.lv]]
        BY <2>1, <3>1 DEF Validate
      <3>3. gate'.lv = gate.lv /\ gate'.tested = tree[gate.lv]
        BY <1>1, <3>2 DEF GateState
      <3> QED
        BY <3>1, <3>3 DEF Racing
    <2> QED
      BY <2>1
  <1>4. gate' = gate
    BY <1>1, <1>2, <1>3, WorkEntry
  <1>5. gate.pc = "commit" /\ NeedsCommit(gate.lv)'
    BY <1>4
  <1>6. /\ gate.lv \in Level /\ NeedsCommit(gate.lv)
        /\ tree' = tree \/ RunnerOpen \/ RunnerWrite
    BY <1>1, <1>4, <1>5, Meanwhile
  <1>7. CASE RunnerOpen
    <2>1. /\ Racing' = Racing /\ tree'[gate.lv][f] = tree[gate.lv][f]
          /\ runner'.lv = gate.lv => runner'.writing \intersect gate.changed = {}
      BY <1>1, <1>5, <1>6, <1>7, OpensAnother
    <2>2. /\ faults.timeouts > 0 /\ Racing = {f}
          /\ gate.tested[f] = 1 /\ tree[gate.lv][f] = 2
      BY <1>1, <1>5, <1>6, <2>1 DEF Raced
    <2> QED
      BY <1>1, <1>4, <2>1, <2>2, TimeoutsCounted
  <1>8. CASE RunnerWrite
    <2>1. /\ faults.timeouts > 0 /\ Racing' = {f}
          /\ gate.tested[f] = 1 /\ tree'[gate.lv][f] = 2
          /\ runner'.lv = gate.lv => runner'.writing \intersect gate.changed = {}
      BY <1>1, <1>5, <1>6, <1>8, WritesOnce
    <2> QED
      BY <1>1, <1>4, <2>1, TimeoutsCounted
  <1>9. CASE tree' = tree /\ ~RunnerOpen /\ ~RunnerWrite
    <2>1. Racing' = Racing
      BY <1>4, <1>9 DEF Racing
    <2>2. /\ faults.timeouts > 0 /\ Racing = {f}
          /\ gate.tested[f] = 1 /\ tree[gate.lv][f] = 2
          /\ runner.lv = gate.lv => runner.writing \intersect gate.changed = {}
      BY <1>1, <1>5, <1>6, <2>1 DEF Raced
    <2>3. runner' = runner \/ runner'.writing = {}
      BY <1>1, <1>9, RunnerIdle
    <2> QED
      BY <1>1, <1>4, <1>9, <2>1, <2>2, <2>3, TimeoutsCounted
  <1> QED
    BY <1>6, <1>7, <1>8, <1>9

\* Nothing is edited and nothing committed initially.
LEMMA WorktreeInit == Init => Worktree /\ CommittedIsValidated
  <1> SUFFICES ASSUME Init PROVE Worktree /\ CommittedIsValidated
    OBVIOUS
  <1>1. /\ gate.pc = "off" /\ runner.on = "off" /\ runner.writing = {} /\ commits = <<>>
        /\ \A l \in Level : Touched(tree[l]) = {}
    BY GoneType DEF Init, NoRunner, NoEdits, Touched
  <1> QED
    BY <1>1, AttendedInit
       DEF Worktree, Journaled, Opened, Taken, Raced, CommittedIsValidated

\* The invariant of the worktree is inductive.
LEMMA WorktreeStep == IInv /\ IInv' /\ Worktree /\ [Next]_vars => Worktree'
  BY AttendedStep, JournaledStep, OpenedStep, TakenStep, RacedStep DEF Worktree, IInv

\* The commit takes what was raced for, and nothing else that was not validated.
LEMMA CommittedStep ==
    ASSUME IInv, IInv', Worktree, CommittedIsValidated, [Next]_vars
    PROVE  CommittedIsValidated'
  <1>1. Typed /\ Typed' /\ commits \in Seq(Checkpoints)
    BY DEF IInv, Core, Typed, TypeOK
  <1>2. faults.timeouts > 0 => faults'.timeouts > 0
    BY <1>1, TimeoutsCounted
  <1>3. CASE commits' = commits
    BY <1>2, <1>3 DEF CommittedIsValidated
  <1>4. CASE commits' # commits
    <2>1. CommitCheckpoint /\ NeedsCommit(gate.lv) /\ gate.pc = "commit" /\ Raced
          /\ gate.changed \subseteq Files
      BY <1>1, <1>4, CommitsKept, WorktreeTypes DEF CommitCheckpoint, GateAt, Worktree
    <2> DEFINE C == [lv |-> gate.lv, content |-> Only(tree[gate.lv], gate.changed),
                     tested |-> Only(gate.tested, gate.changed)]
    <2>2. commits' = Append(commits, C)
      BY <2>1 DEF CommitCheckpoint
    <2>3. \A f \in Files :
            /\ C.content[f] = IF f \in gate.changed THEN tree[gate.lv][f] ELSE 0
            /\ C.tested[f] = IF f \in gate.changed THEN gate.tested[f] ELSE 0
      BY DEF Only
    <2> HIDE DEF C
    <2>4. Drifted(C) = Racing
      BY <2>1, <2>3 DEF Drifted, Racing
    <2>5. \A f \in Drifted(C) : /\ faults.timeouts > 0 /\ Drifted(C) = {f}
                                /\ C.tested[f] = 1 /\ C.content[f] = 2
      BY <2>1, <2>3, <2>4 DEF Raced, Racing
    <2>6. /\ DOMAIN commits = 1..Len(commits) /\ Len(commits) \in Nat
          /\ DOMAIN commits' = 1..(Len(commits) + 1)
          /\ \A i \in 1..Len(commits) : commits'[i] = commits[i]
          /\ commits'[Len(commits) + 1] = C
      BY <1>1, <2>2
    <2>7. ASSUME NEW i \in 1..(Len(commits) + 1), NEW f \in Drifted(commits'[i])
          PROVE  /\ faults.timeouts > 0 /\ Drifted(commits'[i]) = {f}
                 /\ commits'[i].tested[f] = 1 /\ commits'[i].content[f] = 2
      <3>1. CASE i \in 1..Len(commits)
        BY <2>6, <2>7, <3>1 DEF CommittedIsValidated
      <3>2. CASE i = Len(commits) + 1
        BY <2>5, <2>6, <2>7, <3>2
      <3> QED
        BY <2>6, <2>7, <3>1, <3>2
    <2> QED
      BY <1>2, <2>6, <2>7 DEF CommittedIsValidated
  <1> QED
    BY <1>3, <1>4

\* A checkpoint commit holds what its validations ran on, whatever was killed or
\* terminated on the way, except for one file that the runner of a terminated Gate
\* was in the middle of writing when they ran and has completed since.
THEOREM CommitsAreValidated == Spec => []CommittedIsValidated
  <1>1. IInv /\ IInv' /\ Worktree /\ CommittedIsValidated /\ [Next]_vars
          => Worktree' /\ CommittedIsValidated'
    BY WorktreeStep, CommittedStep
  <1> QED
    BY <1>1, WorktreeInit, Invariance, PTL DEF Spec
=============================================================================
