--------------------------- MODULE ProviderAction ---------------------------
(***************************************************************************)
(* The WORKER stage of a level whose work is routed to an API provider.    *)
(* The provider only proposes: execute_provider_action_proposal asks the   *)
(* approved models in turn until one answers with a proposal that passes,  *)
(* keeps the proposal in a file that is created once, and performs its     *)
(* writes through the tool broker, whose journal holds an intent before    *)
(* and a receipt after each of them.  The worker then validates the        *)
(* worktree, has a failed validation remediated by a further proposal in a *)
(* directory of its own, and commits; the review accepts the commit only   *)
(* with a governed effect for every changed file.                          *)
(*                                                                         *)
(* The supervisor retries the level; the service may be killed at any      *)
(* step.  A dirty worktree found then is taken for the work of the         *)
(* interrupted attempt.                                                    *)
(***************************************************************************)
EXTENDS Integers, Sequences, FiniteSets

CONSTANTS
  Files,            \* the write targets within the owned scopes
  Exact,            \* those that are owned by name, not through a directory
  Models,           \* model_ref and model_fallback_refs, in order; the routing
                    \* decision takes no model twice
  MaxGenerations,   \* MAX_PROPOSAL_GENERATION_ATTEMPTS
  MaxRemediations,  \* MAX_PROVIDER_ACTION_VALIDATION_REMEDIATIONS
  RetryBudget,      \* retry_budget of the supervisor
  MaxCrashes        \* deaths of the service (bound)

ASSUME ActionAssumption ==
  /\ IsFiniteSet(Files) /\ Files # {} /\ Exact \subseteq Files
  /\ Models \in Seq(STRING) /\ Models # <<>>
  /\ \A i, j \in DOMAIN Models : Models[i] = Models[j] => i = j
  /\ MaxGenerations \in Nat \ {0} /\ MaxRemediations \in Nat
  /\ RetryBudget \in Nat /\ MaxCrashes \in Nat

VARIABLES
  existing,  \* the files that exist at the baseline
  flaky,     \* whether calls, scans, writes and validations may fail
  tree,      \* the worktree: each file as committed, half written or written
  dirs,      \* the output directory (0) and those of the remediations
  commit,    \* the worker result: the content it commits and its effects
  proc,      \* the worker, in the Gate process
  sup,       \* the supervisor's view of the level
  crashes    \* crashes so far

vars == <<existing, flaky, tree, dirs, commit, proc, sup, crashes>>

----------------------------------------------------------------------------
(* Data *)

Content == {"BASE", "PARTIAL", "WRITTEN"}
Unchanged == [f \in Files |-> "BASE"]
Changed(t) == {f \in Files : t[f] # "BASE"}

\* proposal: the targets of provider-action-proposal.json, empty without one;
\* journal: provider-action-effects.
Directory == 0..MaxRemediations
EmptyDirectory == [proposal |-> {}, journal |-> [f \in Files |-> "NONE"]]

NoCommit == [done |-> FALSE, content |-> Unchanged, effects |-> {}]

\* todo: the segments still to be generated; asked and rejected: the models of
\* the current segment; drafts: the writes generated; pending: the writes not
\* yet done, target the one being done; effects: governed_effect_evidence.
NoProc ==
  [pc |-> "off", dir |-> 0, todo |-> {}, asked |-> <<>>, rejected |-> {},
   drafts |-> {}, pending |-> {}, target |-> {}, effects |-> {}, remediations |-> 0]

At(pc) == proc.pc = pc
Goto(pc) == proc' = [proc EXCEPT !.pc = pc]
Raise == Goto("raised")

Missing == {f \in Exact : f \notin existing /\ tree[f] = "BASE"}

\* A fresh level of several named files is generated file by file.
Segmented == Exact = Files /\ Missing = Files /\ Cardinality(Files) > 1
Segments == IF Segmented THEN {{f} : f \in Files} ELSE {Files}

Init ==
  /\ existing \in SUBSET Exact
  /\ flaky \in BOOLEAN
  /\ tree = Unchanged
  /\ dirs = [d \in Directory |-> EmptyDirectory]
  /\ commit = NoCommit
  /\ proc = NoProc
  /\ sup = [state |-> "READY", attempt |-> 1]
  /\ crashes = 0

----------------------------------------------------------------------------
(* The worker starts *)

\* execute_provider_action_proposal in the directory d.
Propose(p, d) ==
  [p EXCEPT !.pc = "generate", !.dir = d, !.todo = Segments, !.asked = <<>>,
            !.rejected = {}, !.drafts = {}]

\* A worker result that is there goes to its review; a dirty worktree is validated as
\* it is (RESUMED_PENDING_CHECKPOINT), without effects of this process.
Start ==
  /\ sup.state = "READY"
  /\ sup' = [sup EXCEPT !.state = "RUNNING"]
  /\ proc' = CASE commit.done -> [NoProc EXCEPT !.pc = "review"]
               [] ~commit.done /\ Changed(tree) # {} -> [NoProc EXCEPT !.pc = "collect"]
               [] OTHER -> Propose(NoProc, 0)
  /\ UNCHANGED <<existing, flaky, tree, dirs, commit, crashes>>

----------------------------------------------------------------------------
(* Generation *)

\* Mutant of Rejected: a model that failed is not remembered.
RejectedNone(m) == proc.rejected

Rejected(m) == proc.rejected \union {m}

\* The first approved model that has not been rejected; the first one again when
\* all have.
RequestedModel ==
  LET left == {i \in DOMAIN Models : Models[i] \notin proc.rejected} IN
  IF left = {} THEN Models[1]
  ELSE Models[CHOOSE i \in left : \A j \in left : i <= j]

\* Mutant of Proposals: a new file may be left out.
ProposalsOfAny(segment) == {w \in SUBSET segment : w # {}}

\* validate_action_proposal: what a segment's proposal may write.
Proposals(segment) ==
  {w \in SUBSET segment : w # {} /\ (Missing \intersect segment) \subseteq w}

\* One call of the provider, whose answer is a proposal that is valid in itself
\* and passes the focused tests in a sandbox.
Generated ==
  /\ At("generate")
  /\ \E s \in proc.todo : \E w \in Proposals(s) :
       proc' = [proc EXCEPT !.todo = @ \ {s}, !.drafts = @ \union w, !.asked = <<>>,
                            !.rejected = {},
                            !.pc = IF proc.todo = {s} THEN "propose" ELSE "generate"]
  /\ UNCHANGED <<existing, flaky, tree, dirs, commit, sup, crashes>>

\* A retryable provider error, or a proposal that can be corrected: the model is
\* rejected and the next one asked, until the attempts are used up.
GenerationRejected ==
  /\ At("generate") /\ flaky
  /\ IF Len(proc.asked) + 1 < MaxGenerations
     THEN proc' = [proc EXCEPT !.asked = Append(@, RequestedModel),
                               !.rejected = Rejected(RequestedModel)]
     ELSE Raise
  /\ UNCHANGED <<existing, flaky, tree, dirs, commit, sup, crashes>>

\* Any other error ends the attempt, as does an answer of another model.
GenerationFailed ==
  /\ At("generate") /\ flaky
  /\ Raise
  /\ UNCHANGED <<existing, flaky, tree, dirs, commit, sup, crashes>>

\* The combined proposal is scanned, and kept in a file that must not exist.
KeepProposal ==
  /\ At("propose")
  /\ \/ /\ dirs[proc.dir].proposal = {}
        /\ dirs' = [dirs EXCEPT ![proc.dir].proposal = proc.drafts]
        /\ proc' = [proc EXCEPT !.pc = "write", !.pending = proc.drafts]
     \/ /\ flaky \/ dirs[proc.dir].proposal # {}
        /\ Raise
        /\ UNCHANGED dirs
  /\ UNCHANGED <<existing, flaky, tree, commit, sup, crashes>>

----------------------------------------------------------------------------
(* Effects: the broker, the journal and the launcher *)

Journal(d, f, status) == dirs' = [dirs EXCEPT ![d].journal[f] = status]

\* ToolEffectJournal.begin.  An intent is created once; one that exists already
\* ends the attempt.
BeginEffect ==
  /\ At("write")
  /\ \E f \in proc.pending :
       IF dirs[proc.dir].journal[f] = "NONE"
       THEN /\ Journal(proc.dir, f, "INTENT")
            /\ proc' = [proc EXCEPT !.pc = "open", !.target = {f}]
       ELSE Raise /\ UNCHANGED dirs
  /\ UNCHANGED <<existing, flaky, tree, commit, sup, crashes>>

\* The launcher opens, and thereby truncates, the file.
OpenFile ==
  /\ At("open")
  /\ \E f \in proc.target : tree' = [tree EXCEPT ![f] = "PARTIAL"]
  /\ Goto("writing")
  /\ UNCHANGED <<existing, flaky, dirs, commit, sup, crashes>>

\* The content is there; that of an existing file may be the committed one.
WriteFile ==
  /\ At("writing")
  /\ \E f \in proc.target :
       \E c \in IF f \in existing THEN {"WRITTEN", "BASE"} ELSE {"WRITTEN"} :
         tree' = [tree EXCEPT ![f] = c]
  /\ Goto("receipt")
  /\ UNCHANGED <<existing, flaky, dirs, commit, sup, crashes>>

\* The launcher raises, before or in the middle of the write.
EffectFails ==
  /\ proc.pc \in {"open", "writing"} /\ flaky
  /\ \E f \in proc.target : Journal(proc.dir, f, "FAILED")
  /\ Raise
  /\ UNCHANGED <<existing, flaky, tree, commit, sup, crashes>>

CompleteEffect ==
  /\ At("receipt")
  /\ \E f \in proc.target :
       /\ Journal(proc.dir, f, "COMPLETED")
       /\ proc' = [proc EXCEPT !.pending = @ \ {f}, !.target = {},
                               !.pc = IF proc.pending = {f} THEN "effects" ELSE "write"]
  /\ UNCHANGED <<existing, flaky, tree, commit, sup, crashes>>

\* collect_governed_write_effect_evidence of the directory's own journal; the
\* worker appends it to what earlier proposals of this process left.
Intents(d) == {f \in Files : dirs[d].journal[f] # "NONE"}
Ambiguous(d) == \E f \in Files : dirs[d].journal[f] = "INTENT"

CollectEffects ==
  /\ At("effects")
  /\ IF Ambiguous(proc.dir)
     THEN Raise
     ELSE proc' = [proc EXCEPT !.pc = "collect", !.effects = @ \union
            {[file |-> f, status |-> dirs[proc.dir].journal[f]] : f \in Intents(proc.dir)}]
  /\ UNCHANGED <<existing, flaky, tree, dirs, commit, sup, crashes>>

----------------------------------------------------------------------------
(* Validation, commit and review *)

\* A proposal that leaves no change ends the attempt; a remediation that takes the
\* changes back is validated all the same.
NothingToValidate == Changed(tree) = {} /\ proc.remediations = 0

CollectChanges ==
  /\ At("collect")
  /\ \/ ~NothingToValidate /\ Goto("validate")
     \/ (NothingToValidate \/ flaky) /\ Raise
  /\ UNCHANGED <<existing, flaky, tree, dirs, commit, sup, crashes>>

\* The validations may pass whatever the files hold.
ValidationPasses ==
  /\ At("validate")
  /\ Goto("commit")
  /\ UNCHANGED <<existing, flaky, tree, dirs, commit, sup, crashes>>

MayFailValidation == flaky \/ \E f \in Files : tree[f] = "PARTIAL"

\* Mutant of MayRemediate: one remediation too many.
MayRemediateAgain == proc.remediations <= MaxRemediations

MayRemediate == proc.remediations < MaxRemediations

\* A failed validation is remediated by a further proposal, in a directory that
\* is numbered within this process.
RemediateValidation ==
  /\ At("validate") /\ MayFailValidation
  /\ IF MayRemediate
     THEN proc' = [Propose(proc, proc.remediations + 1)
                     EXCEPT !.remediations = proc.remediations + 1]
     ELSE Raise
  /\ UNCHANGED <<existing, flaky, tree, dirs, commit, sup, crashes>>

\* A validation that times out or cannot be started is not remediated.
ValidationAborts ==
  /\ At("validate") /\ flaky
  /\ Raise
  /\ UNCHANGED <<existing, flaky, tree, dirs, commit, sup, crashes>>

\* Without changes there is no Git commit, but a worker result there is.
CommitCheckpoint ==
  /\ At("commit")
  /\ commit' = [done |-> TRUE, content |-> tree, effects |-> proc.effects]
  /\ tree' = Unchanged
  /\ Goto("review")
  /\ UNCHANGED <<existing, flaky, dirs, sup, crashes>>

\* Mutant of Governed: the scope of the effects is not compared with the commit.
GovernedBySome(c) ==
  /\ Changed(c.content) # {} /\ c.effects # {}
  /\ \A e \in c.effects : e.status = "COMPLETED"

\* _validate_production_provenance: every effect was performed, and every changed
\* file, of which there is one, is the target of one.
Governed(c) ==
  /\ Changed(c.content) # {} /\ c.effects # {}
  /\ \A e \in c.effects : e.status = "COMPLETED"
  /\ \A f \in Changed(c.content) : \E e \in c.effects : e.file = f

Review ==
  /\ At("review")
  /\ IF Governed(commit)
     THEN proc' = NoProc /\ sup' = [sup EXCEPT !.state = "PASSED"]
     ELSE Raise /\ UNCHANGED sup
  /\ UNCHANGED <<existing, flaky, tree, dirs, commit, crashes>>

----------------------------------------------------------------------------
(* The supervisor *)

\* Mutant of Retried: an attempt that is not counted.
RetriedForever(s) == [s EXCEPT !.state = "READY"]

Retried(s) ==
  IF s.attempt <= RetryBudget
  THEN [state |-> "READY", attempt |-> s.attempt + 1]
  ELSE [s EXCEPT !.state = "BLOCKED"]

HandleFailure ==
  /\ At("raised")
  /\ proc' = NoProc
  /\ sup' = Retried(sup)
  /\ UNCHANGED <<existing, flaky, tree, dirs, commit, crashes>>

\* HEAD is the checkpoint commit.
HeadMoved == commit.done /\ Changed(commit.content) # {}

\* The level is re-queued, unless its commit is already there: a Gate that was
\* killed then is not resumed (GateRun).
Crash ==
  /\ sup.state = "RUNNING" /\ crashes < MaxCrashes
  /\ crashes' = crashes + 1
  /\ proc' = NoProc
  /\ sup' = [state |-> IF HeadMoved THEN "BLOCKED" ELSE "READY",
             attempt |-> sup.attempt + 1]
  /\ UNCHANGED <<existing, flaky, tree, dirs, commit>>

Settled == sup.state \in {"PASSED", "BLOCKED"} /\ UNCHANGED vars

----------------------------------------------------------------------------
(* Specification *)

Generation == Generated \/ GenerationRejected \/ GenerationFailed \/ KeepProposal
Effects == BeginEffect \/ OpenFile \/ WriteFile \/ EffectFails \/ CompleteEffect \/ CollectEffects
Validation == \/ CollectChanges \/ ValidationPasses \/ RemediateValidation
              \/ ValidationAborts \/ CommitCheckpoint \/ Review

Step == Start \/ Generation \/ Effects \/ Validation \/ HandleFailure

Next == Step \/ Crash \/ Settled

Spec == Init /\ [][Next]_vars

\* Every call of a provider and of a test has a timeout, and the service restarts
\* a dead supervisor.
FairSpec == Spec /\ WF_vars(Step)

----------------------------------------------------------------------------
(* Properties *)

\* The types of a directory, an effect, the commit, the process and the queue item.
DirectoryState ==
  [proposal : SUBSET Files, journal : [Files -> {"NONE", "INTENT", "COMPLETED", "FAILED"}]]
Effect == [file : Files, status : {"COMPLETED", "FAILED"}]
Checkpoint == [done : BOOLEAN, content : [Files -> Content], effects : SUBSET Effect]

PCs == {"off", "generate", "propose", "write", "open", "writing", "receipt", "effects",
        "collect", "validate", "commit", "review", "raised"}
Process ==
  [pc : PCs, dir : Directory, todo : SUBSET SUBSET Files, asked : Seq(STRING),
   rejected : SUBSET STRING, drafts : SUBSET Files, pending : SUBSET Files,
   target : SUBSET Files, effects : SUBSET Effect, remediations : 0..MaxRemediations]
QueueItem == [state : {"READY", "RUNNING", "PASSED", "BLOCKED"}, attempt : Nat]

\* Types of the variables: the worktree, the proposals and journals, the process.
TypeOK ==
  /\ existing \in SUBSET Exact /\ flaky \in BOOLEAN
  /\ tree \in [Files -> Content]
  /\ dirs \in [Directory -> DirectoryState]
  /\ commit \in Checkpoint
  /\ proc \in Process
  /\ sup \in QueueItem
  /\ crashes \in 0..MaxCrashes

\* A level that passes its review holds only files that one proposal wrote to the
\* end, with a completed effect in the journal: neither a file half written by an
\* attempt that was killed, nor one whose write failed, gets through, although
\* the next attempt takes both over and the tests may pass on them.
ReviewedIsGoverned ==
  sup.state = "PASSED" =>
    \A f \in Changed(commit.content) :
      /\ commit.content[f] = "WRITTEN"
      /\ \E d \in Directory : dirs[d].journal[f] = "COMPLETED"

\* While a segment is generated no approved model is asked twice before every
\* other one has been asked, and none is asked more often than allowed.
ModelsRotate ==
  /\ Len(proc.asked) < MaxGenerations
  /\ \A i, j \in DOMAIN proc.asked :
       i < j /\ proc.asked[i] = proc.asked[j] => j > Len(Models)

\* A level that passes its review has made every file it owns by name, through
\* whatever attempts, remediations and half-done proposals it got there.
ReviewedIsComplete ==
  sup.state = "PASSED" => \A f \in Exact \ existing : commit.content[f] = "WRITTEN"

\* The level is decided.  An interrupted level whose proposal is not on file yet
\* is generated anew, and passes if it has a file to make and nothing else fails;
\* one with a proposal on file and nothing written is never resumed, since the
\* proposal cannot be kept again.
Interrupted == sup.state = "READY" /\ crashes = MaxCrashes /\ ~commit.done

ActionDecided ==
  /\ <>(sup.state \in {"PASSED", "BLOCKED"})
  /\ (Interrupted /\ ~flaky /\ dirs[0].proposal = {} /\ ~(Exact \subseteq existing))
       ~> (sup.state = "PASSED")
  /\ (Interrupted /\ Changed(tree) = {} /\ dirs[0].proposal # {})
       ~> (sup.state = "BLOCKED")
=============================================================================
