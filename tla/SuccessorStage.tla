--------------------------- MODULE SuccessorStage ---------------------------
(***************************************************************************)
(* Staging of a successor release and its promotion to a P3 canary.        *)
(* A poll of the control runtime is started by hand for one kind of        *)
(* message, and runs the message to its answer: DRY_RUN (read only) and    *)
(* STAGE of a request, which fetches the approved target, fast-forwards    *)
(* the successor workspace and writes the successor's unit files; then the *)
(* admission of the staged release to P3 and the activation of its canary  *)
(* run, which need a poll in the successor's checkout and the timer of the *)
(* predecessor off.  Polls may overlap and may be killed at any step; the  *)
(* workspace, the remote branch, the serving unit files and the timer      *)
(* belong to others, who change them at any time.  A message stays         *)
(* delivered until a poll answers it, an error being an answer.            *)
(*                                                                         *)
(* The sealed evidence consists of files that are created once and never   *)
(* rewritten: a poll that dies while it writes one leaves it torn.         *)
(***************************************************************************)
EXTENDS Integers, FiniteSets

CONSTANTS
  Requests,    \* successor stage requests
  Expected,    \* expected_head of each request
  Target,      \* target_head of each request
  Commits,     \* commits of the repository
  Ancestor,    \* pairs <<a, b>>: a is an ancestor of b, or b itself
  Start,       \* HEAD of the workspace before the first request
  Admitted,    \* expected_head of the P3 admission request
  Pollers,     \* polls that may overlap
  NoCommit,    \* no temporary ref
  Budgets      \* bounds of a behaviour: messages the operator sends, polls that
               \* are started, polls that die, outside changes and failures of commands

ASSUME StageAssumption ==
  /\ Expected \in [Requests -> Commits] /\ Target \in [Requests -> Commits]
  /\ Ancestor \subseteq Commits \X Commits /\ \A c \in Commits : <<c, c>> \in Ancestor
  /\ Start \in Commits /\ Admitted \in Commits /\ NoCommit \notin Commits
  /\ Budgets \subseteq [sends : Nat, polls : Nat, crashes : Nat, drifts : Nat]

DryRun(r) == <<"DRY_RUN", r>>
Stage(r) == <<"STAGE", r>>
Admission == <<"P3_PROMOTION_ADMISSION">>
Canary == <<"P3_CANARY_ACTIVATION">>
Phase == {DryRun(r) : r \in Requests} \cup {Stage(r) : r \in Requests}
Message == Phase \cup {Admission, Canary}

\* The files made once: a receipt for each phase of a request, the waiting and
\* the terminal handoff, and the evidence for the validation of the canary.
Waiting == <<"WAITING">>
Evidence == <<"EVIDENCE">>
Terminal == <<"TERMINAL">>
File == Phase \cup {Waiting, Evidence, Terminal}

Proof == {"PROVEN_FAST_FORWARD", "PENDING_FETCH_PROOF"}
Content == [status : {"NONE", "TORN", "SEALED", "STAGED"} \cup Proof, serving : Nat]
Absent == [status |-> "NONE", serving |-> 0]
Torn == [status |-> "TORN", serving |-> 0]
Sealed == [status |-> "SEALED", serving |-> 0]
Complete(c) == c.status \notin {"NONE", "TORN"}

VARIABLES
  git,      \* the successor workspace: HEAD, clean or not, objects, temporary refs
  remote,   \* the commit of the target ref at origin
  units,    \* the serving unit files (a version), the predecessor's timer is active
            \* or enabled, the successor's unit files, and whether these are enabled
  lock,     \* the lock file exists
  file,     \* the content of each file made once
  job,      \* the canary run: its registered job and its activation receipt
  inbox,    \* messages delivered and not answered
  answer,   \* history: the last answer, and whether its poll moved HEAD
  moves,    \* history: the fast-forwards of the workspace
  raced,    \* history: requests whose workspace moved between last check and merge
  poll,     \* the polls
  left      \* what is left of the bounds

vars == <<git, remote, units, lock, file, job, inbox, answer, moves, raced, poll, left>>

----------------------------------------------------------------------------
(* A poll and its answer *)

Idle == [pc |-> "idle", msg |-> Admission, outcome |-> "NONE", before |-> 0,
         fetched |-> FALSE, moved |-> FALSE,
         file |-> Waiting, content |-> Absent]

Answer(p, result) ==
  /\ answer' = [result |-> result, moved |-> poll[p].moved]
  /\ inbox' = inbox \ {poll[p].msg}
  /\ poll' = [poll EXCEPT ![p] = Idle]

\* An error outside the transaction: the outcome a SuccessorReleaseStageError
\* has unless it is given another one.
Refuse(p) == Answer(p, "FAILED_BEFORE_MUTATION")

\* A result: it is durable before it is answered.
Report(p, result) ==
  /\ poll' = [poll EXCEPT ![p] = [@ EXCEPT !.pc = "report", !.outcome = result]]
  /\ UNCHANGED <<inbox, answer>>

Publish(p) ==
  /\ poll[p].pc = "report"
  /\ Answer(p, poll[p].outcome)
  /\ UNCHANGED <<git, remote, units, lock, file, job, moves, raced, left>>

Goto(p, pc) ==
  /\ poll' = [poll EXCEPT ![p].pc = pc]
  /\ UNCHANGED <<inbox, answer>>

\* To seal a file, and what to do when it is sealed (see Proceed).
Seal(p, f, c) ==
  /\ poll' = [poll EXCEPT ![p] = [@ EXCEPT !.pc = "create", !.file = f, !.content = c]]
  /\ UNCHANGED <<inbox, answer>>

\* An error inside the transaction: its finally clause comes first.
Leave(p, outcome) ==
  /\ poll' = [poll EXCEPT ![p] = [@ EXCEPT !.pc = "cleanup", !.outcome = outcome]]
  /\ UNCHANGED <<inbox, answer>>

\* A poll is started for a kind of message, in the successor's checkout ("here")
\* or elsewhere, as the one that the predecessor's timer starts.  The directory
\* matters to the promotion alone.  Nothing but an operator starts the others.
Directory == {"here", "away"}

StartPoll(p, m, directory) ==
  /\ poll[p].pc = "idle" /\ m \in inbox /\ left.polls > 0
  /\ m \in Phase => directory = "here"
  /\ left' = [left EXCEPT !.polls = @ - 1]
  /\ poll' = [poll EXCEPT ![p] = [Idle EXCEPT !.pc = directory, !.msg = m]]
  /\ UNCHANGED <<git, remote, units, lock, file, job, inbox, answer, moves, raced>>

\* Another poll has answered its message by now.
EndPoll(p) ==
  /\ poll[p].pc \in Directory /\ poll[p].msg \notin inbox
  /\ poll' = [poll EXCEPT ![p] = Idle]
  /\ UNCHANGED <<git, remote, units, lock, file, job, inbox, answer, moves, raced, left>>

\* The first step of a message: the checks that come before any effect, with
\* which it is answered at once or goes on.
Receive(p, m) == poll[p].pc \in Directory /\ poll[p].msg = m /\ m \in inbox

At(p, pc) == poll[p].pc = pc
Request(p) == poll[p].msg[2]

----------------------------------------------------------------------------
(* The successor stager *)

\* _validate_local_git: a clean worktree on the branch, at the expected commit.
LocalGit(head) == ~git.dirty /\ git.head = head

\* A prior DRY_RUN with the same intent; its digest is the one STAGE quotes.
StageBinding(r) == Complete(file[DryRun(r)])

DryRunVerdict(r) ==
  CASE remote # Target[r] -> "REFUSED"
    [] remote = Target[r] /\ Target[r] \notin git.objects -> "PENDING_FETCH_PROOF"
    [] OTHER -> IF <<Expected[r], Target[r]>> \in Ancestor THEN "PROVEN_FAST_FORWARD" ELSE "REFUSED"

\* Mutant: the workspace is checked before the receipt is replayed.
CheckedBeforeReplay(p, r, m) ==
  /\ Receive(p, m) /\ m \in {DryRun(r), Stage(r)}
  /\ CASE file[m].status = "TORN" \/ ~LocalGit(Expected[r]) -> Refuse(p)
       [] Complete(file[m]) /\ LocalGit(Expected[r]) -> Answer(p, file[m].status)
       [] file[m] = Absent /\ LocalGit(Expected[r]) ->
            IF m = Stage(r) /\ StageBinding(r) THEN Goto(p, "lock")
            ELSE IF m = DryRun(r) /\ DryRunVerdict(r) \in Proof
            THEN Seal(p, m, [status |-> DryRunVerdict(r), serving |-> 0])
            ELSE Refuse(p)
  /\ UNCHANGED <<git, remote, units, lock, file, job, moves, raced, left>>

\* execute, up to the lock: replay of the receipt, or the checks of both modes.
Execute(p, r, m) ==
  /\ Receive(p, m) /\ m \in {DryRun(r), Stage(r)}
  /\ CASE file[m].status = "TORN" -> Refuse(p)
       [] Complete(file[m]) -> Answer(p, file[m].status)
       [] file[m] = Absent ->
            IF ~LocalGit(Expected[r]) THEN Refuse(p)
            ELSE IF m = Stage(r) /\ StageBinding(r) THEN Goto(p, "lock")
            ELSE IF m = DryRun(r) /\ DryRunVerdict(r) \in Proof
            THEN Seal(p, m, [status |-> DryRunVerdict(r), serving |-> 0])
            ELSE Refuse(p)
  /\ UNCHANGED <<git, remote, units, lock, file, job, moves, raced, left>>

\* Mutant: the lock file is opened, not created.
LockShared == TRUE

\* SuccessorStageLock.__enter__: whoever creates the lock file holds it.
LockFree == ~lock

AcquireLock(p) ==
  /\ At(p, "lock")
  /\ IF LockFree THEN lock' = TRUE /\ Goto(p, "check") ELSE UNCHANGED lock /\ Refuse(p)
  /\ UNCHANGED <<git, remote, units, file, job, moves, raced, left>>

Check(p) ==
  /\ At(p, "check")
  /\ LET r == Request(p)
     IN IF LocalGit(Expected[r]) /\ remote = Target[r]
        THEN /\ poll' = [poll EXCEPT ![p] = [@ EXCEPT !.pc = "fetch", !.before = units.serving]]
             /\ UNCHANGED <<inbox, answer>>
        ELSE Leave(p, "FAILED_BEFORE_MUTATION")
  /\ UNCHANGED <<git, remote, units, lock, file, job, moves, raced, left>>

\* git fetch into the request's temporary ref: what origin has by now.  A ref
\* left by an earlier try is only fast-forwarded.
FetchAccepted(r) == git.temp[r] = NoCommit \/ <<git.temp[r], remote>> \in Ancestor

Fetch(p) ==
  /\ At(p, "fetch")
  /\ LET r == Request(p)
     IN IF FetchAccepted(r)
        THEN /\ git' = [git EXCEPT !.temp[r] = remote, !.objects = @ \cup {remote}]
             /\ poll' = [poll EXCEPT ![p] = [@ EXCEPT !.pc = "verify", !.fetched = TRUE]]
             /\ UNCHANGED <<inbox, answer>>
        ELSE UNCHANGED git /\ Leave(p, "FAILED_AFTER_FETCH")
  /\ UNCHANGED <<remote, units, lock, file, job, moves, raced, left>>

\* Mutant: the workspace is not checked again after the fetch.
FetchedIsTarget(r) == git.temp[r] = Target[r] /\ <<Expected[r], Target[r]>> \in Ancestor

\* The fetched commit is the approved one and the workspace did not move since.
FetchedIsApproved(r) ==
  /\ git.temp[r] = Target[r]
  /\ LocalGit(Expected[r])
  /\ <<Expected[r], Target[r]>> \in Ancestor

Verify(p) ==
  /\ At(p, "verify")
  /\ IF FetchedIsApproved(Request(p)) THEN Goto(p, "merge") ELSE Leave(p, "FAILED_AFTER_FETCH")
  /\ UNCHANGED <<git, remote, units, lock, file, job, moves, raced, left>>

\* git merge --ff-only: from whatever HEAD is; nothing to do when HEAD has the
\* target already.
FastForward(p) ==
  /\ At(p, "merge")
  /\ LET r == Request(p)
         forward == <<git.head, Target[r]>> \in Ancestor
     IN /\ IF forward
           THEN /\ git' = [git EXCEPT !.head = Target[r]]
                /\ moves' = moves \cup {[from |-> git.head, to |-> Target[r], by |-> r]}
                /\ poll' = [poll EXCEPT ![p] = [@ EXCEPT !.pc = "advanced",
                                                         !.moved = git.head # Target[r]]]
                /\ UNCHANGED <<inbox, answer>>
           ELSE /\ UNCHANGED <<git, moves>>
                /\ Leave(p, IF <<Target[r], git.head>> \in Ancestor
                            THEN "FAILED_AFTER_GIT_ADVANCE" ELSE "FAILED_AFTER_FETCH")
  /\ UNCHANGED <<remote, units, lock, file, job, raced, left>>

\* The checks after the advance: the workspace at the target, serving files as before.
Preserved(p) == LocalGit(Target[Request(p)]) /\ units.serving = poll[p].before

VerifyAdvance(p) ==
  /\ At(p, "advanced")
  /\ IF Preserved(p) THEN Goto(p, "render") ELSE Leave(p, "FAILED_AFTER_GIT_ADVANCE")
  /\ UNCHANGED <<git, remote, units, lock, file, job, moves, raced, left>>

\* stage_successor_artifacts writes the env, service and timer file in place.
RenderArtifacts(p) ==
  /\ At(p, "render")
  /\ units' = [units EXCEPT !.successor = "PARTIAL"]
  /\ Goto(p, "rendering")
  /\ UNCHANGED <<git, remote, lock, file, job, moves, raced, left>>

RenderedArtifacts(p) ==
  /\ At(p, "rendering")
  /\ units' = [units EXCEPT !.successor = "STAGED"]
  /\ Goto(p, "probe")
  /\ UNCHANGED <<git, remote, lock, file, job, moves, raced, left>>

\* _successor_service_state between two rounds of the checks after the advance.
ProbeInert(p) ==
  /\ At(p, "probe")
  /\ Leave(p, IF Preserved(p) /\ ~units.enabled THEN "STAGED" ELSE "FAILED_AFTER_GIT_ADVANCE")
  /\ UNCHANGED <<git, remote, units, lock, file, job, moves, raced, left>>

\* finally: the temporary ref is deleted, if the fetch succeeded.
Cleanup(p) ==
  /\ At(p, "cleanup")
  /\ git' = IF poll[p].fetched THEN [git EXCEPT !.temp[Request(p)] = NoCommit] ELSE git
  /\ Goto(p, "unlock")
  /\ UNCHANGED <<remote, units, lock, file, job, moves, raced, left>>

\* The lock is released before the receipt of a STAGED result is written.
ReleaseLock(p) ==
  /\ At(p, "unlock")
  /\ lock' = FALSE
  /\ IF poll[p].outcome = "STAGED"
     THEN Seal(p, poll[p].msg, [status |-> "STAGED", serving |-> poll[p].before])
     ELSE Answer(p, poll[p].outcome)
  /\ UNCHANGED <<git, remote, units, file, job, moves, raced, left>>

----------------------------------------------------------------------------
(* The promotion to P3 *)

Staged == {r \in Requests : file[Stage(r)].status = "STAGED" /\ Target[r] = Admitted}

\* _matching_staged_receipt: exactly one receipt staged this commit.
Matching == Cardinality(Staged) = 1
ServingIsCurrent == \A r \in Staged : file[Stage(r)].serving = units.serving

\* The evidence is collected in the checkout that was staged, or not at all.
Collected(p) == At(p, "here") /\ Matching

\* The service of the predecessor is loaded and its timer inactive and disabled.
PredecessorServes == ~units.timer

\* evaluate_p3_promotion_admission on the evidence collected now.
Admissible ==
  git.head = Admitted /\ ~job.registered /\ PredecessorServes /\ ServingIsCurrent

AdmitP3(p) ==
  /\ Receive(p, Admission)
  /\ IF Collected(p) /\ Admissible THEN Seal(p, Waiting, Sealed)
     ELSE Refuse(p)
  /\ UNCHANGED <<git, remote, units, lock, file, job, moves, raced, left>>

\* A registered candidate is only verified: its activation receipt must exist.
ActivateP3Canary(p) ==
  /\ Receive(p, Canary)
  /\ CASE job.registered /\ Collected(p) /\ Complete(file[Waiting]) /\ job.receipt # "NONE" ->
            Seal(p, Terminal, Sealed)
       [] ~job.registered /\ Collected(p) /\ Admissible /\ Complete(file[Waiting]) ->
            Seal(p, Evidence, Sealed)
       [] OTHER -> Refuse(p)
  /\ UNCHANGED <<git, remote, units, lock, file, job, moves, raced, left>>

\* record_or_load under its flock: the receipt if there is one, else the job is
\* registered, or found registered, and then the receipt is written.
RegisterCanary(p) ==
  /\ At(p, "register") /\ \A q \in Pollers : ~At(q, "receipt")
  /\ IF job.receipt # "NONE"
     THEN /\ UNCHANGED job
          /\ Answer(p, IF job.receipt = "FULL_PLAN_REGISTERED" THEN "P3_CANARY_ACTIVATED"
                       ELSE "FAILED_BEFORE_MUTATION")
     ELSE /\ job' = [job EXCEPT !.registered = TRUE]
          /\ poll' = [poll EXCEPT ![p] = [@ EXCEPT !.pc = "receipt",
                        !.outcome = IF job.registered THEN "FULL_PLAN_ALREADY_REGISTERED"
                                    ELSE "FULL_PLAN_REGISTERED"]]
          /\ UNCHANGED <<inbox, answer>>
  /\ UNCHANGED <<git, remote, units, lock, file, moves, raced, left>>

\* Mutant: the receipt keeps the result class of the canary, not of the plan.
RecordResultClass(p) ==
  /\ At(p, "receipt")
  /\ job' = [job EXCEPT !.receipt = "P3_CANARY_ACTIVATED"]
  /\ Report(p, "P3_CANARY_ACTIVATED")
  /\ UNCHANGED <<git, remote, units, lock, file, moves, raced, left>>

RecordActivation(p) ==
  /\ At(p, "receipt")
  /\ job' = [job EXCEPT !.receipt = poll[p].outcome]
  /\ Report(p, IF poll[p].outcome = "FULL_PLAN_REGISTERED" THEN "P3_CANARY_ACTIVATED"
               ELSE "FAILED_BEFORE_MUTATION")
  /\ UNCHANGED <<git, remote, units, lock, file, moves, raced, left>>

----------------------------------------------------------------------------
(* Files made once *)

\* What follows the file of a poll.
Proceed(p) ==
  CASE poll[p].file = Evidence -> Goto(p, "register")
    [] poll[p].file = Waiting -> Report(p, "P3_CANARY_ADMISSION_READY")
    [] poll[p].file = Terminal -> Report(p, "P3_CANARY_ACTIVATED")
    [] OTHER -> Report(p, poll[p].content.status)

\* A file with the same content will do, any other one is refused.
LookUpFile(p) ==
  /\ At(p, "create")
  /\ LET f == poll[p].file
     IN IF file[f] = Absent THEN Goto(p, "open")
        ELSE IF file[f] = poll[p].content THEN Proceed(p)
        ELSE Refuse(p)
  /\ UNCHANGED <<git, remote, units, lock, file, job, moves, raced, left>>

\* O_EXCL: of a file that another poll has made meanwhile, only a receipt is
\* read again.
CreateFile(p) ==
  /\ At(p, "open")
  /\ LET f == poll[p].file
     IN \/ file[f] = Absent /\ file' = [file EXCEPT ![f] = Torn] /\ Goto(p, "write")
        \/ /\ file[f] # Absent /\ f # Terminal
           /\ UNCHANGED file
           /\ IF f \in Phase /\ file[f] = poll[p].content THEN Proceed(p) ELSE Refuse(p)
  /\ UNCHANGED <<git, remote, units, lock, job, moves, raced, left>>

\* _seal_p3_terminal_handoff removes the file after any error, the one that
\* another poll made it first included: what that poll still writes is lost.
UnlinkTerminal(p) ==
  /\ At(p, "open") /\ poll[p].file = Terminal /\ file[Terminal] # Absent
  /\ file' = [file EXCEPT ![Terminal] = Absent]
  /\ answer' = [result |-> "FAILED_BEFORE_MUTATION", moved |-> FALSE]
  /\ inbox' = inbox \ {poll[p].msg}
  /\ poll' = [q \in Pollers |->
                CASE q = p -> Idle
                  [] q # p /\ At(q, "write") /\ poll[q].file = Terminal ->
                       [poll[q] EXCEPT !.pc = "unlinked"]
                  [] OTHER -> poll[q]]
  /\ UNCHANGED <<git, remote, units, lock, job, moves, raced, left>>

WriteFile(p) ==
  /\ poll[p].pc \in {"write", "unlinked"}
  /\ file' = IF At(p, "write") THEN [file EXCEPT ![poll[p].file] = poll[p].content] ELSE file
  /\ Proceed(p)
  /\ UNCHANGED <<git, remote, units, lock, job, moves, raced, left>>

----------------------------------------------------------------------------
(* Failures and outside changes *)

\* A Git command of the checks fails: its error has no outcome of its own.  So
\* does that of the merge, which is then given one.
Checking == {"check", "verify", "advanced", "probe"}

GitFails(p) ==
  /\ poll[p].pc \in Checking \cup {"merge"} /\ left.drifts > 0
  /\ left' = [left EXCEPT !.drifts = @ - 1]
  /\ Leave(p, IF At(p, "merge") THEN "FAILED_AFTER_FETCH" ELSE "FAILED_BEFORE_MUTATION")
  /\ UNCHANGED <<git, remote, units, lock, file, job, moves, raced>>

\* The fetch fails, before or after it made the temporary ref.
FetchFails(p) ==
  /\ At(p, "fetch") /\ left.drifts > 0
  /\ left' = [left EXCEPT !.drifts = @ - 1]
  /\ \/ UNCHANGED git
     \/ FetchAccepted(Request(p)) /\ git' = [git EXCEPT !.temp[Request(p)] = remote,
                                                        !.objects = @ \cup {remote}]
  /\ Leave(p, "FAILED_AFTER_FETCH")
  /\ UNCHANGED <<remote, units, lock, file, job, moves, raced>>

\* The unit files cannot be written.
RenderFails(p) ==
  /\ At(p, "rendering") /\ left.drifts > 0
  /\ left' = [left EXCEPT !.drifts = @ - 1]
  /\ Leave(p, "FAILED_AFTER_GIT_ADVANCE")
  /\ UNCHANGED <<git, remote, units, lock, file, job, moves, raced>>

\* Deleting the ref fails: this error replaces the result or the first error.
CleanupFails(p) ==
  /\ At(p, "cleanup") /\ poll[p].fetched /\ left.drifts > 0
  /\ left' = [left EXCEPT !.drifts = @ - 1]
  /\ poll' = [poll EXCEPT ![p] = [@ EXCEPT !.pc = "unlock", !.outcome = "FAILED_AFTER_FETCH"]]
  /\ UNCHANGED <<git, remote, units, lock, file, job, inbox, answer, moves, raced>>

Crash(p) ==
  /\ ~At(p, "idle") /\ left.crashes > 0
  /\ left' = [left EXCEPT !.crashes = @ - 1]
  /\ poll' = [poll EXCEPT ![p] = Idle]
  /\ UNCHANGED <<git, remote, units, lock, file, job, inbox, answer, moves, raced>>

\* The owners of the workspace, of the branch and of the units.
Drift ==
  /\ left.drifts > 0
  /\ left' = [left EXCEPT !.drifts = @ - 1]
  /\ \/ \E c \in Commits \ {remote} : remote' = c /\ UNCHANGED <<git, units, raced>>
     \/ git' = [git EXCEPT !.dirty = ~@] /\ UNCHANGED <<remote, units, raced>>
     \/ /\ \E c \in Commits \ {git.head} :
             git' = [git EXCEPT !.head = c, !.objects = @ \cup {c}]
        /\ raced' = raced \cup {Request(p) : p \in {q \in Pollers : At(q, "merge")}}
        /\ UNCHANGED <<remote, units>>
     \/ units' = [units EXCEPT !.serving = @ + 1] /\ UNCHANGED <<git, remote, raced>>
     \/ units' = [units EXCEPT !.enabled = ~@] /\ UNCHANGED <<git, remote, raced>>
     \/ units' = [units EXCEPT !.timer = ~@] /\ UNCHANGED <<git, remote, raced>>
  /\ UNCHANGED <<lock, file, job, inbox, answer, moves, poll>>

\* The operator sends what the results so far allow, and sends it again.
MaySend(m) ==
  CASE m \in {DryRun(r) : r \in Requests} -> TRUE
    [] m \in {Stage(r) : r \in Requests} -> Complete(file[DryRun(m[2])])
    [] m = Admission -> \E r \in Requests : Complete(file[Stage(r)])
    [] m = Canary -> Complete(file[Waiting])

Send(m) ==
  /\ m \notin inbox /\ MaySend(m) /\ left.sends > 0
  /\ left' = [left EXCEPT !.sends = @ - 1]
  /\ inbox' = inbox \cup {m}
  /\ UNCHANGED <<git, remote, units, lock, file, job, answer, moves, raced, poll>>

Init ==
  /\ git = [head |-> Start, dirty |-> FALSE,
            objects |-> {c \in Commits : <<c, Start>> \in Ancestor},
            temp |-> [r \in Requests |-> NoCommit]]
  /\ remote = Admitted
  /\ units = [serving |-> 0, timer |-> FALSE, successor |-> "NONE", enabled |-> FALSE]
  /\ lock = FALSE
  /\ file = [f \in File |-> Absent]
  /\ job = [registered |-> FALSE, receipt |-> "NONE"]
  /\ inbox = {}
  /\ answer = [result |-> "NONE", moved |-> FALSE]
  /\ moves = {} /\ raced = {}
  /\ poll = [p \in Pollers |-> Idle]
  /\ left \in Budgets

StageStep(p) ==
  \/ \E r \in Requests : \E m \in Phase : Execute(p, r, m)
  \/ AcquireLock(p) \/ Check(p) \/ Fetch(p) \/ Verify(p)
  \/ FastForward(p) \/ VerifyAdvance(p) \/ RenderArtifacts(p) \/ RenderedArtifacts(p)
  \/ ProbeInert(p) \/ Cleanup(p) \/ ReleaseLock(p)

PromotionStep(p) ==
  AdmitP3(p) \/ ActivateP3Canary(p) \/ RegisterCanary(p) \/ RecordActivation(p)

PollStep(p) ==
  \/ StageStep(p) \/ PromotionStep(p) \/ LookUpFile(p) \/ CreateFile(p)
  \/ UnlinkTerminal(p) \/ WriteFile(p) \/ Publish(p) \/ EndPoll(p)

Failure(p) ==
  GitFails(p) \/ FetchFails(p) \/ RenderFails(p) \/ CleanupFails(p) \/ Crash(p)

\* No poll runs, and nobody starts one: there is no message, or nobody looks.
Settled ==
  /\ \A p \in Pollers : At(p, "idle")
  /\ inbox = {} \/ left.polls = 0
  /\ UNCHANGED vars

Next ==
  \/ \E p \in Pollers : PollStep(p) \/ Failure(p)
  \/ \E p \in Pollers : \E m \in Message : \E d \in Directory : StartPoll(p, m, d)
  \/ Drift \/ Settled
  \/ \E m \in Message : Send(m)

Spec == Init /\ [][Next]_vars

\* A poll that was started goes on.  That one is started is up to its operator:
\* the control units have no timer.
FairSpec == Spec /\ \A p \in Pollers : WF_vars(PollStep(p))

----------------------------------------------------------------------------
(* Properties *)

Outcome == {"FAILED_BEFORE_MUTATION", "FAILED_AFTER_FETCH", "FAILED_AFTER_GIT_ADVANCE"}
Registration == {"FULL_PLAN_REGISTERED", "FULL_PLAN_ALREADY_REGISTERED"}

\* A poll is in the transaction from the creation of the lock file to its removal.
Transaction == {"check", "fetch", "verify", "merge", "advanced", "render", "rendering",
                "probe", "cleanup", "unlock"}
InTransaction(p) == poll[p].pc \in Transaction

\* The types of the workspace, of the unit files, of the canary run, of an answer
\* and of a poll.
Result == {"STAGED", "P3_CANARY_ADMISSION_READY", "P3_CANARY_ACTIVATED"} \cup Proof \cup Outcome

Workspace == [head : Commits, dirty : BOOLEAN, objects : SUBSET Commits,
              temp : [Requests -> Commits \cup {NoCommit}]]
UnitFiles == [serving : Nat, timer : BOOLEAN, enabled : BOOLEAN,
              successor : {"NONE", "PARTIAL", "STAGED"}]
CanaryRun == [registered : BOOLEAN, receipt : {"NONE"} \cup Registration]
Answers == [moved : BOOLEAN, result : {"NONE"} \cup Result]
Moves == [from : Commits, to : Commits, by : Requests]
Left == [sends : Nat, polls : Nat, crashes : Nat, drifts : Nat]

PCs == {"idle", "lock", "create", "open", "write", "unlinked", "register", "receipt",
        "report"} \cup Directory \cup Transaction
Poll == [pc : PCs, msg : Message, outcome : {"NONE"} \cup Result \cup Registration,
         before : Nat, fetched : BOOLEAN, moved : BOOLEAN, file : File, content : Content]

\* Types of the variables.
TypeOK ==
  /\ git \in Workspace /\ remote \in Commits /\ units \in UnitFiles
  /\ lock \in BOOLEAN /\ file \in [File -> Content] /\ job \in CanaryRun
  /\ inbox \subseteq Message /\ answer \in Answers
  /\ moves \subseteq Moves /\ raced \subseteq Requests
  /\ poll \in [Pollers -> Poll] /\ left \in Left

\* Overlapping polls never share the workspace: one transaction at a time.
OneTransaction ==
  \A p, q \in Pollers : InTransaction(p) /\ InTransaction(q) => p = q

\* Each piece of evidence rests on the one before it: a canary run on its
\* admission, the admission on a receipt for the admitted commit, and a STAGED
\* receipt on its DRY_RUN and on a fast-forward from the very head it was
\* approved for, unless that moved after the last check.
ChainIsBacked ==
  /\ \A r \in Requests : file[Stage(r)].status = "STAGED" =>
       /\ Complete(file[DryRun(r)])
       /\ r \in raced \/ [from |-> Expected[r], to |-> Target[r], by |-> r] \in moves
       /\ units.successor # "NONE"
  /\ Complete(file[Waiting]) => Staged # {}
  /\ Complete(file[Evidence]) => Complete(file[Waiting])
  /\ job.registered => Complete(file[Evidence])
  /\ Complete(file[Terminal]) => job.receipt # "NONE"

\* "FAILED_BEFORE_MUTATION: no Git metadata, branch, worktree, or successor
\* artifact mutation occurred", "FAILED_AFTER_FETCH: current branch, HEAD, index,
\* worktree [...] did not advance": the outcome of a STAGE that moved HEAD is
\* neither of them.
OutcomeTellsPhase ==
  answer.moved => answer.result \in {"STAGED", "FAILED_AFTER_GIT_ADVANCE"}

\* What the last message needs to succeed, in a poll that was started for it and
\* that nothing else meets.
StageReady(r) ==
  /\ LocalGit(Expected[r]) /\ ~lock /\ file[Stage(r)] = Absent
  /\ remote = Target[r] /\ FetchAccepted(r) /\ ~units.enabled

CanaryReady ==
  /\ Complete(file[Waiting])
  /\ IF job.registered THEN job.receipt # "NONE" /\ file[Terminal] # Torn
     ELSE Admissible /\ file[Evidence] # Torn

Ready(p, m) ==
  CASE m = Admission -> Collected(p) /\ Admissible /\ file[Waiting] # Torn
    [] m = Canary -> Collected(p) /\ CanaryReady
    [] m \in {DryRun(r) : r \in Requests} ->
         \/ Complete(file[m])
         \/ /\ LocalGit(Expected[m[2]]) /\ remote = Target[m[2]] /\ file[m] = Absent
    [] m \in {Stage(r) : r \in Requests} -> Complete(file[m]) \/ StageReady(m[2])

\* The last poll has been started for the only message there is.
LastPoll(p) ==
  /\ poll[p].pc \in Directory /\ inbox = {poll[p].msg}
  /\ \A q \in Pollers \ {p} : At(q, "idle")
  /\ left = [sends |-> 0, polls |-> 0, crashes |-> 0, drifts |-> 0]

\* The message a last poll was started for is answered, with success exactly when
\* the evidence the earlier polls left, whole, torn or missing, allows it: a lock
\* left by a poll that died, a workspace it moved without a receipt, a timer that
\* still runs or a poll in another directory refuses it for good.
SettledByEvidence ==
  /\ (\E p \in Pollers : LastPoll(p) /\ Ready(p, poll[p].msg))
       ~> (inbox = {} /\ answer.result \notin Outcome)
  /\ (\E p \in Pollers : LastPoll(p) /\ ~Ready(p, poll[p].msg))
       ~> (inbox = {} /\ answer.result \in Outcome)
=============================================================================
