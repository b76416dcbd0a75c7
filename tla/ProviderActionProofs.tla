------------------------ MODULE ProviderActionProofs ------------------------
(***************************************************************************)
(* Theorems about ProviderAction for every set of files, every list of     *)
(* models, and every number of generations, remediations, retries and      *)
(* deaths of the service.                                                  *)
(***************************************************************************)
EXTENDS ProviderAction, SequenceTheorems, TLAPS

USE ActionAssumption

-----------------------------------------------------------------------------
(* The inductive invariant *)

\* Where the process performs a kept proposal, and where on one of its files.
Performing == {"write", "open", "writing", "receipt", "effects"}
OnFile == {"open", "writing", "receipt"}

\* The models were asked in order, and each that was asked is rejected.
Rotating ==
  /\ Len(proc.asked) < MaxGenerations
  /\ proc.rejected = {proc.asked[i] : i \in DOMAIN proc.asked}
  /\ \A i \in DOMAIN proc.asked : i <= Len(Models) => proc.asked[i] = Models[i]

\* The supervisor waits for the process.
Supervised == ~At("off") => sup.state = "RUNNING"

\* A directory without a proposal has no journal.
Journaled == \A d \in Directory : dirs[d].proposal = {} => Intents(d) = {}

\* A file of the worktree that is being generated is among the drafts or in a
\* segment still to come; one that is missing while the proposal is performed
\* is still to be written.
Planned ==
  /\ At("generate") => proc.todo # {} /\ \A f \in Missing :
       f \in proc.drafts \/ \E s \in proc.todo : f \in s
  /\ At("propose") => proc.drafts # {} /\ Missing \subseteq proc.drafts
  /\ proc.pc \in Performing => dirs[proc.dir].proposal # {} /\ Missing \subseteq proc.pending
  /\ At("effects") => proc.pending = {}

\* The journal of the proposal being performed: this process made every entry,
\* and finished each but the one it is at.
Performed ==
  /\ proc.pc \in Performing =>
       \A f \in Files : LET status == dirs[proc.dir].journal[f] IN
         /\ f \in proc.target => status = "INTENT"
         /\ f \notin proc.target => status \in {"NONE", "COMPLETED"}
         /\ status = "COMPLETED" => tree[f] # "PARTIAL"
  /\ proc.pc \notin OnFile \union {"raised"} => proc.target = {}
  /\ proc.pc \in OnFile => \E f \in Files : proc.target = {f}
  /\ At("writing") => \A f \in proc.target : tree[f] = "PARTIAL"
  /\ At("receipt") => \A f \in proc.target : tree[f] # "PARTIAL" /\ f \notin Missing

\* A completed effect is on record, and its file was written to the end.
Done(f) == \E d \in Directory : dirs[d].journal[f] = "COMPLETED"

Collected ==
  proc.pc \notin {"review", "raised"} =>
    /\ proc.effects # {} => Missing = {}
    /\ \A e \in proc.effects : e.status = "COMPLETED" =>
         Done(e.file) /\ (tree[e.file] = "PARTIAL" => At("writing") /\ e.file \in proc.target)

Committed ==
  /\ commit.effects # {} => \A f \in Exact \ existing : commit.content[f] # "BASE"
  /\ \A e \in commit.effects : e.status = "COMPLETED" =>
       Done(e.file) /\ commit.content[e.file] # "PARTIAL"
  /\ sup.state = "PASSED" => Governed(commit)

IInv == TypeOK /\ Rotating /\ Supervised /\ Journaled /\ Planned /\ Performed
        /\ Collected /\ Committed

-----------------------------------------------------------------------------
(* Types *)

\* What a fresh process, the segments and the requested model are.
LEMMA Values ==
    /\ NoProc \in Process /\ NoProc.pc = "off" /\ NoProc.effects = {} /\ NoProc.target = {}
    /\ NoProc.asked = <<>> /\ NoProc.rejected = {}
    /\ Segments \in SUBSET SUBSET Files /\ Segments # {}
    /\ \A f \in Files : \E s \in Segments : f \in s
  <1>1. 0 \in Directory
    BY DEF Directory
  <1>2. NoProc \in Process
    BY <1>1 DEF NoProc, Process, PCs
  <1>3. CASE Segmented
    BY <1>2, <1>3 DEF NoProc, Segments
  <1>4. CASE ~Segmented
    BY <1>2, <1>4 DEF NoProc, Segments
  <1> QED
    BY <1>3, <1>4

\* A process that starts on a proposal.
LEMMA Proposing ==
    ASSUME NEW p \in Process, NEW d \in Directory
    PROVE  /\ Propose(p, d) \in Process /\ Propose(p, d).pc = "generate"
           /\ Propose(p, d).todo = Segments /\ Propose(p, d).effects = p.effects
           /\ Propose(p, d).target = p.target /\ Propose(p, d).dir = d
           /\ Propose(p, d).asked = <<>> /\ Propose(p, d).rejected = {}
  <1>1. Segments \in SUBSET SUBSET Files /\ <<>> \in Seq(STRING) /\ "generate" \in PCs
    BY Values DEF PCs
  <1> QED
    BY <1>1 DEF Propose, Process

\* The fields of a process, and its value after Raise.
LEMMA Fields ==
    ASSUME TypeOK
    PROVE  /\ proc.pc \in PCs /\ proc.dir \in Directory /\ proc.todo \in SUBSET SUBSET Files
           /\ proc.asked \in Seq(STRING) /\ proc.rejected \in SUBSET STRING
           /\ proc.drafts \in SUBSET Files /\ proc.pending \in SUBSET Files
           /\ proc.target \in SUBSET Files /\ proc.effects \in SUBSET Effect
           /\ proc.remediations \in 0..MaxRemediations
           /\ dirs[proc.dir] \in DirectoryState /\ dirs[proc.dir].proposal \in SUBSET Files
           /\ \A f \in Files : /\ dirs[proc.dir].journal[f] \in
                                    {"NONE", "INTENT", "COMPLETED", "FAILED"}
                               /\ tree[f] \in Content
  <1>1. proc \in Process /\ dirs \in [Directory -> DirectoryState] /\ tree \in [Files -> Content]
    BY DEF TypeOK
  <1>2. /\ proc.pc \in PCs /\ proc.dir \in Directory /\ proc.todo \in SUBSET SUBSET Files
        /\ proc.asked \in Seq(STRING) /\ proc.rejected \in SUBSET STRING
        /\ proc.drafts \in SUBSET Files /\ proc.pending \in SUBSET Files
        /\ proc.target \in SUBSET Files /\ proc.effects \in SUBSET Effect
        /\ proc.remediations \in 0..MaxRemediations
    BY <1>1 DEF Process
  <1>3. dirs[proc.dir] \in DirectoryState
    BY <1>1, <1>2
  <1>4. dirs[proc.dir].proposal \in SUBSET Files
        /\ dirs[proc.dir].journal \in [Files -> {"NONE", "INTENT", "COMPLETED", "FAILED"}]
    BY <1>3 DEF DirectoryState
  <1> QED
    BY <1>1, <1>2, <1>3, <1>4

\* The next model to ask: the approved models in their order, then the first.
LEMMA NextModel ==
    ASSUME TypeOK, Rotating
    PROVE  RequestedModel = IF Len(proc.asked) < Len(Models)
                            THEN Models[Len(proc.asked) + 1] ELSE Models[1]
  <1>1. /\ Len(Models) \in Nat /\ Len(Models) # 0 /\ DOMAIN Models = 1..Len(Models)
        /\ \A i, j \in 1..Len(Models) : Models[i] = Models[j] => i = j
    BY EmptySeq
  <1>2. Len(proc.asked) \in Nat /\ DOMAIN proc.asked = 1..Len(proc.asked)
    BY Fields
  <1> DEFINE n == Len(proc.asked)
  <1> DEFINE m == Len(Models)
  <1> DEFINE left == {i \in DOMAIN Models : Models[i] \notin proc.rejected}
  <1>3. \A i \in 1..m : i <= n => Models[i] \in proc.rejected
    <2> TAKE i \in 1..m
    <2> HAVE i <= n
    <2>1. i \in DOMAIN proc.asked /\ i <= Len(Models)
      BY <1>1, <1>2
    <2>2. proc.asked[i] = Models[i]
      BY <2>1 DEF Rotating
    <2> QED
      BY <2>1, <2>2 DEF Rotating
  <1>4. CASE n < m
    <2>1. n + 1 \in 1..m
      BY <1>1, <1>2, <1>4
    <2>2. Models[n + 1] \notin proc.rejected
      <3> SUFFICES ASSUME Models[n + 1] \in proc.rejected PROVE FALSE
        OBVIOUS
      <3>1. PICK i \in DOMAIN proc.asked : Models[n + 1] = proc.asked[i]
        BY DEF Rotating
      <3>2. i \in 1..m /\ i <= n /\ i <= Len(Models)
        BY <1>1, <1>2, <1>4
      <3>3. proc.asked[i] = Models[i]
        BY <3>2 DEF Rotating
      <3>4. i = n + 1
        BY <1>1, <2>1, <3>1, <3>2, <3>3
      <3> QED
        BY <1>2, <3>2, <3>4
    <2>3. n + 1 \in left
      BY <1>1, <2>1, <2>2
    <2>4. \A j \in left : n + 1 <= j
      <3> TAKE j \in left
      <3>1. j \in 1..m /\ Models[j] \notin proc.rejected
        BY <1>1
      <3> QED
        BY <1>1, <1>2, <1>3, <3>1
    <2>5. left \subseteq Nat /\ n + 1 \in Nat
      BY <1>1, <1>2
    <2>6. (CHOOSE i \in left : \A j \in left : i <= j) = n + 1
      <3> HIDE DEF left, n
      <3> DEFINE c == CHOOSE i \in left : \A j \in left : i <= j
      <3>1. c \in left /\ \A j \in left : c <= j
        BY <2>3, <2>4
      <3> HIDE DEF c
      <3>2. c = n + 1
        BY <2>3, <2>4, <2>5, <3>1
      <3> QED
        BY <3>2 DEF c
    <2>7. RequestedModel = IF left = {} THEN Models[1]
                           ELSE Models[CHOOSE i \in left : \A j \in left : i <= j]
      BY DEF RequestedModel
    <2> QED
      <3> HIDE DEF left, n, m
      <3>1. left # {}
        BY <2>3
      <3>2. RequestedModel = Models[n + 1]
        BY <2>6, <2>7, <3>1
      <3> QED
        BY <1>4, <3>2 DEF n, m
  <1>5. CASE ~(n < m)
    <2>1. left = {}
      BY <1>1, <1>2, <1>3, <1>5
    <2> QED
      BY <1>5, <2>1 DEF RequestedModel
  <1> QED
    BY <1>4, <1>5

-----------------------------------------------------------------------------
(* Steps that leave most of the state alone *)

\* A step that leaves the commit alone and loses no completed effect.
LEMMA CommitKept ==
    ASSUME TypeOK, Committed, commit' = commit, existing' = existing,
           \A f \in Files : Done(f) => Done(f)',
           sup'.state = "PASSED" => Governed(commit)
    PROVE  Committed'
  <1>1. commit.effects \subseteq Effect
    BY DEF TypeOK, Checkpoint
  <1>2. \A e \in commit.effects : e.file \in Files
    BY <1>1 DEF Effect
  <1>3. \A e \in commit.effects : e.status = "COMPLETED" => Done(e.file)'
    BY <1>2 DEF Committed
  <1>4. Governed(commit)' <=> Governed(commit)
    BY DEF Governed, Changed
  <1> QED
    BY <1>3, <1>4 DEF Committed

\* What the provider keeps in a directory is as it was.
LEMMA DirectoriesKept ==
    ASSUME dirs' = dirs
    PROVE  /\ \A f \in Files : Done(f) => Done(f)'
           /\ Journaled => Journaled'
  <1>1. \A f \in Files : Done(f) => Done(f)'
    BY DEF Done
  <1>2. Journaled => Journaled'
    BY DEF Journaled, Intents
  <1> QED
    BY <1>1, <1>2

\* An attempt that ends leaves everything but its process, and perhaps one entry
\* of its journal, as it was.
LEMMA Raising ==
    ASSUME IInv, Raise, ~At("off"), UNCHANGED <<existing, flaky, tree, commit, sup, crashes>>,
           dirs' \in [Directory -> DirectoryState], Journaled',
           \A f \in Files : Done(f) => Done(f)'
    PROVE  IInv'
  <1>1. TypeOK /\ proc \in Process /\ proc' = [proc EXCEPT !.pc = "raised"]
    BY DEF IInv, TypeOK, Raise, Goto
  <1>2. /\ proc' \in Process /\ proc'.pc = "raised"
        /\ proc'.asked = proc.asked /\ proc'.rejected = proc.rejected
    BY <1>1 DEF Process, PCs
  <1>3. TypeOK'
    BY <1>1, <1>2 DEF TypeOK
  <1>4. Rotating'
    BY <1>2 DEF IInv, Rotating
  <1>5. Supervised'
    BY <1>2 DEF IInv, Supervised
  <1>6. Planned' /\ Performed' /\ Collected'
    BY <1>2 DEF Planned, Performed, Performing, OnFile, Collected, At
  <1>7. Committed'
    BY <1>1, CommitKept DEF IInv, Committed
  <1> QED
    BY <1>3, <1>4, <1>5, <1>6, <1>7 DEF IInv

\* The same, when the directories are not touched at all.
LEMMA RaisingClean ==
    ASSUME IInv, Raise, ~At("off"), UNCHANGED <<existing, flaky, tree, dirs, commit, sup, crashes>>
    PROVE  IInv'
  <1>1. dirs' \in [Directory -> DirectoryState]
    BY DEF IInv, TypeOK
  <1>2. Journaled' /\ \A f \in Files : Done(f) => Done(f)'
    BY DirectoriesKept DEF IInv
  <1> QED
    BY <1>1, <1>2, Raising

\* A process that ends, whatever the supervisor makes of it.
LEMMA Ending ==
    ASSUME IInv, proc' = NoProc, UNCHANGED <<existing, flaky, tree, dirs, commit>>,
           sup' \in QueueItem, crashes' \in 0..MaxCrashes,
           sup'.state = "PASSED" => Governed(commit)
    PROVE  IInv'
  <1>1. /\ proc' \in Process /\ proc'.pc = "off" /\ proc'.effects = {} /\ proc'.target = {}
        /\ proc'.asked = <<>> /\ proc'.rejected = {}
    BY Values
  <1>2. TypeOK'
    BY <1>1 DEF IInv, TypeOK
  <1>3. Rotating'
    BY <1>1 DEF Rotating
  <1>4. Supervised' /\ Planned' /\ Performed' /\ Collected'
    BY <1>1 DEF Supervised, Planned, Performed, Performing, OnFile, Collected, At
  <1>5. Journaled' /\ Committed'
    BY CommitKept, DirectoriesKept DEF IInv
  <1> QED
    BY <1>2, <1>3, <1>4, <1>5 DEF IInv

\* A step of the process alone.
LEMMA ProcessStep ==
    ASSUME IInv, UNCHANGED <<existing, flaky, tree, dirs, commit, crashes>>, proc' \in Process,
           sup' = sup \/ sup' = [sup EXCEPT !.state = "RUNNING"], sup'.state = "RUNNING",
           Rotating', Planned', Performed', Collected'
    PROVE  IInv'
  <1>1. sup' \in QueueItem
    BY DEF IInv, TypeOK, QueueItem
  <1>2. TypeOK'
    BY <1>1 DEF IInv, TypeOK
  <1>3. Supervised'
    BY DEF Supervised
  <1>4. Journaled' /\ Committed'
    BY CommitKept, DirectoriesKept DEF IInv
  <1> QED
    BY <1>2, <1>3, <1>4 DEF IInv

\* A process that starts on a proposal in a directory.
LEMMA StartsProposal ==
    ASSUME IInv, UNCHANGED <<existing, flaky, tree, dirs, commit, crashes>>,
           NEW p \in Process, proc' \in Process,
           proc'.pc = "generate", proc'.todo = Segments, proc'.asked = <<>>,
           proc'.rejected = {}, proc'.target = {}, proc'.effects = p.effects,
           \/ p.effects = {}
           \/ p = proc /\ proc.pc = "validate",
           sup' = sup \/ sup' = [sup EXCEPT !.state = "RUNNING"], sup'.state = "RUNNING"
    PROVE  IInv'
  <1>1. Missing' = Missing /\ Missing \subseteq Files
    BY DEF Missing
  <1>2. Rotating'
    BY DEF Rotating
  <1>3. Planned'
    BY <1>1, Values DEF Planned, At, Performing
  <1>4. Performed'
    BY DEF Performed, Performing, OnFile, At
  <1>5. Collected'
    <2>1. CASE p.effects = {}
      BY <2>1 DEF Collected
    <2>2. CASE p = proc /\ proc.pc = "validate"
      <3>1. \A f : Done(f)' <=> Done(f)
        BY DEF Done
      <3>2. proc'.effects = proc.effects
        BY <2>2
      <3> QED
        BY <1>1, <2>2, <3>1, <3>2 DEF IInv, Collected, At
    <2> QED
      BY <2>1, <2>2
  <1> QED
    BY <1>2, <1>3, <1>4, <1>5, ProcessStep

-----------------------------------------------------------------------------
(* The actions *)

\* A worker that starts.
LEMMA StartKeeps == ASSUME IInv, Start PROVE IInv'
  <1>1. UNCHANGED <<existing, flaky, tree, dirs, commit, crashes>>
    BY DEF Start
  <1>2. sup' = [sup EXCEPT !.state = "RUNNING"] /\ sup'.state = "RUNNING"
    BY DEF Start, IInv, TypeOK, QueueItem
  <1>3. CASE commit.done
    <2>1. proc' = [NoProc EXCEPT !.pc = "review"]
      BY <1>3 DEF Start
    <2>2. /\ proc' \in Process /\ proc'.pc = "review" /\ proc'.effects = {} /\ proc'.target = {}
          /\ proc'.asked = <<>> /\ proc'.rejected = {}
      BY <2>1, Values DEF Process, PCs, NoProc
    <2>3. Rotating' /\ Planned' /\ Performed' /\ Collected'
      BY <2>2 DEF Rotating, Planned, Performed, Performing, OnFile, Collected, At
    <2> QED
      BY <1>1, <1>2, <2>2, <2>3, ProcessStep
  <1>4. CASE ~commit.done /\ Changed(tree) # {}
    <2>1. proc' = [NoProc EXCEPT !.pc = "collect"]
      BY <1>4 DEF Start
    <2>2. /\ proc' \in Process /\ proc'.pc = "collect" /\ proc'.effects = {} /\ proc'.target = {}
          /\ proc'.asked = <<>> /\ proc'.rejected = {}
      BY <2>1, Values DEF Process, PCs, NoProc
    <2>3. Rotating' /\ Planned' /\ Performed' /\ Collected'
      BY <2>2 DEF Rotating, Planned, Performed, Performing, OnFile, Collected, At
    <2> QED
      BY <1>1, <1>2, <2>2, <2>3, ProcessStep
  <1>5. CASE ~commit.done /\ Changed(tree) = {}
    <2>1. proc' = Propose(NoProc, 0)
      BY <1>5 DEF Start
    <2>2. NoProc \in Process /\ 0 \in Directory
      BY Values DEF Directory
    <2>3. /\ proc' \in Process /\ proc'.pc = "generate" /\ proc'.todo = Segments
          /\ proc'.asked = <<>> /\ proc'.rejected = {} /\ proc'.target = {}
          /\ proc'.effects = NoProc.effects /\ NoProc.effects = {}
      BY <2>1, <2>2, Proposing, Values
    <2> QED
      BY <1>1, <1>2, <2>2, <2>3, StartsProposal
  <1> QED
    BY <1>3, <1>4, <1>5 DEF IInv, TypeOK, Checkpoint

\* Steps of the generation.
LEMMA GenerationKeeps == ASSUME IInv, Generation PROVE IInv'
  <1>1. proc.pc \in {"generate", "propose"} /\ sup.state = "RUNNING"
    BY DEF Generation, Generated, GenerationRejected, GenerationFailed, KeepProposal, At,
           IInv, Supervised
  <1>2. TypeOK /\ proc \in Process /\ ~At("off")
    BY <1>1 DEF IInv, TypeOK, At
  <1>3. ASSUME Generated PROVE IInv'
    <2>1. PICK s \in proc.todo : \E w \in Proposals(s) :
            proc' = [proc EXCEPT !.todo = @ \ {s}, !.drafts = @ \union w, !.asked = <<>>,
                                 !.rejected = {},
                                 !.pc = IF proc.todo = {s} THEN "propose" ELSE "generate"]
      BY <1>3 DEF Generated
    <2>2. PICK w \in Proposals(s) :
            proc' = [proc EXCEPT !.todo = @ \ {s}, !.drafts = @ \union w, !.asked = <<>>,
                                 !.rejected = {},
                                 !.pc = IF proc.todo = {s} THEN "propose" ELSE "generate"]
      BY <2>1
    <2>3. UNCHANGED <<existing, flaky, tree, dirs, commit, sup, crashes>> /\ proc.pc = "generate"
      BY <1>3 DEF Generated, At
    <2>4. w \subseteq Files /\ w # {} /\ (Missing \intersect s) \subseteq w
      BY <1>2, Fields DEF Proposals
    <2>5. proc.todo \in SUBSET SUBSET Files /\ proc.drafts \in SUBSET Files
      BY <1>2, Fields
    <2>6. proc.todo \ {s} \in SUBSET SUBSET Files /\ proc.drafts \union w \in SUBSET Files
          /\ <<>> \in Seq(STRING)
          /\ (IF proc.todo = {s} THEN "propose" ELSE "generate") \in PCs
      BY <2>4, <2>5 DEF PCs
    <2>7. /\ proc'.pc = IF proc.todo = {s} THEN "propose" ELSE "generate"
          /\ proc'.todo = proc.todo \ {s} /\ proc'.drafts = proc.drafts \union w
          /\ proc'.asked = <<>> /\ proc'.rejected = {} /\ proc'.target = proc.target
          /\ proc'.effects = proc.effects
      BY <1>2, <2>2 DEF Process
    <2>8. proc' \in Process
      BY <1>2, <2>2, <2>6 DEF Process
    <2>9. Missing' = Missing
      BY <2>3 DEF Missing
    <2>10. Rotating'
      BY <2>7 DEF Rotating
    <2>11. Planned'
      <3>1. \A f \in Missing : f \in proc.drafts \union w \/ \E t \in proc.todo \ {s} : f \in t
        BY <2>3, <2>4 DEF IInv, Planned, At
      <3>2. CASE proc.todo = {s}
        <4>1. proc'.pc = "propose" /\ Missing \subseteq proc'.drafts /\ proc'.drafts # {}
          BY <2>4, <2>7, <3>1, <3>2
        <4> QED
          BY <2>9, <4>1 DEF Planned, At, Performing
      <3>3. CASE proc.todo # {s}
        <4>1. proc'.pc = "generate" /\ proc'.todo # {}
          BY <2>7, <3>3
        <4>2. \A f \in Missing : f \in proc'.drafts \/ \E t \in proc'.todo : f \in t
          BY <2>7, <3>1
        <4> QED
          BY <2>9, <4>1, <4>2 DEF Planned, At, Performing
      <3> QED
        BY <3>2, <3>3
    <2>12. Performed'
      <3>1. proc'.pc \in {"generate", "propose"}
        BY <2>7
      <3>2. proc'.target = {}
        BY <2>3, <2>7 DEF IInv, Performed, OnFile
      <3> QED
        BY <3>1, <3>2 DEF Performed, Performing, OnFile, At
    <2>13. Collected'
      <3>1. \A f : Done(f)' <=> Done(f)
        BY <2>3 DEF Done
      <3> QED
        BY <2>3, <2>7, <2>9, <3>1 DEF IInv, Collected, At
    <2> QED
      BY <1>1, <2>3, <2>8, <2>10, <2>11, <2>12, <2>13, ProcessStep
  <1>4. ASSUME GenerationRejected PROVE IInv'
    <2>1. UNCHANGED <<existing, flaky, tree, dirs, commit, sup, crashes>> /\ proc.pc = "generate"
      BY <1>4 DEF GenerationRejected, At
    <2>2. CASE ~(Len(proc.asked) + 1 < MaxGenerations)
      BY <1>2, <1>4, <2>1, <2>2, RaisingClean DEF GenerationRejected
    <2>3. CASE Len(proc.asked) + 1 < MaxGenerations
      <3> DEFINE m == RequestedModel
      <3>1. proc' = [proc EXCEPT !.asked = Append(@, m), !.rejected = proc.rejected \union {m}]
        BY <1>4, <2>3 DEF GenerationRejected, Rejected
      <3>2. /\ proc.asked \in Seq(STRING) /\ proc.rejected \in SUBSET STRING
            /\ Len(proc.asked) \in Nat
        BY <1>2, Fields
      <3>3. /\ m = IF Len(proc.asked) < Len(Models) THEN Models[Len(proc.asked) + 1]
                   ELSE Models[1]
        BY <1>2, NextModel DEF IInv
      <3>4. m \in STRING
        <4>1. Len(Models) \in Nat /\ Len(Models) # 0
          BY EmptySeq
        <4> QED
          BY <3>2, <3>3, <4>1
      <3> HIDE DEF m
      <3>5. Append(proc.asked, m) \in Seq(STRING) /\ proc.rejected \union {m} \in SUBSET STRING
        BY <3>2, <3>4
      <3>6. /\ proc'.pc = "generate" /\ proc'.todo = proc.todo /\ proc'.drafts = proc.drafts
            /\ proc'.asked = Append(proc.asked, m) /\ proc'.rejected = proc.rejected \union {m}
            /\ proc'.target = proc.target /\ proc'.effects = proc.effects
        BY <1>2, <2>1, <3>1 DEF Process
      <3>7. proc' \in Process
        BY <1>2, <3>1, <3>5 DEF Process
      <3>8. Rotating'
        <4> DEFINE n == Len(proc.asked)
        <4>1. /\ Len(proc'.asked) = n + 1 /\ DOMAIN proc'.asked = 1..(n + 1)
              /\ proc'.asked[n + 1] = m /\ DOMAIN proc.asked = 1..n
              /\ \A i \in 1..n : proc'.asked[i] = proc.asked[i]
          BY <3>2, <3>4, <3>6
        <4>2. proc.rejected = {proc.asked[i] : i \in 1..n}
          BY <4>1 DEF IInv, Rotating
        <4>3. proc'.rejected = {proc'.asked[i] : i \in 1..(n + 1)}
          <5>1. 1..(n + 1) = 1..n \union {n + 1}
            BY <3>2
          <5> HIDE DEF n
          <5> QED
            BY <3>6, <4>1, <4>2, <5>1
        <4>4. \A i \in 1..(n + 1) : i <= Len(Models) => proc'.asked[i] = Models[i]
          <5> TAKE i \in 1..(n + 1)
          <5> HAVE i <= Len(Models)
          <5>1. CASE i \in 1..n
            BY <4>1, <5>1 DEF IInv, Rotating
          <5>2. CASE i = n + 1
            <6>1. n < Len(Models)
              BY <3>2, <5>2, EmptySeq
            <6> QED
              BY <3>3, <4>1, <5>2, <6>1
          <5> QED
            BY <3>2, <5>1, <5>2
        <4> QED
          BY <2>3, <4>1, <4>3, <4>4 DEF Rotating
      <3>9. Missing' = Missing
        BY <2>1 DEF Missing
      <3>10. Planned'
        BY <2>1, <3>6, <3>9 DEF IInv, Planned, At, Performing
      <3>11. Performed'
        BY <2>1, <3>6 DEF IInv, Performed, Performing, OnFile, At
      <3>12. Collected'
        <4>1. \A f : Done(f)' <=> Done(f)
          BY <2>1 DEF Done
        <4> QED
          BY <2>1, <3>6, <3>9, <4>1 DEF IInv, Collected, At
      <3> QED
        BY <1>1, <2>1, <3>7, <3>8, <3>10, <3>11, <3>12, ProcessStep
    <2> QED
      BY <2>2, <2>3
  <1>5. ASSUME GenerationFailed PROVE IInv'
    BY <1>2, <1>5, RaisingClean DEF GenerationFailed
  <1>6. ASSUME KeepProposal PROVE IInv'
    <2>1. UNCHANGED <<existing, flaky, tree, commit, sup, crashes>> /\ proc.pc = "propose"
      BY <1>6 DEF KeepProposal, At
    <2>2. CASE Raise /\ UNCHANGED dirs
      BY <1>2, <2>1, <2>2, RaisingClean
    <2>3. CASE /\ dirs[proc.dir].proposal = {}
               /\ dirs' = [dirs EXCEPT ![proc.dir].proposal = proc.drafts]
               /\ proc' = [proc EXCEPT !.pc = "write", !.pending = proc.drafts]
      <3> DEFINE d == proc.dir
      <3>1. /\ proc.drafts \in SUBSET Files /\ d \in Directory /\ dirs[d] \in DirectoryState
            /\ dirs \in [Directory -> DirectoryState]
        BY <1>2, Fields DEF TypeOK
      <3>2. /\ proc'.pc = "write" /\ proc'.pending = proc.drafts /\ proc'.dir = d
            /\ proc'.asked = proc.asked /\ proc'.rejected = proc.rejected
            /\ proc'.target = proc.target /\ proc'.effects = proc.effects
        BY <1>2, <2>3 DEF Process
      <3>3. proc' \in Process
        BY <1>2, <2>3, <3>1 DEF Process, PCs
      <3>4. /\ dirs' \in [Directory -> DirectoryState]
            /\ \A e \in Directory : dirs'[e].journal = dirs[e].journal
            /\ \A e \in Directory : dirs'[e].proposal =
                 IF e = d THEN proc.drafts ELSE dirs[e].proposal
        <4>1. [dirs[d] EXCEPT !.proposal = proc.drafts] \in DirectoryState
          BY <3>1 DEF DirectoryState
        <4>2. dirs' = [dirs EXCEPT ![d] = [dirs[d] EXCEPT !.proposal = proc.drafts]]
          BY <2>3, <3>1
        <4>3. dirs[d] = [proposal |-> dirs[d].proposal, journal |-> dirs[d].journal]
          BY <3>1 DEF DirectoryState
        <4> QED
          BY <3>1, <4>1, <4>2, <4>3
      <3>5. Missing' = Missing
        BY <2>1 DEF Missing
      <3>6. proc.drafts # {} /\ Missing \subseteq proc.drafts /\ proc.target = {}
        BY <2>1 DEF IInv, Planned, Performed, At, OnFile
      <3>7. \A f \in Files : dirs[d].journal[f] = "NONE"
        BY <2>3, <3>1 DEF IInv, Journaled, Intents
      <3>8. TypeOK'
        BY <2>1, <3>3, <3>4 DEF IInv, TypeOK
      <3>9. Rotating' /\ Supervised'
        BY <1>1, <2>1, <3>2 DEF IInv, Rotating, Supervised
      <3>10. Journaled'
        <4>1. \A e \in Directory : Intents(e)' = Intents(e)
          BY <3>4 DEF Intents
        <4> QED
          BY <3>4, <3>6, <4>1 DEF IInv, Journaled
      <3>11. Planned'
        BY <3>1, <3>2, <3>4, <3>5, <3>6 DEF Planned, At, Performing
      <3>12. Performed'
        BY <3>1, <3>2, <3>4, <3>6, <3>7 DEF Performed, Performing, OnFile, At
      <3>13. \A f : Done(f)' <=> Done(f)
        BY <3>4 DEF Done
      <3>14. Collected'
        BY <2>1, <3>2, <3>5, <3>13 DEF IInv, Collected, At
      <3>15. Committed'
        BY <1>1, <1>2, <2>1, <3>13, CommitKept DEF IInv
      <3> QED
        BY <3>8, <3>9, <3>10, <3>11, <3>12, <3>14, <3>15 DEF IInv
    <2> QED
      BY <1>6, <2>2, <2>3 DEF KeepProposal
  <1> QED
    BY <1>3, <1>4, <1>5, <1>6 DEF Generation

\* An entry of a journal that changes; one that was not completed loses nothing.
LEMMA JournalStep ==
    ASSUME TypeOK, NEW d \in Directory, NEW f \in Files,
           NEW status \in {"INTENT", "COMPLETED", "FAILED"}, Journal(d, f, status)
    PROVE  /\ dirs' \in [Directory -> DirectoryState]
           /\ \A e \in Directory : dirs'[e].proposal = dirs[e].proposal
           /\ \A e \in Directory : \A g \in Files :
                dirs'[e].journal[g] = IF e = d /\ g = f THEN status ELSE dirs[e].journal[g]
           /\ Journaled /\ dirs[d].proposal # {} => Journaled'
           /\ dirs[d].journal[f] # "COMPLETED" => \A g \in Files : Done(g) => Done(g)'
  <1>1. dirs \in [Directory -> DirectoryState] /\ dirs[d] \in DirectoryState
    BY DEF TypeOK
  <1>2. dirs[d] = [proposal |-> dirs[d].proposal, journal |-> dirs[d].journal]
        /\ dirs[d].journal \in [Files -> {"NONE", "INTENT", "COMPLETED", "FAILED"}]
    BY <1>1 DEF DirectoryState
  <1> DEFINE j == [dirs[d].journal EXCEPT ![f] = status]
  <1>3. j \in [Files -> {"NONE", "INTENT", "COMPLETED", "FAILED"}]
    BY <1>2
  <1>4. dirs' = [dirs EXCEPT ![d] = [dirs[d] EXCEPT !.journal = j]]
    BY <1>1 DEF Journal
  <1>5. \A g \in Files : j[g] = IF g = f THEN status ELSE dirs[d].journal[g]
    BY <1>2
  <1> HIDE DEF j
  <1>6. [dirs[d] EXCEPT !.journal = j] = [proposal |-> dirs[d].proposal, journal |-> j]
    BY <1>2
  <1>7. [proposal |-> dirs[d].proposal, journal |-> j] \in DirectoryState
    BY <1>1, <1>3 DEF DirectoryState
  <1>8. dirs' \in [Directory -> DirectoryState]
    BY <1>1, <1>4, <1>6, <1>7
  <1>9. dirs'[d].proposal = dirs[d].proposal /\ dirs'[d].journal = j
        /\ \A e \in Directory : e # d => dirs'[e] = dirs[e]
    BY <1>1, <1>4, <1>6
  <1>10. /\ \A e \in Directory : dirs'[e].proposal = dirs[e].proposal
         /\ \A e \in Directory : \A g \in Files :
              dirs'[e].journal[g] = IF e = d /\ g = f THEN status ELSE dirs[e].journal[g]
    BY <1>5, <1>9
  <1>11. ASSUME Journaled, dirs[d].proposal # {} PROVE Journaled'
    BY <1>10, <1>11 DEF Journaled, Intents
  <1>12. ASSUME dirs[d].journal[f] # "COMPLETED" PROVE \A g \in Files : Done(g) => Done(g)'
    BY <1>10, <1>12 DEF Done
  <1> QED
    BY <1>8, <1>10, <1>11, <1>12

\* A write that starts, is done and is recorded, or fails.
LEMMA EffectsKeep == ASSUME IInv, Effects PROVE IInv'
  <1>1. proc.pc \in Performing /\ sup.state = "RUNNING"
    BY DEF Effects, BeginEffect, OpenFile, WriteFile, EffectFails, CompleteEffect,
           CollectEffects, At, IInv, Supervised, Performing
  <1>2. TypeOK /\ proc \in Process /\ ~At("off") /\ tree \in [Files -> Content]
    BY <1>1 DEF IInv, TypeOK, At, Performing
  <1> DEFINE d == proc.dir
  <1>3. /\ d \in Directory /\ dirs[d].proposal # {} /\ Missing \subseteq proc.pending
        /\ proc.pending \subseteq Files /\ proc.target \subseteq Files
        /\ proc.effects \subseteq Effect
    BY <1>1, <1>2, Fields DEF IInv, Planned
  <1>4. \A f \in Files :
          /\ f \in proc.target => dirs[d].journal[f] = "INTENT"
          /\ f \notin proc.target => dirs[d].journal[f] \in {"NONE", "COMPLETED"}
          /\ dirs[d].journal[f] = "COMPLETED" => tree[f] # "PARTIAL"
    BY <1>1 DEF IInv, Performed
  <1>5. ASSUME NEW f \in proc.target, Journal(d, f, "FAILED"), Raise,
               UNCHANGED <<existing, flaky, tree, commit, sup, crashes>>
        PROVE  IInv'
    <2>1. f \in Files /\ dirs[d].journal[f] # "COMPLETED"
      BY <1>3, <1>4
    <2>2. /\ dirs' \in [Directory -> DirectoryState] /\ Journaled'
          /\ \A g \in Files : Done(g) => Done(g)'
      BY <1>2, <1>3, <1>5, <2>1, JournalStep DEF IInv
    <2> QED
      BY <1>2, <1>5, <2>2, Raising
  <1>6. ASSUME BeginEffect PROVE IInv'
    <2>1. UNCHANGED <<existing, flaky, tree, commit, sup, crashes>> /\ proc.pc = "write"
      BY <1>6 DEF BeginEffect, At
    <2>2. CASE Raise /\ UNCHANGED dirs
      BY <1>2, <2>1, <2>2, RaisingClean
    <2>3. ASSUME NEW f \in proc.pending, dirs[d].journal[f] = "NONE", Journal(d, f, "INTENT"),
                 proc' = [proc EXCEPT !.pc = "open", !.target = {f}]
          PROVE  IInv'
      <3>1. f \in Files /\ {f} \in SUBSET Files
        BY <1>3
      <3>2. /\ dirs' \in [Directory -> DirectoryState] /\ Journaled'
            /\ dirs'[d].proposal # {}
            /\ \A g \in Files : Done(g) => Done(g)'
            /\ \A g \in Files : dirs'[d].journal[g] =
                 IF g = f THEN "INTENT" ELSE dirs[d].journal[g]
        BY <1>2, <1>3, <2>3, <3>1, JournalStep DEF IInv
      <3>3. /\ proc'.pc = "open" /\ proc'.target = {f} /\ proc'.dir = d
            /\ proc'.pending = proc.pending /\ proc'.effects = proc.effects
            /\ proc'.asked = proc.asked /\ proc'.rejected = proc.rejected
        BY <1>2, <2>3 DEF Process
      <3>4. proc' \in Process
        BY <1>2, <2>3, <3>1 DEF Process, PCs
      <3>5. TypeOK'
        BY <2>1, <3>2, <3>4 DEF IInv, TypeOK
      <3>6. Rotating' /\ Supervised'
        BY <1>1, <2>1, <3>3 DEF IInv, Rotating, Supervised
      <3>7. Missing' = Missing
        BY <2>1 DEF Missing
      <3>8. Planned'
        BY <1>3, <3>2, <3>3, <3>7 DEF Planned, At, Performing
      <3>9. Performed'
        <4>1. proc.target = {}
          BY <2>1 DEF IInv, Performed, OnFile
        <4>2. \A g \in Files :
                /\ g \in {f} => dirs'[d].journal[g] = "INTENT"
                /\ g \notin {f} => dirs'[d].journal[g] \in {"NONE", "COMPLETED"}
                /\ dirs'[d].journal[g] = "COMPLETED" => tree'[g] # "PARTIAL"
          BY <1>4, <2>1, <3>2, <4>1
        <4> QED
          BY <3>1, <3>3, <4>2 DEF Performed, Performing, OnFile, At
      <3>10. Collected'
        <4>1. \A e \in proc.effects : e.file \in Files
          BY <1>3 DEF Effect
        <4> QED
          BY <2>1, <3>2, <3>3, <3>7, <4>1 DEF IInv, Collected, At
      <3>11. Committed'
        BY <1>1, <1>2, <2>1, <3>2, CommitKept DEF IInv
      <3> QED
        BY <3>2, <3>5, <3>6, <3>8, <3>9, <3>10, <3>11 DEF IInv
    <2> QED
      BY <1>6, <2>2, <2>3 DEF BeginEffect
  <1>7. ASSUME OpenFile PROVE IInv'
    <2>1. UNCHANGED <<existing, flaky, dirs, commit, sup, crashes>> /\ proc.pc = "open"
          /\ proc' = [proc EXCEPT !.pc = "writing"]
      BY <1>7 DEF OpenFile, At, Goto
    <2>2. PICK f \in proc.target : tree' = [tree EXCEPT ![f] = "PARTIAL"]
      BY <1>7 DEF OpenFile
    <2>3. f \in Files /\ proc.target = {f}
      BY <1>3, <2>1 DEF IInv, Performed, OnFile
    <2>4. /\ tree' \in [Files -> Content] /\ tree'[f] = "PARTIAL"
          /\ \A g \in Files : g # f => tree'[g] = tree[g]
      BY <1>2, <2>2, <2>3 DEF Content
    <2>5. /\ proc'.pc = "writing" /\ proc'.target = {f} /\ proc'.dir = d
          /\ proc'.pending = proc.pending /\ proc'.effects = proc.effects
          /\ proc'.asked = proc.asked /\ proc'.rejected = proc.rejected
      BY <1>2, <2>1, <2>3 DEF Process
    <2>6. proc' \in Process
      BY <1>2, <2>1 DEF Process, PCs
    <2>7. TypeOK'
      BY <2>1, <2>4, <2>6 DEF IInv, TypeOK
    <2>8. Rotating' /\ Supervised'
      BY <1>1, <2>1, <2>5 DEF IInv, Rotating, Supervised
    <2>9. Missing' \subseteq Missing
      BY <2>1, <2>4 DEF Missing
    <2>10. Planned'
      BY <1>3, <2>1, <2>5, <2>9 DEF Planned, At, Performing
    <2>11. Performed'
      BY <1>4, <2>1, <2>3, <2>4, <2>5 DEF Performed, Performing, OnFile, At
    <2>12. Collected'
      <3>1. \A e \in proc.effects : e.file \in Files
        BY <1>3 DEF Effect
      <3>2. \A g : Done(g)' <=> Done(g)
        BY <2>1 DEF Done
      <3>3. \A e \in proc.effects : e.status = "COMPLETED" =>
              Done(e.file) /\ tree[e.file] # "PARTIAL"
        BY <2>1 DEF IInv, Collected, At
      <3>4. \A e \in proc.effects : e.status = "COMPLETED" =>
              Done(e.file)' /\ (tree'[e.file] = "PARTIAL" => e.file = f)
        BY <2>4, <3>1, <3>2, <3>3
      <3> QED
        BY <2>1, <2>5, <2>9, <3>4 DEF IInv, Collected, At
    <2>13. Journaled' /\ Committed'
      BY <1>1, <1>2, <2>1, CommitKept, DirectoriesKept DEF IInv
    <2> QED
      BY <2>7, <2>8, <2>10, <2>11, <2>12, <2>13 DEF IInv
  <1>8. ASSUME WriteFile PROVE IInv'
    <2>1. UNCHANGED <<existing, flaky, dirs, commit, sup, crashes>> /\ proc.pc = "writing"
          /\ proc' = [proc EXCEPT !.pc = "receipt"]
      BY <1>8 DEF WriteFile, At, Goto
    <2>2. PICK f \in proc.target :
            \E c \in IF f \in existing THEN {"WRITTEN", "BASE"} ELSE {"WRITTEN"} :
              tree' = [tree EXCEPT ![f] = c]
      BY <1>8 DEF WriteFile
    <2>3. f \in Files /\ proc.target = {f}
      BY <1>3, <2>1 DEF IInv, Performed, OnFile
    <2>4. /\ tree' \in [Files -> Content] /\ tree'[f] # "PARTIAL"
          /\ f \notin existing => tree'[f] = "WRITTEN"
          /\ \A g \in Files : g # f => tree'[g] = tree[g]
      BY <1>2, <2>2, <2>3 DEF Content
    <2>5. /\ proc'.pc = "receipt" /\ proc'.target = {f} /\ proc'.dir = d
          /\ proc'.pending = proc.pending /\ proc'.effects = proc.effects
          /\ proc'.asked = proc.asked /\ proc'.rejected = proc.rejected
      BY <1>2, <2>1, <2>3 DEF Process
    <2>6. proc' \in Process
      BY <1>2, <2>1 DEF Process, PCs
    <2>7. TypeOK'
      BY <2>1, <2>4, <2>6 DEF IInv, TypeOK
    <2>8. Rotating' /\ Supervised'
      BY <1>1, <2>1, <2>5 DEF IInv, Rotating, Supervised
    <2>9. Missing' \subseteq Missing /\ f \notin Missing'
      BY <2>1, <2>4 DEF Missing
    <2>10. Planned'
      BY <1>3, <2>1, <2>5, <2>9 DEF Planned, At, Performing
    <2>11. Performed'
      BY <1>4, <2>1, <2>3, <2>4, <2>5, <2>9 DEF Performed, Performing, OnFile, At
    <2>12. Collected'
      <3>1. \A e \in proc.effects : e.file \in Files
        BY <1>3 DEF Effect
      <3>2. \A g : Done(g)' <=> Done(g)
        BY <2>1 DEF Done
      <3>3. \A e \in proc.effects : e.status = "COMPLETED" =>
              Done(e.file) /\ (tree[e.file] = "PARTIAL" => e.file = f)
        BY <2>1, <2>3 DEF IInv, Collected, At
      <3>4. \A e \in proc.effects : e.status = "COMPLETED" =>
              Done(e.file)' /\ tree'[e.file] # "PARTIAL"
        BY <2>4, <3>1, <3>2, <3>3
      <3> QED
        BY <2>1, <2>5, <2>9, <3>4 DEF IInv, Collected, At
    <2>13. Journaled' /\ Committed'
      BY <1>1, <1>2, <2>1, CommitKept, DirectoriesKept DEF IInv
    <2> QED
      BY <2>7, <2>8, <2>10, <2>11, <2>12, <2>13 DEF IInv
  <1>9. ASSUME EffectFails PROVE IInv'
    BY <1>5, <1>9 DEF EffectFails
  <1>10. ASSUME CompleteEffect PROVE IInv'
    <2>1. UNCHANGED <<existing, flaky, tree, commit, sup, crashes>> /\ proc.pc = "receipt"
      BY <1>10 DEF CompleteEffect, At
    <2>2. PICK f \in proc.target :
            /\ Journal(d, f, "COMPLETED")
            /\ proc' = [proc EXCEPT !.pending = @ \ {f}, !.target = {},
                                    !.pc = IF proc.pending = {f} THEN "effects" ELSE "write"]
      BY <1>10 DEF CompleteEffect
    <2>3. f \in Files /\ proc.target = {f} /\ tree[f] # "PARTIAL" /\ f \notin Missing
      BY <1>3, <2>1 DEF IInv, Performed, OnFile, At
    <2>4. /\ dirs' \in [Directory -> DirectoryState] /\ Journaled'
          /\ dirs'[d].proposal # {}
          /\ \A g \in Files : Done(g) => Done(g)'
          /\ \A g \in Files : dirs'[d].journal[g] =
               IF g = f THEN "COMPLETED" ELSE dirs[d].journal[g]
      BY <1>2, <1>3, <1>4, <2>2, <2>3, JournalStep DEF IInv
    <2>5. proc.pending \ {f} \in SUBSET Files /\ {} \in SUBSET Files
          /\ (IF proc.pending = {f} THEN "effects" ELSE "write") \in PCs
      BY <1>3 DEF PCs
    <2>6. /\ proc'.pc = IF proc.pending = {f} THEN "effects" ELSE "write"
          /\ proc'.target = {} /\ proc'.dir = d
          /\ proc'.pending = proc.pending \ {f} /\ proc'.effects = proc.effects
          /\ proc'.asked = proc.asked /\ proc'.rejected = proc.rejected
      BY <1>2, <2>2 DEF Process
    <2>7. proc' \in Process
      BY <1>2, <2>2, <2>5 DEF Process
    <2>8. TypeOK'
      BY <2>1, <2>4, <2>7 DEF IInv, TypeOK
    <2>9. Rotating' /\ Supervised'
      BY <1>1, <2>1, <2>6 DEF IInv, Rotating, Supervised
    <2>10. Missing' = Missing
      BY <2>1 DEF Missing
    <2>11. Planned'
      <3>1. Missing \subseteq proc'.pending
        BY <1>3, <2>3, <2>6
      <3>2. proc'.pc \in {"effects", "write"} /\ (proc'.pc = "effects" => proc'.pending = {})
        BY <2>6
      <3> QED
        BY <2>4, <2>6, <2>10, <3>1, <3>2 DEF Planned, At, Performing
    <2>12. Performed'
      <3>1. \A g \in Files :
              /\ dirs'[d].journal[g] \in {"NONE", "COMPLETED"}
              /\ dirs'[d].journal[g] = "COMPLETED" => tree'[g] # "PARTIAL"
        BY <1>4, <2>1, <2>3, <2>4
      <3>2. proc'.pc \in {"effects", "write"}
        BY <2>6
      <3> QED
        BY <2>6, <3>1, <3>2 DEF Performed, Performing, OnFile, At
    <2>13. Collected'
      <3>1. \A e \in proc.effects : e.file \in Files
        BY <1>3 DEF Effect
      <3> QED
        BY <2>1, <2>4, <2>6, <2>10, <3>1 DEF IInv, Collected, At
    <2>14. Committed'
      BY <1>1, <1>2, <2>1, <2>4, CommitKept DEF IInv
    <2> QED
      BY <2>4, <2>8, <2>9, <2>11, <2>12, <2>13, <2>14 DEF IInv
  <1>11. ASSUME CollectEffects PROVE IInv'
    <2>1. UNCHANGED <<existing, flaky, tree, dirs, commit, sup, crashes>> /\ proc.pc = "effects"
      BY <1>11 DEF CollectEffects, At
    <2>2. CASE Ambiguous(d)
      BY <1>2, <1>11, <2>1, <2>2, RaisingClean DEF CollectEffects
    <2>3. CASE ~Ambiguous(d)
      <3> DEFINE new == {[file |-> f, status |-> dirs[d].journal[f]] : f \in Intents(d)}
      <3>1. proc' = [proc EXCEPT !.pc = "collect", !.effects = proc.effects \union new]
        BY <1>11, <2>3 DEF CollectEffects
      <3>2. proc.target = {} /\ Missing = {}
        BY <1>3, <2>1 DEF IInv, Performed, Planned, OnFile, At
      <3>3. \A f \in Intents(d) : /\ f \in Files /\ dirs[d].journal[f] = "COMPLETED"
                                  /\ tree[f] # "PARTIAL" /\ Done(f)
        BY <1>3, <1>4, <3>2 DEF Intents, Done
      <3>4. \A e \in new : /\ e \in Effect /\ e.file \in Files /\ Done(e.file)
                           /\ tree[e.file] # "PARTIAL"
        BY <3>3 DEF Effect
      <3> HIDE DEF new
      <3>5. proc.effects \union new \in SUBSET Effect
        BY <1>3, <3>4
      <3>6. /\ proc'.pc = "collect" /\ proc'.effects = proc.effects \union new
            /\ proc'.target = {} /\ proc'.asked = proc.asked /\ proc'.rejected = proc.rejected
        BY <1>2, <3>1, <3>2 DEF Process
      <3>7. proc' \in Process
        BY <1>2, <3>1, <3>5 DEF Process, PCs
      <3>8. Missing' = Missing
        BY <2>1 DEF Missing
      <3>9. Rotating'
        BY <3>6 DEF IInv, Rotating
      <3>10. Planned' /\ Performed'
        BY <3>6 DEF Planned, Performed, Performing, OnFile, At
      <3>11. Collected'
        <4>1. \A e \in proc.effects : e.status = "COMPLETED" =>
                Done(e.file) /\ tree[e.file] # "PARTIAL"
          BY <2>1 DEF IInv, Collected, At
        <4>2. \A g : Done(g)' <=> Done(g)
          BY <2>1 DEF Done
        <4> QED
          BY <2>1, <3>2, <3>4, <3>6, <3>8, <4>1, <4>2 DEF Collected
      <3> QED
        BY <1>1, <2>1, <3>7, <3>9, <3>10, <3>11, ProcessStep
    <2> QED
      BY <2>2, <2>3
  <1> QED
    BY <1>6, <1>7, <1>8, <1>9, <1>10, <1>11 DEF Effects

\* A step of the process alone between validation points, with its effects kept.
LEMMA Advancing ==
    ASSUME IInv, UNCHANGED <<existing, flaky, tree, dirs, commit, sup, crashes>>,
           sup.state = "RUNNING", proc.pc \in {"collect", "validate"},
           NEW pc \in {"validate", "commit"}, Goto(pc)
    PROVE  IInv'
  <1>1. proc \in Process /\ proc' = [proc EXCEPT !.pc = pc]
    BY DEF IInv, TypeOK, Goto
  <1>2. /\ proc' \in Process /\ proc'.pc = pc /\ proc'.effects = proc.effects
        /\ proc'.asked = proc.asked /\ proc'.rejected = proc.rejected
        /\ proc'.target = proc.target
    BY <1>1 DEF Process, PCs
  <1>3. Missing' = Missing /\ \A g : Done(g)' <=> Done(g)
    BY DEF Missing, Done
  <1>4. Rotating'
    BY <1>2 DEF IInv, Rotating
  <1>5. Planned'
    BY <1>2 DEF Planned, Performing, At
  <1>6. Performed'
    BY <1>2 DEF IInv, Performed, Performing, OnFile, At
  <1>7. Collected'
    BY <1>2, <1>3 DEF IInv, Collected, At
  <1> QED
    BY <1>2, <1>4, <1>5, <1>6, <1>7, ProcessStep

\* Validation, remediation, commit and review.
LEMMA ValidationKeeps == ASSUME IInv, Validation PROVE IInv'
  <1>1. proc.pc \in {"collect", "validate", "commit", "review"} /\ sup.state = "RUNNING"
    BY DEF Validation, CollectChanges, ValidationPasses, RemediateValidation,
           ValidationAborts, CommitCheckpoint, Review, At, IInv, Supervised
  <1>2. TypeOK /\ proc \in Process /\ ~At("off")
    BY <1>1 DEF IInv, TypeOK, At
  <1>3. ASSUME CollectChanges PROVE IInv'
    BY <1>1, <1>2, <1>3, RaisingClean, Advancing DEF CollectChanges, At
  <1>4. ASSUME ValidationPasses PROVE IInv'
    BY <1>1, <1>2, <1>4, Advancing DEF ValidationPasses, At
  <1>5. ASSUME RemediateValidation PROVE IInv'
    <2>1. UNCHANGED <<existing, flaky, tree, dirs, commit, sup, crashes>> /\ proc.pc = "validate"
      BY <1>5 DEF RemediateValidation, At
    <2>2. CASE ~MayRemediate
      BY <1>2, <1>5, <2>1, <2>2, RaisingClean DEF RemediateValidation
    <2>3. CASE MayRemediate
      <3> DEFINE r == proc.remediations + 1
      <3>1. r \in 0..MaxRemediations /\ r \in Directory
        BY <1>2, <2>3, Fields DEF MayRemediate, Directory
      <3>2. proc' = [Propose(proc, r) EXCEPT !.remediations = r]
        BY <1>5, <2>3 DEF RemediateValidation
      <3> HIDE DEF r
      <3> DEFINE q == Propose(proc, r)
      <3>3. /\ q \in Process /\ q.pc = "generate" /\ q.todo = Segments
            /\ q.effects = proc.effects /\ q.target = proc.target
            /\ q.asked = <<>> /\ q.rejected = {}
        BY <1>2, <3>1, Proposing
      <3>4. proc' = [q EXCEPT !.remediations = r]
        BY <3>2
      <3> HIDE DEF q
      <3>5. proc.target = {}
        BY <2>1 DEF IInv, Performed, OnFile
      <3>6. /\ proc' \in Process /\ proc'.pc = "generate" /\ proc'.todo = Segments
            /\ proc'.effects = proc.effects /\ proc'.target = {}
            /\ proc'.asked = <<>> /\ proc'.rejected = {}
        BY <3>1, <3>3, <3>4, <3>5 DEF Process
      <3> QED
        BY <1>1, <1>2, <2>1, <3>6, StartsProposal
    <2> QED
      BY <2>2, <2>3
  <1>6. ASSUME ValidationAborts PROVE IInv'
    BY <1>2, <1>6, RaisingClean DEF ValidationAborts
  <1>7. ASSUME CommitCheckpoint PROVE IInv'
    <2>1. /\ UNCHANGED <<existing, flaky, dirs, sup, crashes>> /\ proc.pc = "commit"
          /\ proc' = [proc EXCEPT !.pc = "review"] /\ tree' = Unchanged
          /\ commit' = [done |-> TRUE, content |-> tree, effects |-> proc.effects]
      BY <1>7 DEF CommitCheckpoint, At, Goto
    <2>2. /\ proc' \in Process /\ proc'.pc = "review"
          /\ proc'.asked = proc.asked /\ proc'.rejected = proc.rejected
          /\ proc'.target = proc.target
      BY <1>2, <2>1 DEF Process, PCs
    <2>3. /\ proc.effects \in SUBSET Effect /\ tree \in [Files -> Content]
          /\ Unchanged \in [Files -> Content]
      BY <1>2, Fields DEF TypeOK, Unchanged, Content
    <2>4. commit' \in Checkpoint
      BY <2>1, <2>3 DEF Checkpoint
    <2>5. TypeOK'
      BY <2>1, <2>2, <2>3, <2>4 DEF IInv, TypeOK
    <2>6. Rotating' /\ Supervised'
      BY <1>1, <2>1, <2>2 DEF IInv, Rotating, Supervised
    <2>7. Planned' /\ Collected'
      BY <2>2 DEF Planned, Collected, Performing, At
    <2>8. Performed'
      BY <2>1, <2>2 DEF IInv, Performed, Performing, OnFile, At
    <2>9. Journaled'
      BY <2>1, DirectoriesKept DEF IInv
    <2>10. Committed'
      <3>1. commit'.effects = proc.effects /\ commit'.content = tree
        BY <2>1
      <3>2. proc.effects # {} => Missing = {}
        BY <2>1 DEF IInv, Collected
      <3>3. \A e \in proc.effects : e.status = "COMPLETED" =>
              Done(e.file) /\ tree[e.file] # "PARTIAL"
        BY <2>1 DEF IInv, Collected, At
      <3>4. proc.effects # {} => \A f \in Exact \ existing : tree[f] # "BASE"
        BY <3>2 DEF Missing
      <3>5. \A g : Done(g)' <=> Done(g)
        BY <2>1 DEF Done
      <3> QED
        BY <1>1, <2>1, <3>1, <3>3, <3>4, <3>5 DEF Committed
    <2> QED
      BY <2>5, <2>6, <2>7, <2>8, <2>9, <2>10 DEF IInv
  <1>8. ASSUME Review PROVE IInv'
    <2>1. UNCHANGED <<existing, flaky, tree, dirs, commit, crashes>>
      BY <1>8 DEF Review
    <2>2. CASE Governed(commit)
      <3>1. proc' = NoProc /\ sup' = [sup EXCEPT !.state = "PASSED"]
        BY <1>8, <2>2 DEF Review
      <3>2. sup' \in QueueItem /\ crashes' \in 0..MaxCrashes
        BY <2>1, <3>1 DEF IInv, TypeOK, QueueItem
      <3> QED
        BY <2>1, <2>2, <3>1, <3>2, Ending
    <2>3. CASE ~Governed(commit)
      BY <1>2, <1>8, <2>3, RaisingClean DEF Review
    <2> QED
      BY <2>2, <2>3
  <1> QED
    BY <1>3, <1>4, <1>5, <1>6, <1>7, <1>8 DEF Validation

\* The supervisor takes over from an attempt that ended or was killed.
LEMMA SupervisorKeeps == ASSUME IInv, HandleFailure \/ Crash PROVE IInv'
  <1>1. ASSUME HandleFailure PROVE IInv'
    <2>1. sup.state = "RUNNING" /\ sup \in QueueItem
      BY <1>1 DEF HandleFailure, At, IInv, Supervised, TypeOK
    <2>2. sup' \in QueueItem /\ sup'.state # "PASSED"
      BY <1>1, <2>1 DEF HandleFailure, Retried, QueueItem
    <2>3. crashes' \in 0..MaxCrashes
      BY <1>1 DEF HandleFailure, IInv, TypeOK
    <2> QED
      BY <1>1, <2>2, <2>3, Ending DEF HandleFailure
  <1>2. ASSUME Crash PROVE IInv'
    <2>1. sup \in QueueItem /\ crashes \in 0..MaxCrashes /\ crashes < MaxCrashes
      BY <1>2 DEF Crash, IInv, TypeOK
    <2>2. sup.attempt \in Nat
      BY <2>1 DEF QueueItem
    <2>3. sup' \in QueueItem /\ sup'.state # "PASSED"
      BY <1>2, <2>2 DEF Crash, QueueItem
    <2>4. crashes' \in 0..MaxCrashes
      BY <1>2, <2>1 DEF Crash
    <2> QED
      BY <1>2, <2>3, <2>4, Ending DEF Crash
  <1> QED
    BY <1>1, <1>2

-----------------------------------------------------------------------------
(* The invariant holds *)

\* It holds of a level nobody has worked on.
LEMMA Initially == Init => IInv
  <1> SUFFICES ASSUME Init PROVE IInv
    OBVIOUS
  <1>1. proc = NoProc /\ sup = [state |-> "READY", attempt |-> 1] /\ commit = NoCommit
        /\ tree = Unchanged /\ dirs = [d \in Directory |-> EmptyDirectory]
    BY DEF Init
  <1>2. /\ proc \in Process /\ proc.pc = "off" /\ proc.effects = {} /\ proc.target = {}
        /\ proc.asked = <<>> /\ proc.rejected = {}
    BY <1>1, Values
  <1>3. EmptyDirectory \in DirectoryState /\ NoCommit \in Checkpoint /\ tree \in [Files -> Content]
    BY <1>1 DEF EmptyDirectory, DirectoryState, NoCommit, Checkpoint, Unchanged, Content
  <1>4. TypeOK
    BY <1>1, <1>2, <1>3 DEF Init, TypeOK, QueueItem
  <1>5. Rotating
    BY <1>2 DEF Rotating
  <1>6. Supervised /\ Planned /\ Performed /\ Collected
    BY <1>2 DEF Supervised, Planned, Performed, Performing, OnFile, Collected, At
  <1>7. Journaled
    BY <1>1 DEF Journaled, Intents, EmptyDirectory
  <1>8. Committed
    BY <1>1 DEF Committed, NoCommit
  <1> QED
    BY <1>4, <1>5, <1>6, <1>7, <1>8 DEF IInv

\* Nothing changes.
LEMMA Stuttering == ASSUME IInv, UNCHANGED vars PROVE IInv'
  <1>1. UNCHANGED <<existing, flaky, tree, dirs, commit, proc, sup, crashes>>
    BY DEF vars
  <1>2. TypeOK' /\ Rotating' /\ Supervised' /\ Journaled'
    BY <1>1 DEF IInv, TypeOK, Rotating, Supervised, At, Journaled, Intents
  <1>3. Missing' = Missing /\ \A g : Done(g)' <=> Done(g)
    BY <1>1 DEF Missing, Done
  <1>4. Planned' /\ Performed' /\ Collected'
    BY <1>1, <1>3 DEF IInv, Planned, Performed, Collected, At
  <1>5. Committed'
    BY <1>1, <1>3 DEF IInv, Committed, Governed, Changed
  <1> QED
    BY <1>2, <1>4, <1>5 DEF IInv

\* The invariant is inductive.
LEMMA Inductive == IInv /\ [Next]_vars => IInv'
  BY StartKeeps, GenerationKeeps, EffectsKeep, ValidationKeeps, SupervisorKeeps, Stuttering
     DEF Next, Step, Settled

\* It holds throughout.
LEMMA Invariant == Spec => []IInv
  BY Initially, Inductive, PTL DEF Spec

-----------------------------------------------------------------------------
(* The theorems *)

\* Worktree, proposals, journals, commit and process are of their types: a
\* remediation never leaves the directories it is allowed.
THEOREM TypeCorrect == Spec => []TypeOK
  <1>1. IInv => TypeOK
    BY DEF IInv
  <1> QED
    BY <1>1, Invariant, PTL

\* The models approved for a segment are asked in their order, for any list of
\* models: none is asked twice before all the others were.
THEOREM ModelsAreRotated == Spec => []ModelsRotate
  <1>1. IInv => ModelsRotate
    <2> SUFFICES ASSUME IInv PROVE ModelsRotate
      OBVIOUS
    <2>1. TypeOK /\ proc.asked \in Seq(STRING)
      BY Fields DEF IInv
    <2>2. /\ Len(proc.asked) \in Nat /\ DOMAIN proc.asked = 1..Len(proc.asked)
          /\ Len(Models) \in Nat /\ DOMAIN Models = 1..Len(Models)
      BY <2>1
    <2>3. ASSUME NEW i \in DOMAIN proc.asked, NEW j \in DOMAIN proc.asked,
                 i < j, proc.asked[i] = proc.asked[j]
          PROVE  j > Len(Models)
      <3> SUFFICES ASSUME j <= Len(Models) PROVE FALSE
        BY <2>2
      <3>1. i \in DOMAIN Models /\ j \in DOMAIN Models /\ i <= Len(Models)
        BY <2>2, <2>3
      <3>2. proc.asked[i] = Models[i] /\ proc.asked[j] = Models[j]
        BY <3>1 DEF IInv, Rotating
      <3>3. i = j
        BY <2>3, <3>1, <3>2
      <3> QED
        BY <2>2, <2>3, <3>3
    <2> QED
      BY <2>3 DEF IInv, Rotating, ModelsRotate
  <1> QED
    BY <1>1, Invariant, PTL

\* A level that passes its review holds only files written to the end under a
\* completed effect, whatever failed writes and killed attempts it took over.
THEOREM ReviewsAreGoverned == Spec => []ReviewedIsGoverned
  <1>1. IInv => ReviewedIsGoverned
    <2> SUFFICES ASSUME IInv, sup.state = "PASSED", NEW f \in Changed(commit.content)
                 PROVE  commit.content[f] = "WRITTEN" /\ Done(f)
      BY DEF ReviewedIsGoverned, Done
    <2>1. commit.content \in [Files -> Content]
      BY DEF IInv, TypeOK, Checkpoint
    <2>2. f \in Files /\ commit.content[f] # "BASE" /\ commit.content[f] \in Content
      BY <2>1 DEF Changed
    <2>3. Governed(commit)
      BY DEF IInv, Committed
    <2>4. PICK e \in commit.effects : e.file = f /\ e.status = "COMPLETED"
      BY <2>3 DEF Governed
    <2>5. Done(f) /\ commit.content[f] # "PARTIAL"
      BY <2>4 DEF IInv, Committed
    <2> QED
      BY <2>2, <2>5 DEF Content
  <1> QED
    BY <1>1, Invariant, PTL

\* A level that passes its review has made every file it owns by name, although
\* each attempt validates whatever the earlier ones left in the worktree.
THEOREM ReviewsAreComplete == Spec => []ReviewedIsComplete
  <1>1. IInv => ReviewedIsComplete
    <2> SUFFICES ASSUME IInv, sup.state = "PASSED", NEW f \in Exact \ existing
                 PROVE  commit.content[f] = "WRITTEN"
      BY DEF ReviewedIsComplete
    <2>1. commit.content \in [Files -> Content] /\ f \in Files
      BY DEF IInv, TypeOK, Checkpoint
    <2>2. Governed(commit)
      BY DEF IInv, Committed
    <2>3. commit.content[f] # "BASE"
      BY <2>2 DEF IInv, Committed, Governed
    <2>4. f \in Changed(commit.content)
      BY <2>1, <2>3 DEF Changed
    <2>5. PICK e \in commit.effects : e.file = f /\ e.status = "COMPLETED"
      BY <2>2, <2>4 DEF Governed
    <2>6. commit.content[f] # "PARTIAL"
      BY <2>5 DEF IInv, Committed
    <2> QED
      BY <2>1, <2>3, <2>6 DEF Content
  <1> QED
    BY <1>1, Invariant, PTL
=============================================================================
