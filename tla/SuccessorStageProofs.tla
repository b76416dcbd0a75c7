------------------------ MODULE SuccessorStageProofs ------------------------
(***************************************************************************)
(* Theorems about SuccessorStage for every set of requests, commits and    *)
(* overlapping polls, and for every bound on messages, deaths of polls and *)
(* outside changes.                                                        *)
(***************************************************************************)
EXTENDS SuccessorStage, Sequences, FiniteSetTheorems, TLAPS

USE StageAssumption

-----------------------------------------------------------------------------
(* The inductive invariant *)

\* Where a poll has a STAGE request, and where it has a file to seal.
Staging == {"lock"} \cup Transaction
Creating == {"create", "open", "write", "unlinked"}

\* The workspace went from the expected to the target head of the request, or
\* somebody else moved it after the last check.
Forwarded(r) == r \in raced \/ [from |-> Expected[r], to |-> Target[r], by |-> r] \in moves

\* What a file with content c rests on, whether it is there or about to be made.
Grounded(f, c) ==
  /\ Complete(c)
  /\ \A r \in Requests : f = DryRun(r) => c.status \in Proof
  /\ \A r \in Requests : f = Stage(r) =>
       /\ c.status = "STAGED" /\ Complete(file[DryRun(r)])
       /\ Forwarded(r) /\ units.successor # "NONE"
  /\ f = Waiting => Staged # {}
  /\ f = Evidence => Complete(file[Waiting])
  /\ f = Terminal => job.receipt # "NONE"

\* The sealed evidence on disk.
OnDisk ==
  /\ \A f \in File : file[f] \in {Absent, Torn} \/ Grounded(f, file[f])
  /\ job.registered => Complete(file[Evidence])

\* What a poll relies on at each step: its request is dry-run; the head it last
\* checked is the one it merges from, unless that was moved; what it seals and
\* what it answers has happened.
Justified(p) ==
  LET s == poll[p]
      r == Request(p)
  IN
  /\ s.pc \in Staging => r \in Requests /\ s.msg = Stage(r) /\ Complete(file[DryRun(r)])
  /\ s.pc = "merge" => git.head = Expected[r] \/ r \in raced
  /\ s.pc \in {"advanced", "render", "rendering", "probe"} => Forwarded(r)
  /\ s.pc \in {"rendering", "probe"} => units.successor # "NONE"
  /\ s.pc \in {"cleanup", "unlock"} =>
       /\ s.outcome \in {"STAGED"} \cup Outcome
       /\ s.outcome = "STAGED" => Forwarded(r) /\ units.successor # "NONE"
  /\ s.pc = "report" => s.outcome \in Result
  /\ s.pc = "receipt" => s.outcome \in Registration
  /\ s.pc \in Creating => Grounded(s.file, s.content)
  /\ s.pc = "unlinked" => s.file = Terminal
  /\ s.pc = "register" => Complete(file[Evidence])

\* The lock file is there for as long as a transaction runs.
Locked == \A p \in Pollers : InTransaction(p) => lock

IInv == TypeOK /\ Locked /\ OneTransaction /\ OnDisk /\ \A p \in Pollers : Justified(p)

-----------------------------------------------------------------------------
(* Names and records *)

\* The names of messages and of files tell their requests and their kinds apart.
LEMMA Names ==
    /\ \A r \in Requests : /\ Stage(r)[2] = r
                           /\ Stage(r) \in Phase /\ DryRun(r) \in Phase
    /\ \A r, q \in Requests : /\ Stage(r) # DryRun(q)
                              /\ Stage(r) = Stage(q) => r = q
                              /\ DryRun(r) = DryRun(q) => r = q
    /\ {Waiting, Evidence, Terminal} \cap Phase = {}
    /\ Waiting # Evidence /\ Evidence # Terminal /\ Waiting # Terminal
    /\ Phase \subseteq Message /\ Phase \subseteq File
    /\ {Admission, Canary} \subseteq Message /\ {Admission, Canary} \cap Phase = {}
    /\ {Waiting, Evidence, Terminal} \subseteq File
  <1>1. \A r : Len(Stage(r)) = 2 /\ Len(DryRun(r)) = 2
    BY DEF Stage, DryRun
  <1>2. /\ Len(Waiting) = 1 /\ Len(Evidence) = 1 /\ Len(Terminal) = 1
        /\ Len(Admission) = 1 /\ Len(Canary) = 1
    BY DEF Waiting, Evidence, Terminal, Admission, Canary
  <1>3. {Waiting, Evidence, Terminal} \cap Phase = {} /\ {Admission, Canary} \cap Phase = {}
    BY <1>1, <1>2 DEF Phase
  <1>4. \A r, q : /\ Stage(r)[2] = r /\ Stage(r) # DryRun(q)
                  /\ Stage(r) = Stage(q) => r = q
                  /\ DryRun(r) = DryRun(q) => r = q
    BY DEF Stage, DryRun
  <1>5. Waiting # Evidence /\ Evidence # Terminal /\ Waiting # Terminal
    BY DEF Waiting, Evidence, Terminal
  <1> QED
    BY <1>3, <1>4, <1>5 DEF Phase, Message, File

\* The contents that are sealed.
LEMMA Contents ==
    /\ Absent \in Content /\ Torn \in Content /\ Sealed \in Content
    /\ ~Complete(Absent) /\ ~Complete(Torn) /\ Complete(Sealed)
    /\ \A s \in Proof \cup {"STAGED"} : \A n \in Nat :
         /\ [status |-> s, serving |-> n] \in Content
         /\ [status |-> s, serving |-> n].status = s
         /\ Complete([status |-> s, serving |-> n])
  BY DEF Absent, Torn, Sealed, Content, Complete, Proof

\* The program counters by the part of the work they are in.
LEMMA Counters ==
    /\ Staging \subseteq PCs /\ Creating \subseteq PCs /\ Transaction \subseteq Staging
    /\ {"idle", "report", "register", "receipt"} \subseteq PCs /\ Directory \subseteq PCs
    /\ Staging \cap Creating = {}
    /\ {"idle", "report", "register", "receipt"} \cap (Staging \cup Creating) = {}
    /\ Directory \cap ({"idle", "report", "register", "receipt"} \cup Staging \cup Creating) = {}
    /\ "lock" \notin Transaction
  BY DEF Staging, Creating, PCs, Transaction, Directory

\* A poll between messages.
LEMMA IdlePoll == Idle \in Poll /\ Idle.pc = "idle"
  <1>1. /\ "idle" \in PCs /\ Admission \in Message /\ Waiting \in File /\ Absent \in Content
    BY Counters, Names, Contents
  <1> QED
    BY <1>1 DEF Idle, Poll

\* One poll takes a step and the others do not.
LEMMA Turned ==
    ASSUME poll \in [Pollers -> Poll], NEW p \in Pollers, NEW v \in Poll,
           poll' = [poll EXCEPT ![p] = v]
    PROVE  /\ poll' \in [Pollers -> Poll] /\ poll'[p] = v
           /\ \A q \in Pollers \ {p} : poll'[q] = poll[q]
  OBVIOUS

-----------------------------------------------------------------------------
(* What stays true of the others *)

\* Evidence is only added: but for the terminal handoff nothing that was sealed
\* goes away.
Grows ==
  /\ \A f \in File \ {Terminal} : Complete(file[f]) => Complete(file'[f])
  /\ \A r \in Requests : file[Stage(r)].status = "STAGED" => file'[Stage(r)].status = "STAGED"
  /\ moves \subseteq moves' /\ raced \subseteq raced'
  /\ units.successor # "NONE" => units'.successor # "NONE"
  /\ job.receipt # "NONE" => job'.receipt # "NONE"

\* What a file rests on stays.
LEMMA GroundedKept ==
    ASSUME Grows, NEW f \in File, NEW c, Grounded(f, c)
    PROVE  Grounded(f, c)'
  <1>1. \A r \in Requests : DryRun(r) \in File \ {Terminal} /\ Stage(r) \in File
    BY Names
  <1>2. Waiting \in File \ {Terminal}
    BY Names
  <1>3. Staged # {} => Staged' # {}
    BY DEF Staged, Grows
  <1>4. \A r \in Requests : Forwarded(r) => Forwarded(r)'
    BY DEF Forwarded, Grows
  <1> QED
    BY <1>1, <1>2, <1>3, <1>4 DEF Grounded, Grows

\* A file that is written is grounded by then.
LEMMA DiskKept ==
    ASSUME IInv, Grows, job'.registered => Complete(file'[Evidence]),
           \A f \in File : \/ file'[f] = file[f] \/ file'[f] \in {Absent, Torn}
                           \/ Grounded(f, file'[f])
    PROVE  OnDisk'
  <1>1. ASSUME NEW f \in File, file'[f] \notin {Absent, Torn} PROVE Grounded(f, file[f])'
    <2>1. Grounded(f, file'[f])
      BY <1>1 DEF IInv, OnDisk
    <2>2. PICK c : c = file'[f]
      OBVIOUS
    <2>3. Grounded(f, c)
      BY <2>1, <2>2
    <2>4. Grounded(f, c)'
      BY <2>3, GroundedKept
    <2> QED
      BY <2>2, <2>4 DEF Grounded
  <1>2. Absent' = Absent /\ Torn' = Torn
    BY DEF Absent, Torn
  <1> QED
    BY <1>1, <1>2 DEF OnDisk

\* A poll that does not move still has what it relies on.
LEMMA OthersJustified ==
    ASSUME IInv, Grows, NEW q \in Pollers, poll'[q] = poll[q],
           poll[q].pc = "merge" => git'.head = git.head \/ Request(q) \in raced'
    PROVE  Justified(q)'
  <1>1. Justified(q) /\ poll[q] \in Poll /\ poll[q].file \in File
    BY DEF IInv, TypeOK, Poll
  <1>2. Request(q)' = Request(q)
    BY DEF Request
  <1>3. PICK f, c, r : f = poll[q].file /\ c = poll[q].content /\ r = Request(q)
    OBVIOUS
  <1>4. Grounded(f, c) => Grounded(f, c)'
    BY <1>1, <1>3, GroundedKept
  <1>5. Grounded(poll[q].file, poll[q].content) => Grounded(poll[q].file, poll[q].content)'
    BY <1>3, <1>4 DEF Grounded
  <1>6. Forwarded(r) => Forwarded(r)'
    BY DEF Forwarded, Grows
  <1>7. r \in Requests => DryRun(r) \in File \ {Terminal}
    BY Names
  <1>8. Evidence \in File \ {Terminal}
    BY Names
  <1>9. /\ poll'[q].pc \in Staging => /\ r \in Requests /\ poll'[q].msg = Stage(r)
                                      /\ Complete(file'[DryRun(r)])
        /\ poll'[q].pc = "merge" => git'.head = Expected[r] \/ r \in raced'
    BY <1>1, <1>3, <1>7 DEF Justified, Grows
  <1> QED
    BY <1>1, <1>2, <1>3, <1>5, <1>6, <1>8, <1>9 DEF Justified, Grows, Forwarded

\* Transactions stay apart in a step that neither takes nor releases the lock.
LEMMA TransactionKept ==
    ASSUME IInv, lock' = lock,
           \A q \in Pollers : poll'[q].pc \in Transaction => poll[q].pc \in Transaction
    PROVE  (Locked /\ OneTransaction)'
  BY DEF IInv, Locked, OneTransaction, InTransaction

\* What is left to show of a poll's step inside or outside of its transaction.
LEMMA StepKeeps ==
    ASSUME IInv, NEW p \in Pollers, TypeOK', Grows, lock' = lock,
           \A q \in Pollers \ {p} :
             /\ poll'[q] = poll[q]
             /\ poll[q].pc = "merge" => git'.head = git.head \/ Request(q) \in raced',
           poll'[p].pc \in Transaction => poll[p].pc \in Transaction,
           OnDisk', Justified(p)'
    PROVE  IInv'
  <1>1. \A q \in Pollers \ {p} : Justified(q)'
    BY OthersJustified
  <1>2. (Locked /\ OneTransaction)'
    <2>1. \A q \in Pollers : poll'[q].pc \in Transaction => poll[q].pc \in Transaction
      OBVIOUS
    <2> QED
      BY <2>1, TransactionKept
  <1> QED
    BY <1>1, <1>2 DEF IInv

\* A step that changes nothing but the poll, the inbox and the answer.
Still == UNCHANGED <<git, remote, units, lock, file, job, moves, raced>>

\* Such a step keeps the invariant when its own place is justified.
LEMMA QuietStep ==
    ASSUME IInv, Still, left' \in Left, inbox' \subseteq Message, answer' \in Answers,
           NEW p \in Pollers, NEW v \in Poll, poll' = [poll EXCEPT ![p] = v],
           v.pc \in Transaction => poll[p].pc \in Transaction,
           Justified(p)'
    PROVE  IInv'
  <1>1. TypeOK
    BY DEF IInv
  <1>2. /\ poll' \in [Pollers -> Poll] /\ poll'[p] = v
        /\ \A q \in Pollers \ {p} : poll'[q] = poll[q]
    BY <1>1, Turned DEF TypeOK
  <1>3. TypeOK'
    BY <1>1, <1>2 DEF TypeOK, Still
  <1>4. Grows
    BY DEF Grows, Still
  <1>5. job'.registered => Complete(file'[Evidence])
    BY DEF IInv, OnDisk, Still
  <1>6. OnDisk'
    BY <1>4, <1>5, DiskKept DEF Still
  <1> QED
    BY <1>2, <1>3, <1>4, <1>6, StepKeeps DEF Still

\* So does a step of the operator.
LEMMA SettledStep ==
    ASSUME IInv, Still, left' \in Left, inbox' \subseteq Message, answer' \in Answers,
           poll' = poll
    PROVE  IInv'
  <1>1. TypeOK'
    BY DEF IInv, TypeOK, Still
  <1>2. Grows
    BY DEF Grows, Still
  <1>3. job'.registered => Complete(file'[Evidence])
    BY DEF IInv, OnDisk, Still
  <1>4. OnDisk'
    BY <1>2, <1>3, DiskKept DEF Still
  <1>5. \A q \in Pollers : Justified(q)'
    BY <1>2, OthersJustified DEF Still
  <1>6. (Locked /\ OneTransaction)'
    BY TransactionKept DEF Still
  <1> QED
    BY <1>1, <1>4, <1>5, <1>6 DEF IInv

\* A poll goes on with its message.
LEMMA GotoPoll ==
    ASSUME IInv, NEW p \in Pollers, NEW pc \in PCs, Goto(p, pc)
    PROVE  \E v \in Poll : /\ poll' = [poll EXCEPT ![p] = v] /\ UNCHANGED <<inbox, answer>>
                           /\ v.pc = pc /\ v.msg = poll[p].msg /\ v.outcome = poll[p].outcome
                           /\ v.file = poll[p].file /\ v.content = poll[p].content
  <1> DEFINE v == [poll[p] EXCEPT !.pc = pc]
  <1>1. poll \in [Pollers -> Poll] /\ poll[p] \in Poll
    BY DEF IInv, TypeOK
  <1>2. /\ v \in Poll /\ v.pc = pc /\ v.msg = poll[p].msg /\ v.outcome = poll[p].outcome
        /\ v.file = poll[p].file /\ v.content = poll[p].content
    BY <1>1 DEF Poll
  <1>3. poll' = [poll EXCEPT ![p] = v] /\ UNCHANGED <<inbox, answer>>
    BY <1>1 DEF Goto
  <1> QED
    BY <1>2, <1>3

\* It leaves its transaction with an outcome.
LEMMA LeavePoll ==
    ASSUME IInv, NEW p \in Pollers, NEW o \in {"STAGED"} \cup Outcome, Leave(p, o)
    PROVE  \E v \in Poll : /\ poll' = [poll EXCEPT ![p] = v] /\ UNCHANGED <<inbox, answer>>
                           /\ v.pc = "cleanup" /\ v.outcome = o /\ v.msg = poll[p].msg
  <1> DEFINE v == [poll[p] EXCEPT !.pc = "cleanup", !.outcome = o]
  <1>1. poll \in [Pollers -> Poll] /\ poll[p] \in Poll
    BY DEF IInv, TypeOK
  <1>2. "cleanup" \in PCs /\ o \in Result
    BY DEF PCs, Transaction, Result
  <1>3. v \in Poll /\ v.pc = "cleanup" /\ v.outcome = o /\ v.msg = poll[p].msg
    BY <1>1, <1>2 DEF Poll
  <1>4. poll' = [poll EXCEPT ![p] = v] /\ UNCHANGED <<inbox, answer>>
    BY <1>1 DEF Leave
  <1> QED
    BY <1>3, <1>4

\* It has a result to report.
LEMMA ReportPoll ==
    ASSUME IInv, NEW p \in Pollers, NEW o \in Result, Report(p, o)
    PROVE  \E v \in Poll : /\ poll' = [poll EXCEPT ![p] = v] /\ UNCHANGED <<inbox, answer>>
                           /\ v.pc = "report" /\ v.outcome = o
  <1> DEFINE v == [poll[p] EXCEPT !.pc = "report", !.outcome = o]
  <1>1. poll \in [Pollers -> Poll] /\ poll[p] \in Poll
    BY DEF IInv, TypeOK
  <1>2. "report" \in PCs
    BY DEF PCs
  <1>3. v \in Poll /\ v.pc = "report" /\ v.outcome = o
    BY <1>1, <1>2 DEF Poll
  <1>4. poll' = [poll EXCEPT ![p] = v] /\ UNCHANGED <<inbox, answer>>
    BY <1>1 DEF Report
  <1> QED
    BY <1>3, <1>4

\* An answer ends the poll.
LEMMA AnswerKeeps ==
    ASSUME IInv, NEW p \in Pollers, NEW o \in Result, Answer(p, o)
    PROVE  /\ poll' = [poll EXCEPT ![p] = Idle] /\ Justified(p)'
           /\ inbox' \subseteq Message /\ answer' \in Answers
  <1>1. poll[p] \in Poll /\ inbox \subseteq Message /\ poll \in [Pollers -> Poll]
    BY DEF IInv, TypeOK
  <1>2. poll' = [poll EXCEPT ![p] = Idle]
    BY DEF Answer
  <1>3. poll'[p].pc = "idle"
    BY <1>1, <1>2, IdlePoll
  <1>4. Justified(p)'
    BY <1>3, Counters DEF Justified
  <1>5. answer' \in Answers
    BY <1>1 DEF Answer, Answers, Poll
  <1> QED
    BY <1>1, <1>2, <1>4, <1>5 DEF Answer

\* An answer, a report and an error that leave everything else alone.
LEMMA Answered ==
    ASSUME IInv, Still, left' \in Left, NEW p \in Pollers, NEW o \in Result,
           Answer(p, o) \/ Report(p, o)
    PROVE  IInv'
  <1>1. TypeOK
    BY DEF IInv
  <1>2. CASE Answer(p, o)
    <2>1. /\ poll' = [poll EXCEPT ![p] = Idle] /\ Justified(p)'
          /\ inbox' \subseteq Message /\ answer' \in Answers
      BY <1>2, AnswerKeeps
    <2>2. Idle \in Poll /\ Idle.pc \notin Transaction
      BY IdlePoll, Counters
    <2> QED
      BY <2>1, <2>2, QuietStep
  <1>3. CASE Report(p, o)
    <2>1. PICK v \in Poll : /\ poll' = [poll EXCEPT ![p] = v] /\ UNCHANGED <<inbox, answer>>
                            /\ v.pc = "report" /\ v.outcome = o
      BY <1>3, ReportPoll
    <2>2. inbox' \subseteq Message /\ answer' \in Answers
      BY <1>1, <2>1 DEF TypeOK
    <2>3. poll'[p] = v
      BY <1>1, <2>1, Turned DEF TypeOK
    <2>4. Justified(p)' /\ v.pc \notin Transaction
      BY <2>1, <2>3, Counters DEF Justified
    <2> QED
      BY <2>1, <2>2, <2>4, QuietStep
  <1> QED
    BY <1>2, <1>3

\* An error in the transaction, which holds the lock until its finally clause.
LEMMA LeaveKeeps ==
    ASSUME IInv, Still, left' \in Left, NEW p \in Pollers, NEW o \in {"STAGED"} \cup Outcome,
           Leave(p, o), InTransaction(p),
           o = "STAGED" => Forwarded(Request(p)) /\ units.successor # "NONE"
    PROVE  IInv'
  <1>1. TypeOK /\ Justified(p)
    BY DEF IInv
  <1>2. PICK v \in Poll : /\ poll' = [poll EXCEPT ![p] = v] /\ UNCHANGED <<inbox, answer>>
                          /\ v.pc = "cleanup" /\ v.outcome = o /\ v.msg = poll[p].msg
    BY LeavePoll
  <1>3. inbox' \subseteq Message /\ answer' \in Answers
    BY <1>1, <1>2 DEF TypeOK
  <1>4. poll'[p] = v
    BY <1>1, <1>2, Turned DEF TypeOK
  <1>5. Request(p)' = Request(p)
    BY <1>2, <1>4 DEF Request
  <1>6. Request(p) \in Requests /\ poll[p].msg = Stage(Request(p)) /\ Complete(file[DryRun(Request(p))])
    BY <1>1, Counters DEF Justified, InTransaction
  <1>7. Justified(p)'
    BY <1>2, <1>4, <1>5, <1>6 DEF Justified, Still, Staging, Transaction, Creating, Forwarded
  <1> QED
    BY <1>2, <1>3, <1>7, QuietStep DEF InTransaction

\* A poll that seals a file rests on what the file does.
LEMMA SealJustified ==
    ASSUME Still, NEW p \in Pollers, NEW f, NEW c, Grounded(f, c),
           poll'[p].pc \in Creating \ {"unlinked"}, poll'[p].file = f, poll'[p].content = c
    PROVE  Justified(p)'
  <1>1. Grounded(f, c)'
    BY DEF Grounded, Still, Staged, Forwarded
  <1>2. Grounded(poll[p].file, poll[p].content)'
    BY <1>1 DEF Grounded
  <1> QED
    BY <1>2, Counters DEF Justified, Creating, Staging, Transaction

\* A message leads to a file that is grounded.
LEMMA SealKeeps ==
    ASSUME IInv, Still, left' \in Left, NEW p \in Pollers, NEW f \in File,
           NEW c \in Content, Seal(p, f, c), Grounded(f, c)
    PROVE  IInv'
  <1> DEFINE v == [poll[p] EXCEPT !.pc = "create", !.file = f, !.content = c]
  <1>1. "create" \in PCs /\ poll[p] \in Poll
    BY DEF PCs, IInv, TypeOK
  <1>2. v \in Poll /\ v.pc = "create" /\ v.file = f /\ v.content = c
    BY <1>1 DEF Poll
  <1>3. poll' = [poll EXCEPT ![p] = v] /\ UNCHANGED <<inbox, answer>>
    BY DEF Seal, IInv, TypeOK
  <1> HIDE DEF v
  <1>4. poll'[p] = v /\ inbox' \subseteq Message /\ answer' \in Answers
    BY <1>2, <1>3, Turned DEF IInv, TypeOK
  <1>5. Justified(p)'
    BY <1>2, <1>4, SealJustified DEF Creating
  <1>6. v.pc \notin Transaction
    BY <1>2 DEF Transaction
  <1> QED
    BY <1>2, <1>3, <1>4, <1>5, <1>6, QuietStep

\* A poll is started for a message, or finds it answered: it relies on nothing.
LEMMA StartKeeps ==
    ASSUME IInv, NEW p \in Pollers,
           \/ \E m \in Message : \E d \in Directory : StartPoll(p, m, d)
           \/ EndPoll(p)
    PROVE  IInv'
  <1>1. /\ left \in Left /\ inbox \subseteq Message /\ answer \in Answers
        /\ poll \in [Pollers -> Poll]
    BY DEF IInv, TypeOK
  <1>2. Still /\ UNCHANGED <<inbox, answer>>
    BY DEF StartPoll, EndPoll, Still
  <1>3. left' \in Left
    <2>1. CASE EndPoll(p)
      BY <1>1, <2>1 DEF EndPoll
    <2>2. ASSUME NEW m, NEW d, StartPoll(p, m, d) PROVE left' \in Left
      <3>1. left.polls > 0 /\ left' = [left EXCEPT !.polls = @ - 1]
        BY <2>2 DEF StartPoll
      <3> QED
        BY <1>1, <3>1 DEF Left
    <2> QED
      BY <2>1, <2>2
  <1>4. PICK v \in Poll : /\ poll' = [poll EXCEPT ![p] = v]
                          /\ v.pc = "idle" \/ v.pc \in Directory
    <2>1. CASE EndPoll(p)
      <3>1. poll' = [poll EXCEPT ![p] = Idle]
        BY <2>1 DEF EndPoll
      <3> QED
        BY <3>1, IdlePoll
    <2>2. ASSUME NEW m \in Message, NEW d \in Directory, StartPoll(p, m, d)
          PROVE  \E v \in Poll : poll' = [poll EXCEPT ![p] = v] /\ v.pc \in Directory
      <3> DEFINE v == [Idle EXCEPT !.pc = d, !.msg = m]
      <3>1. v \in Poll /\ v.pc = d
        BY IdlePoll, Counters DEF Poll
      <3>2. poll' = [poll EXCEPT ![p] = v]
        BY <2>2 DEF StartPoll
      <3> QED
        BY <3>1, <3>2
    <2> QED
      BY <2>1, <2>2
  <1>5. poll'[p] = v
    BY <1>1, <1>4, Turned
  <1>6. Justified(p)' /\ v.pc \notin Transaction
    BY <1>4, <1>5, Counters DEF Justified, Directory
  <1> QED
    BY <1>1, <1>2, <1>3, <1>4, <1>6, QuietStep

\* execute: the replay of a receipt, the checks, and the dry run.
LEMMA ExecuteKeeps ==
    ASSUME IInv, NEW p \in Pollers, NEW r \in Requests, NEW m \in Phase, Execute(p, r, m)
    PROVE  IInv'
  <1>1. TypeOK /\ Still /\ left' \in Left /\ m \in File /\ m \in Message /\ m \in {DryRun(r), Stage(r)}
    BY Names DEF IInv, TypeOK, Execute, Still
  <1>2. "FAILED_BEFORE_MUTATION" \in Result
    BY DEF Result, Outcome
  <1>3. CASE Refuse(p)
    BY <1>1, <1>2, <1>3, Answered DEF Refuse
  <1>4. CASE Complete(file[m]) /\ Answer(p, file[m].status)
    <2>1. Grounded(m, file[m])
      BY <1>1, <1>4, Contents DEF IInv, OnDisk
    <2>2. file[m].status \in Result
      BY <1>1, <2>1 DEF Grounded, Result
    <2> QED
      BY <1>1, <1>4, <2>2, Answered
  <1>5. CASE m = Stage(r) /\ StageBinding(r) /\ Goto(p, "lock")
    <2>1. "lock" \in PCs /\ poll[p].msg = m
      BY DEF PCs, Execute, Receive
    <2>2. PICK v \in Poll : /\ poll' = [poll EXCEPT ![p] = v] /\ UNCHANGED <<inbox, answer>>
                            /\ v.pc = "lock" /\ v.msg = m
      BY <1>5, <2>1, GotoPoll
    <2>3. poll'[p] = v /\ inbox' \subseteq Message /\ answer' \in Answers
      BY <1>1, <2>2, Turned DEF TypeOK
    <2>4. Request(p)' = r /\ poll'[p].msg = Stage(r) /\ Complete(file'[DryRun(r)])
      BY <1>1, <1>5, <2>2, <2>3, Names DEF Request, StageBinding, Still
    <2>5. Justified(p)'
      BY <2>2, <2>3, <2>4, Counters DEF Justified, Creating, Transaction
    <2> QED
      BY <1>1, <2>2, <2>3, <2>5, Counters, QuietStep
  <1>6. CASE /\ m = DryRun(r) /\ DryRunVerdict(r) \in Proof
             /\ Seal(p, m, [status |-> DryRunVerdict(r), serving |-> 0])
    <2> DEFINE c == [status |-> DryRunVerdict(r), serving |-> 0]
    <2>1. c \in Content /\ Complete(c) /\ c.status \in Proof
      BY <1>6, Contents
    <2> HIDE DEF c
    <2>2. Grounded(m, c)
      BY <1>6, <2>1, Names DEF Grounded
    <2> QED
      BY <1>1, <1>6, <2>1, <2>2, SealKeeps DEF c
  <1>7. \/ Refuse(p)
        \/ Complete(file[m]) /\ Answer(p, file[m].status)
        \/ m = Stage(r) /\ StageBinding(r) /\ Goto(p, "lock")
        \/ /\ m = DryRun(r) /\ DryRunVerdict(r) \in Proof
           /\ Seal(p, m, [status |-> DryRunVerdict(r), serving |-> 0])
    <2>1. \/ file[m].status = "TORN" \/ Complete(file[m]) \/ file[m] = Absent
      BY <1>1, Contents DEF IInv, OnDisk, Grounded, Torn
    <2> QED
      BY <2>1 DEF Execute
  <1> QED
    BY <1>3, <1>4, <1>5, <1>6, <1>7

\* The request of a poll that stages.
LEMMA InStage ==
    ASSUME IInv, NEW p \in Pollers, poll[p].pc \in Staging
    PROVE  /\ Request(p) \in Requests /\ poll[p].msg = Stage(Request(p))
           /\ Complete(file[DryRun(Request(p))])
  BY DEF IInv, Justified

\* A step inside a transaction: no other poll is in one, so that the workspace is
\* its own, and what is left to show is what it relies on at its next step.
LEMMA WithinKeeps ==
    ASSUME IInv, NEW p \in Pollers, InTransaction(p), NEW r, r = Request(p), NEW v \in Poll,
           v.pc \in Transaction, v.msg = poll[p].msg, poll' = [poll EXCEPT ![p] = v],
           UNCHANGED <<inbox, answer, remote, lock, file, job, raced>>,
           git' \in Workspace, units' \in UnitFiles, moves \subseteq moves', moves' \subseteq Moves,
           left' \in Left, units.successor # "NONE" => units'.successor # "NONE",
           v.pc = "merge" => git'.head = Expected[r],
           v.pc \in {"advanced", "render", "rendering", "probe"} => Forwarded(r)',
           v.pc \in {"rendering", "probe"} => units'.successor # "NONE",
           v.pc \in {"cleanup", "unlock"} =>
             /\ v.outcome \in {"STAGED"} \cup Outcome
             /\ v.outcome = "STAGED" => Forwarded(r)' /\ units'.successor # "NONE"
    PROVE  IInv'
  <1>1. TypeOK
    BY DEF IInv
  <1>2. /\ poll' \in [Pollers -> Poll] /\ poll'[p] = v
        /\ \A q \in Pollers \ {p} : poll'[q] = poll[q]
    BY <1>1, Turned DEF TypeOK
  <1>3. TypeOK'
    BY <1>1, <1>2 DEF TypeOK
  <1>4. Grows
    BY DEF Grows
  <1>5. OnDisk'
    <2>1. job'.registered => Complete(file'[Evidence])
      BY DEF IInv, OnDisk
    <2> QED
      BY <1>4, <2>1, DiskKept
  <1>6. \A q \in Pollers \ {p} : poll[q].pc # "merge"
    BY DEF IInv, OneTransaction, InTransaction, Transaction
  <1>7. Request(p)' = r
    BY <1>2 DEF Request
  <1>8. r \in Requests /\ v.msg = Stage(r) /\ Complete(file[DryRun(r)])
    BY InStage, Counters DEF InTransaction
  <1>9. Justified(p)'
    BY <1>2, <1>7, <1>8 DEF Justified, Staging, Transaction, Creating, Forwarded
  <1> QED
    BY <1>2, <1>3, <1>4, <1>5, <1>6, <1>9, StepKeeps DEF InTransaction

\* The lock is taken only while nobody is in a transaction.
LEMMA AcquireKeeps ==
    ASSUME IInv, NEW p \in Pollers, AcquireLock(p)
    PROVE  IInv'
  <1>1. TypeOK /\ poll[p].pc = "lock" /\ left' \in Left
    BY DEF IInv, TypeOK, AcquireLock, At
  <1>2. CASE ~LockFree
    <2>1. Still /\ Answer(p, "FAILED_BEFORE_MUTATION")
      BY <1>2 DEF AcquireLock, Still, Refuse
    <2>2. "FAILED_BEFORE_MUTATION" \in Result
      BY DEF Result, Outcome
    <2> QED
      BY <1>1, <2>1, <2>2, Answered
  <1>3. CASE LockFree
    <2>1. "check" \in PCs /\ Goto(p, "check")
      BY <1>3 DEF PCs, Transaction, AcquireLock
    <2>2. PICK v \in Poll : /\ poll' = [poll EXCEPT ![p] = v] /\ UNCHANGED <<inbox, answer>>
                            /\ v.pc = "check" /\ v.msg = poll[p].msg
      BY <2>1, GotoPoll
    <2>3. /\ poll' \in [Pollers -> Poll] /\ poll'[p] = v
          /\ \A q \in Pollers \ {p} : poll'[q] = poll[q]
      BY <1>1, <2>2, Turned DEF TypeOK
    <2>4. lock' = TRUE /\ UNCHANGED <<git, remote, units, file, job, moves, raced, left>>
      BY <1>3 DEF AcquireLock
    <2>5. TypeOK'
      BY <1>1, <2>2, <2>3, <2>4 DEF TypeOK
    <2>6. Grows
      BY <2>4 DEF Grows
    <2>7. OnDisk'
      <3>1. job'.registered => Complete(file'[Evidence])
        BY <2>4 DEF IInv, OnDisk
      <3> QED
        BY <2>4, <2>6, <3>1, DiskKept
    <2>8. \A q \in Pollers : ~InTransaction(q)
      BY <1>3 DEF IInv, Locked, LockFree
    <2>9. Locked' /\ OneTransaction'
      BY <2>3, <2>4, <2>8 DEF Locked, OneTransaction, InTransaction
    <2>10. \A q \in Pollers \ {p} : Justified(q)'
      BY <2>3, <2>4, <2>6, OthersJustified
    <2>11. Request(p)' = Request(p)
      BY <2>2, <2>3 DEF Request
    <2>12. /\ Request(p) \in Requests /\ poll[p].msg = Stage(Request(p))
           /\ Complete(file[DryRun(Request(p))])
      BY <1>1, InStage DEF Staging
    <2>13. Justified(p)'
      BY <2>2, <2>3, <2>4, <2>11, <2>12 DEF Justified, Creating
    <2> QED
      BY <2>5, <2>7, <2>9, <2>10, <2>13 DEF IInv
  <1> QED
    BY <1>2, <1>3

\* The types of what a transaction writes.
LEMMA Commands ==
    ASSUME IInv, NEW r \in Requests
    PROVE  /\ [git EXCEPT !.temp[r] = remote, !.objects = @ \cup {remote}] \in Workspace
           /\ [git EXCEPT !.temp[r] = NoCommit] \in Workspace
           /\ [git EXCEPT !.head = Target[r]] \in Workspace
           /\ [git EXCEPT !.head = Target[r]].head = Target[r]
           /\ \A s \in {"PARTIAL", "STAGED"} :
                /\ [units EXCEPT !.successor = s] \in UnitFiles
                /\ [units EXCEPT !.successor = s].successor = s
           /\ left.drifts > 0 => [left EXCEPT !.drifts = @ - 1] \in Left
  <1>1. git \in Workspace /\ remote \in Commits /\ units \in UnitFiles /\ left \in Left
    BY DEF IInv, TypeOK
  <1>2. Target[r] \in Commits
    OBVIOUS
  <1>3. /\ [git EXCEPT !.head = Target[r]] \in Workspace
        /\ [git EXCEPT !.head = Target[r]].head = Target[r]
    BY <1>1, <1>2 DEF Workspace
  <1>4. ASSUME NEW c \in Commits \cup {NoCommit}, NEW o \in SUBSET Commits
        PROVE  /\ [git EXCEPT !.temp[r] = c, !.objects = o] \in Workspace
               /\ [git EXCEPT !.temp[r] = c] \in Workspace
    BY <1>1 DEF Workspace
  <1>5. git.objects \in SUBSET Commits
    BY <1>1 DEF Workspace
  <1>6. \A s \in {"PARTIAL", "STAGED"} :
          /\ [units EXCEPT !.successor = s] \in UnitFiles
          /\ [units EXCEPT !.successor = s].successor = s
    BY <1>1 DEF UnitFiles
  <1>7. left.drifts > 0 => [left EXCEPT !.drifts = @ - 1] \in Left
    BY <1>1 DEF Left
  <1> QED
    BY <1>1, <1>3, <1>4, <1>5, <1>6, <1>7

\* The checks of a transaction.
LEMMA ChecksKeep ==
    ASSUME IInv, NEW p \in Pollers, Check(p) \/ Verify(p) \/ VerifyAdvance(p) \/ ProbeInert(p)
    PROVE  IInv'
  <1>1. TypeOK /\ Justified(p) /\ Still /\ left' \in Left
    BY DEF IInv, TypeOK, Check, Verify, VerifyAdvance, ProbeInert, Still
  <1>2. InTransaction(p)
    BY DEF InTransaction, Transaction, Check, Verify, VerifyAdvance, ProbeInert, At
  <1>3. PICK r : r = Request(p)
    OBVIOUS
  <1>4. /\ git' \in Workspace /\ units' \in UnitFiles /\ moves' \subseteq Moves /\ moves' = moves
        /\ UNCHANGED <<git, units, remote, lock, file, job, raced>>
    BY <1>1 DEF TypeOK, Still
  <1>5. Outcome \subseteq {"STAGED"} \cup Outcome
    OBVIOUS
  <1>6. ASSUME NEW o \in Outcome, Leave(p, o)
        PROVE  IInv'
    <2>1. o # "STAGED"
      BY DEF Outcome
    <2> QED
      BY <1>1, <1>2, <1>5, <1>6, <2>1, LeaveKeeps
  <1>7. /\ "FAILED_BEFORE_MUTATION" \in Outcome /\ "FAILED_AFTER_FETCH" \in Outcome
        /\ "FAILED_AFTER_GIT_ADVANCE" \in Outcome
    BY DEF Outcome
  <1>8. CASE Check(p)
    <2> DEFINE v == [poll[p] EXCEPT !.pc = "fetch", !.before = units.serving]
    <2>1. CASE poll' = [poll EXCEPT ![p] = v] /\ UNCHANGED <<inbox, answer>>
      <3>1. poll[p] \in Poll /\ units.serving \in Nat /\ "fetch" \in PCs /\ "fetch" \in Transaction
        BY <1>1 DEF TypeOK, UnitFiles, PCs, Transaction
      <3>2. v \in Poll /\ v.pc = "fetch" /\ v.msg = poll[p].msg
        BY <3>1 DEF Poll
      <3> HIDE DEF v
      <3> QED
        BY <1>1, <1>2, <1>3, <1>4, <2>1, <3>1, <3>2, WithinKeeps
    <2>2. (poll' = [poll EXCEPT ![p] = v] /\ UNCHANGED <<inbox, answer>>)
          \/ Leave(p, "FAILED_BEFORE_MUTATION")
      BY <1>8 DEF Check
    <2> QED
      BY <1>6, <1>7, <2>1, <2>2
  <1>9. CASE Verify(p)
    <2>1. CASE FetchedIsApproved(Request(p)) /\ Goto(p, "merge")
      <3>1. "merge" \in PCs /\ "merge" \in Transaction
        BY DEF PCs, Transaction
      <3>2. PICK v \in Poll : /\ poll' = [poll EXCEPT ![p] = v] /\ UNCHANGED <<inbox, answer>>
                              /\ v.pc = "merge" /\ v.msg = poll[p].msg
        BY <2>1, <3>1, GotoPoll
      <3>3. git'.head = Expected[r]
        BY <1>3, <1>4, <2>1 DEF FetchedIsApproved, LocalGit
      <3> QED
        BY <1>1, <1>2, <1>3, <1>4, <3>1, <3>2, <3>3, WithinKeeps
    <2> QED
      BY <1>6, <1>7, <1>9, <2>1 DEF Verify
  <1>10. CASE VerifyAdvance(p)
    <2>1. CASE Goto(p, "render")
      <3>1. "render" \in PCs /\ "render" \in Transaction
        BY DEF PCs, Transaction
      <3>2. PICK v \in Poll : /\ poll' = [poll EXCEPT ![p] = v] /\ UNCHANGED <<inbox, answer>>
                              /\ v.pc = "render" /\ v.msg = poll[p].msg
        BY <2>1, <3>1, GotoPoll
      <3>3. Forwarded(r)
        BY <1>1, <1>3, <1>10 DEF Justified, VerifyAdvance, At
      <3>4. Forwarded(r)'
        BY <1>4, <3>3 DEF Forwarded
      <3> QED
        BY <1>1, <1>2, <1>3, <1>4, <3>1, <3>2, <3>4, WithinKeeps
    <2> QED
      BY <1>6, <1>7, <1>10, <2>1 DEF VerifyAdvance
  <1>11. CASE ProbeInert(p)
    <2>1. Forwarded(Request(p)) /\ units.successor # "NONE"
      BY <1>1, <1>11 DEF Justified, ProbeInert, At
    <2>2. CASE Leave(p, "STAGED")
      BY <1>1, <1>2, <2>1, <2>2, LeaveKeeps
    <2> QED
      BY <1>6, <1>7, <1>11, <2>2 DEF ProbeInert
  <1> QED
    BY <1>8, <1>9, <1>10, <1>11

\* The steps of a transaction that change the workspace or the unit files.
LEMMA EffectsKeep ==
    ASSUME IInv, NEW p \in Pollers,
           Fetch(p) \/ FastForward(p) \/ RenderArtifacts(p) \/ RenderedArtifacts(p) \/ Cleanup(p)
    PROVE  IInv'
  <1>1. TypeOK /\ Justified(p) /\ left' \in Left
    BY DEF IInv, TypeOK, Fetch, FastForward, RenderArtifacts, RenderedArtifacts, Cleanup
  <1>2. InTransaction(p)
    BY DEF InTransaction, Transaction, Fetch, FastForward, RenderArtifacts, RenderedArtifacts,
       Cleanup, At
  <1>3. PICK r : r = Request(p)
    OBVIOUS
  <1>4. r \in Requests /\ poll[p] \in Poll
    BY <1>1, <1>2, <1>3, InStage, Counters DEF InTransaction, TypeOK
  <1>5. /\ git \in Workspace /\ units \in UnitFiles /\ moves \subseteq Moves
    BY <1>1 DEF TypeOK
  <1>6. /\ "FAILED_AFTER_FETCH" \in Outcome /\ "FAILED_AFTER_GIT_ADVANCE" \in Outcome
        /\ "FAILED_AFTER_FETCH" # "STAGED" /\ "FAILED_AFTER_GIT_ADVANCE" # "STAGED"
        /\ \A o \in Outcome : o \in {"STAGED"} \cup Outcome
    BY DEF Outcome
  <1>7. CASE Fetch(p)
    <2>1. UNCHANGED <<remote, units, lock, file, job, moves, raced, left>>
      BY <1>7 DEF Fetch
    <2>2. CASE UNCHANGED git /\ Leave(p, "FAILED_AFTER_FETCH")
      <3>1. Still
        BY <2>1, <2>2 DEF Still
      <3> QED
        BY <1>1, <1>2, <1>6, <2>2, <3>1, LeaveKeeps
    <2> DEFINE g == [git EXCEPT !.temp[r] = remote, !.objects = @ \cup {remote}]
               v == [poll[p] EXCEPT !.pc = "verify", !.fetched = TRUE]
    <2>3. (git' = g /\ poll' = [poll EXCEPT ![p] = v] /\ UNCHANGED <<inbox, answer>>)
          \/ (UNCHANGED git /\ Leave(p, "FAILED_AFTER_FETCH"))
      BY <1>3, <1>7 DEF Fetch
    <2>4. g \in Workspace
      BY <1>4, Commands
    <2>5. "verify" \in PCs /\ "verify" \in Transaction
      BY DEF PCs, Transaction
    <2>6. v \in Poll /\ v.pc = "verify" /\ v.msg = poll[p].msg
      BY <1>4, <2>5 DEF Poll
    <2> HIDE DEF g, v
    <2>7. CASE git' = g /\ poll' = [poll EXCEPT ![p] = v] /\ UNCHANGED <<inbox, answer>>
      BY <1>1, <1>2, <1>3, <1>5, <2>1, <2>4, <2>5, <2>6, <2>7, WithinKeeps
    <2> QED
      BY <2>2, <2>3, <2>7
  <1>8. CASE FastForward(p)
    <2>1. UNCHANGED <<remote, units, lock, file, job, raced, left>>
      BY <1>8 DEF FastForward
    <2>2. ASSUME NEW o \in Outcome, UNCHANGED <<git, moves>>, Leave(p, o)
          PROVE  IInv'
      <3>1. Still /\ o # "STAGED"
        BY <2>1, <2>2 DEF Still, Outcome
      <3> QED
        BY <1>1, <1>2, <1>6, <2>2, <3>1, LeaveKeeps
    <2> DEFINE g == [git EXCEPT !.head = Target[r]]
               m == [from |-> git.head, to |-> Target[r], by |-> r]
               v == [poll[p] EXCEPT !.pc = "advanced", !.moved = git.head # Target[r]]
    <2>3. \/ /\ git' = g /\ moves' = moves \cup {m} /\ poll' = [poll EXCEPT ![p] = v]
             /\ UNCHANGED <<inbox, answer>>
          \/ \E o \in Outcome : UNCHANGED <<git, moves>> /\ Leave(p, o)
      BY <1>3, <1>6, <1>8 DEF FastForward
    <2>4. g \in Workspace /\ m \in Moves
      BY <1>4, <1>5, Commands DEF Workspace, Moves
    <2>5. "advanced" \in PCs /\ "advanced" \in Transaction
      BY DEF PCs, Transaction
    <2>6. v \in Poll /\ v.pc = "advanced" /\ v.msg = poll[p].msg
      BY <1>4, <2>5 DEF Poll
    <2>7. git.head = Expected[r] \/ r \in raced
      BY <1>1, <1>3, <1>8 DEF Justified, FastForward, At
    <2>8. CASE /\ git' = g /\ moves' = moves \cup {m} /\ poll' = [poll EXCEPT ![p] = v]
               /\ UNCHANGED <<inbox, answer>>
      <3>1. Forwarded(r)'
        BY <2>1, <2>7, <2>8 DEF Forwarded
      <3> HIDE DEF g, m, v
      <3>2. moves \subseteq moves' /\ moves' \subseteq Moves
        BY <1>5, <2>4, <2>8
      <3> QED
        BY <1>1, <1>2, <1>3, <1>5, <2>1, <2>4, <2>5, <2>6, <2>8, <3>1, <3>2, WithinKeeps
    <2> QED
      BY <2>2, <2>3, <2>8
  <1>9. CASE RenderArtifacts(p)
    <2>1. UNCHANGED <<git, remote, lock, file, job, moves, raced, left>>
      BY <1>9 DEF RenderArtifacts
    <2>2. "rendering" \in PCs /\ "rendering" \in Transaction
      BY DEF PCs, Transaction
    <2>3. PICK v \in Poll : /\ poll' = [poll EXCEPT ![p] = v] /\ UNCHANGED <<inbox, answer>>
                            /\ v.pc = "rendering" /\ v.msg = poll[p].msg
      BY <1>9, <2>2, GotoPoll DEF RenderArtifacts
    <2>4. units' \in UnitFiles /\ units'.successor = "PARTIAL"
      BY <1>4, <1>9, Commands DEF RenderArtifacts
    <2>5. Forwarded(r)
      BY <1>1, <1>3, <1>9 DEF Justified, RenderArtifacts, At
    <2>6. Forwarded(r)'
      BY <2>1, <2>5 DEF Forwarded
    <2> QED
      BY <1>1, <1>2, <1>3, <1>5, <2>1, <2>2, <2>3, <2>4, <2>6, WithinKeeps
  <1>10. CASE RenderedArtifacts(p)
    <2>1. UNCHANGED <<git, remote, lock, file, job, moves, raced, left>>
      BY <1>10 DEF RenderedArtifacts
    <2>2. "probe" \in PCs /\ "probe" \in Transaction
      BY DEF PCs, Transaction
    <2>3. PICK v \in Poll : /\ poll' = [poll EXCEPT ![p] = v] /\ UNCHANGED <<inbox, answer>>
                            /\ v.pc = "probe" /\ v.msg = poll[p].msg
      BY <1>10, <2>2, GotoPoll DEF RenderedArtifacts
    <2>4. units' \in UnitFiles /\ units'.successor = "STAGED"
      BY <1>4, <1>10, Commands DEF RenderedArtifacts
    <2>5. Forwarded(r)
      BY <1>1, <1>3, <1>10 DEF Justified, RenderedArtifacts, At
    <2>6. Forwarded(r)'
      BY <2>1, <2>5 DEF Forwarded
    <2> QED
      BY <1>1, <1>2, <1>3, <1>5, <2>1, <2>2, <2>3, <2>4, <2>6, WithinKeeps
  <1>11. CASE Cleanup(p)
    <2>1. UNCHANGED <<remote, units, lock, file, job, moves, raced, left>>
      BY <1>11 DEF Cleanup
    <2>2. "unlock" \in PCs /\ "unlock" \in Transaction
      BY DEF PCs, Transaction
    <2>3. PICK v \in Poll : /\ poll' = [poll EXCEPT ![p] = v] /\ UNCHANGED <<inbox, answer>>
                            /\ v.pc = "unlock" /\ v.msg = poll[p].msg
                            /\ v.outcome = poll[p].outcome
      BY <1>11, <2>2, GotoPoll DEF Cleanup
    <2>4. git' \in Workspace
      BY <1>3, <1>4, <1>5, <1>11, Commands DEF Cleanup
    <2>5. /\ v.outcome \in {"STAGED"} \cup Outcome
          /\ v.outcome = "STAGED" => Forwarded(r) /\ units.successor # "NONE"
      BY <1>1, <1>3, <1>11, <2>3 DEF Justified, Cleanup, At
    <2>6. Forwarded(r) => Forwarded(r)'
      BY <2>1 DEF Forwarded
    <2> QED
      BY <1>1, <1>2, <1>3, <1>5, <2>1, <2>2, <2>3, <2>4, <2>5, <2>6, WithinKeeps
  <1> QED
    BY <1>7, <1>8, <1>9, <1>10, <1>11

\* The lock is released by the only transaction there is.
LEMMA ReleaseKeeps ==
    ASSUME IInv, NEW p \in Pollers, ReleaseLock(p)
    PROVE  IInv'
  <1>1. TypeOK /\ Justified(p) /\ poll[p].pc = "unlock" /\ poll[p] \in Poll
    BY DEF IInv, TypeOK, ReleaseLock, At
  <1>2. InTransaction(p)
    BY <1>1 DEF InTransaction, Transaction
  <1>3. lock' = FALSE /\ UNCHANGED <<git, remote, units, file, job, moves, raced, left>>
    BY DEF ReleaseLock
  <1>4. PICK r : r = Request(p)
    OBVIOUS
  <1>5. r \in Requests /\ poll[p].msg = Stage(r) /\ Complete(file[DryRun(r)])
    BY <1>2, <1>4, InStage, Counters DEF InTransaction
  <1>6. /\ poll[p].outcome \in {"STAGED"} \cup Outcome
        /\ poll[p].outcome = "STAGED" => Forwarded(r) /\ units.successor # "NONE"
    BY <1>1, <1>4 DEF Justified
  <1>7. Grows
    BY <1>3 DEF Grows
  <1>8. OnDisk'
    <2>1. job'.registered => Complete(file'[Evidence])
      BY <1>3 DEF IInv, OnDisk
    <2> QED
      BY <1>3, <1>7, <2>1, DiskKept
  <1>9. ASSUME NEW v \in Poll, poll' = [poll EXCEPT ![p] = v], v.pc \notin Transaction,
               inbox' \subseteq Message, answer' \in Answers, Justified(p)'
        PROVE  IInv'
    <2>1. /\ poll' \in [Pollers -> Poll] /\ poll'[p] = v
          /\ \A q \in Pollers \ {p} : poll'[q] = poll[q]
      BY <1>1, <1>9, Turned DEF TypeOK
    <2>2. TypeOK'
      BY <1>1, <1>3, <1>9, <2>1 DEF TypeOK
    <2>3. \A q \in Pollers \ {p} : ~InTransaction(q)
      BY <1>2 DEF IInv, OneTransaction
    <2>4. \A q \in Pollers : poll'[q].pc \notin Transaction
      BY <1>9, <2>1, <2>3 DEF InTransaction
    <2>5. Locked' /\ OneTransaction'
      BY <2>4 DEF Locked, OneTransaction, InTransaction
    <2>6. \A q \in Pollers \ {p} : Justified(q)'
      BY <1>3, <1>7, <2>1, OthersJustified
    <2> QED
      BY <1>8, <1>9, <2>2, <2>5, <2>6 DEF IInv
  <1>10. CASE poll[p].outcome = "STAGED"
    <2> DEFINE c == [status |-> "STAGED", serving |-> poll[p].before]
               v == [poll[p] EXCEPT !.pc = "create", !.file = poll[p].msg, !.content = c]
    <2>1. poll' = [poll EXCEPT ![p] = v] /\ UNCHANGED <<inbox, answer>>
      BY <1>10 DEF ReleaseLock, Seal
    <2>2. poll[p].before \in Nat
      BY <1>1 DEF Poll
    <2>3. c \in Content /\ Complete(c) /\ c.status = "STAGED"
      BY <2>2, Contents
    <2> HIDE DEF c
    <2>4. "create" \in PCs /\ Stage(r) \in File /\ "create" \notin Transaction
      BY <1>5, Names DEF PCs, Transaction
    <2>5. v \in Poll /\ v.pc = "create" /\ v.file = Stage(r) /\ v.content = c
      BY <1>1, <1>5, <2>3, <2>4 DEF Poll
    <2> HIDE DEF v
    <2>6. poll'[p] = v
      BY <1>1, <2>1, <2>5, Turned DEF TypeOK
    <2>7. Grounded(Stage(r), c)
      BY <1>5, <1>6, <1>10, <2>3, Names DEF Grounded
    <2>8. PICK d : d = c
      OBVIOUS
    <2>9. Grounded(poll[p].file, poll[p].content)'
      <3>1. Grounded(Stage(r), d)'
        BY <1>7, <2>4, <2>7, <2>8, GroundedKept
      <3>2. poll'[p].file = Stage(r) /\ poll'[p].content = d
        BY <2>5, <2>6, <2>8
      <3> QED
        BY <3>1, <3>2 DEF Grounded
    <2>10. Justified(p)'
      BY <2>5, <2>6, <2>9 DEF Justified, Staging, Transaction
    <2> QED
      BY <1>1, <1>9, <2>1, <2>4, <2>5, <2>10 DEF TypeOK
  <1>11. CASE poll[p].outcome # "STAGED"
    <2>1. poll[p].outcome \in Result /\ Answer(p, poll[p].outcome)
      BY <1>6, <1>11 DEF ReleaseLock, Result
    <2>2. /\ poll' = [poll EXCEPT ![p] = Idle] /\ Justified(p)'
          /\ inbox' \subseteq Message /\ answer' \in Answers
      BY <2>1, AnswerKeeps
    <2>3. Idle \in Poll /\ Idle.pc \notin Transaction
      BY IdlePoll, Counters
    <2> QED
      BY <1>9, <2>2, <2>3
  <1> QED
    BY <1>10, <1>11

\* The failures of commands, and a poll that dies.
LEMMA FailuresKeep ==
    ASSUME IInv, NEW p \in Pollers, Failure(p)
    PROVE  IInv'
  <1>1. TypeOK /\ Justified(p) /\ poll[p] \in Poll
    BY DEF IInv, TypeOK
  <1>2. UNCHANGED <<remote, units, lock, file, job, moves, raced>>
    BY DEF Failure, GitFails, FetchFails, RenderFails, CleanupFails, Crash
  <1>3. left' \in Left
    <2>1. left \in Left
      BY <1>1 DEF TypeOK
    <2>2. \/ left.drifts > 0 /\ left' = [left EXCEPT !.drifts = @ - 1]
          \/ left.crashes > 0 /\ left' = [left EXCEPT !.crashes = @ - 1]
      BY DEF Failure, GitFails, FetchFails, RenderFails, CleanupFails, Crash
    <2> QED
      BY <2>1, <2>2 DEF Left
  <1>4. /\ "FAILED_BEFORE_MUTATION" \in Outcome /\ "FAILED_AFTER_FETCH" \in Outcome
        /\ "FAILED_AFTER_GIT_ADVANCE" \in Outcome
        /\ \A o \in Outcome : o # "STAGED" /\ o \in {"STAGED"} \cup Outcome /\ o \in Result
    BY DEF Outcome, Result
  <1>5. CASE GitFails(p) \/ RenderFails(p)
    <2>1. git' = git
      BY <1>5 DEF GitFails, RenderFails
    <2>2. Still
      BY <1>2, <2>1 DEF Still
    <2>3. InTransaction(p)
      BY <1>5 DEF GitFails, RenderFails, At, InTransaction, Transaction, Checking
    <2>4. \/ Leave(p, "FAILED_BEFORE_MUTATION") \/ Leave(p, "FAILED_AFTER_FETCH")
          \/ Leave(p, "FAILED_AFTER_GIT_ADVANCE")
      BY <1>5 DEF GitFails, RenderFails
    <2>5. PICK o \in Outcome : Leave(p, o)
      BY <1>4, <2>4
    <2> QED
      BY <1>3, <1>4, <2>2, <2>3, <2>5, LeaveKeeps
  <1>6. CASE FetchFails(p)
    <2>1. InTransaction(p) /\ Leave(p, "FAILED_AFTER_FETCH")
      BY <1>6 DEF FetchFails, At, InTransaction, Transaction
    <2>2. PICK r : r = Request(p)
      OBVIOUS
    <2>3. r \in Requests
      BY <2>1, <2>2, InStage, Counters DEF InTransaction
    <2>4. git' = git \/ git' = [git EXCEPT !.temp[r] = remote, !.objects = @ \cup {remote}]
      BY <1>6, <2>2 DEF FetchFails
    <2>5. git' \in Workspace
      BY <1>1, <2>3, <2>4, Commands DEF TypeOK
    <2>6. PICK v \in Poll : /\ poll' = [poll EXCEPT ![p] = v] /\ UNCHANGED <<inbox, answer>>
                            /\ v.pc = "cleanup" /\ v.outcome = "FAILED_AFTER_FETCH"
                            /\ v.msg = poll[p].msg
      BY <1>4, <2>1, LeavePoll
    <2>7. v.pc \in Transaction /\ v.outcome # "STAGED"
      BY <2>6 DEF Transaction
    <2>8. /\ units' \in UnitFiles /\ moves' \subseteq Moves /\ moves \subseteq moves'
          /\ units' = units
      BY <1>1, <1>2 DEF TypeOK
    <2> QED
      BY <1>2, <1>3, <1>4, <2>1, <2>2, <2>5, <2>6, <2>7, <2>8, WithinKeeps
  <1>7. CASE CleanupFails(p)
    <2> DEFINE v == [poll[p] EXCEPT !.pc = "unlock", !.outcome = "FAILED_AFTER_FETCH"]
    <2>1. poll' = [poll EXCEPT ![p] = v] /\ UNCHANGED <<git, inbox, answer>>
      BY <1>7 DEF CleanupFails
    <2>2. "unlock" \in PCs /\ "unlock" \in Transaction /\ "FAILED_AFTER_FETCH" \in Result
      BY <1>4 DEF PCs, Transaction
    <2>3. /\ v \in Poll /\ v.pc = "unlock" /\ v.outcome = "FAILED_AFTER_FETCH"
          /\ v.msg = poll[p].msg
      BY <1>1, <2>2 DEF Poll
    <2> HIDE DEF v
    <2>4. InTransaction(p)
      BY <1>7 DEF CleanupFails, At, InTransaction, Transaction
    <2>5. PICK r : r = Request(p)
      OBVIOUS
    <2>6. /\ git' \in Workspace /\ units' \in UnitFiles /\ moves' \subseteq Moves
          /\ moves \subseteq moves' /\ units' = units
      BY <1>1, <1>2, <2>1 DEF TypeOK
    <2> QED
      BY <1>2, <1>3, <1>4, <2>1, <2>2, <2>3, <2>4, <2>5, <2>6, WithinKeeps
  <1>8. CASE Crash(p)
    <2>1. poll' = [poll EXCEPT ![p] = Idle] /\ UNCHANGED <<git, inbox, answer>>
      BY <1>8 DEF Crash
    <2>2. Idle \in Poll /\ Idle.pc \notin Transaction /\ Idle.pc = "idle"
      BY IdlePoll, Counters
    <2>3. poll'[p] = Idle /\ inbox' \subseteq Message /\ answer' \in Answers /\ Still
      BY <1>1, <1>2, <2>1, <2>2, Turned DEF TypeOK, Still
    <2>4. Justified(p)'
      BY <2>2, <2>3, Counters DEF Justified
    <2> QED
      BY <1>3, <2>1, <2>2, <2>3, <2>4, QuietStep
  <1> QED
    BY <1>5, <1>6, <1>7, <1>8 DEF Failure

\* The admission to P3 and the activation of the canary.
LEMMA PromotionKeeps ==
    ASSUME IInv, NEW p \in Pollers, PromotionStep(p)
    PROVE  IInv'
  <1>1. TypeOK /\ Justified(p) /\ poll[p] \in Poll /\ left' \in Left /\ job \in CanaryRun
    BY DEF IInv, TypeOK, PromotionStep, AdmitP3, ActivateP3Canary, RegisterCanary,
       RecordActivation
  <1>2. "FAILED_BEFORE_MUTATION" \in Result /\ "P3_CANARY_ACTIVATED" \in Result
    BY DEF Result, Outcome
  <1>3. /\ Admission \in Message /\ Canary \in Message /\ Sealed \in Content /\ Complete(Sealed)
        /\ Waiting \in File /\ Evidence \in File /\ Terminal \in File
    BY Names, Contents
  <1>4. Collected(p) => Staged # {}
    <2>1. Cardinality({}) = 0
      BY FS_EmptySet
    <2> SUFFICES ASSUME Collected(p), Staged = {} PROVE FALSE
      OBVIOUS
    <2>2. Cardinality(Staged) = 1
      BY DEF Collected, Matching
    <2> QED
      BY <2>1, <2>2
  <1>5. CASE AdmitP3(p)
    <2>1. Still
      BY <1>5 DEF AdmitP3, Still
    <2>2. CASE Collected(p) /\ Seal(p, Waiting, Sealed)
      <3>1. Grounded(Waiting, Sealed)
        BY <1>3, <1>4, <2>2, Names DEF Grounded
      <3> QED
        BY <1>1, <1>3, <2>1, <2>2, <3>1, SealKeeps
    <2>3. CASE Refuse(p)
      BY <1>1, <1>2, <2>1, <2>3, Answered DEF Refuse
    <2> QED
      BY <1>5, <2>2, <2>3 DEF AdmitP3
  <1>6. CASE ActivateP3Canary(p)
    <2>1. Still
      BY <1>6 DEF ActivateP3Canary, Still
    <2>2. CASE job.receipt # "NONE" /\ Seal(p, Terminal, Sealed)
      <3>1. Grounded(Terminal, Sealed)
        BY <1>3, <2>2, Names DEF Grounded
      <3> QED
        BY <1>1, <1>3, <2>1, <2>2, <3>1, SealKeeps
    <2>3. CASE Complete(file[Waiting]) /\ Seal(p, Evidence, Sealed)
      <3>1. Grounded(Evidence, Sealed)
        BY <1>3, <2>3, Names DEF Grounded
      <3> QED
        BY <1>1, <1>3, <2>1, <2>3, <3>1, SealKeeps
    <2>4. CASE Refuse(p)
      BY <1>1, <1>2, <2>1, <2>4, Answered DEF Refuse
    <2> QED
      BY <1>6, <2>2, <2>3, <2>4 DEF ActivateP3Canary
  <1>7. CASE RegisterCanary(p)
    <2>1. UNCHANGED <<git, remote, units, lock, file, moves, raced, left>> /\ poll[p].pc = "register"
      BY <1>7 DEF RegisterCanary, At
    <2>2. CASE UNCHANGED job /\ \E o \in Result : Answer(p, o)
      <3>1. Still
        BY <2>1, <2>2 DEF Still
      <3> QED
        BY <1>1, <2>2, <3>1, Answered
    <2> DEFINE o == IF job.registered THEN "FULL_PLAN_ALREADY_REGISTERED"
                    ELSE "FULL_PLAN_REGISTERED"
               v == [poll[p] EXCEPT !.pc = "receipt", !.outcome = o]
    <2>3. CASE /\ job.receipt = "NONE" /\ job' = [job EXCEPT !.registered = TRUE]
               /\ poll' = [poll EXCEPT ![p] = v] /\ UNCHANGED <<inbox, answer>>
      <3>1. o \in Registration
        BY DEF Registration
      <3> HIDE DEF o
      <3>2. "receipt" \in PCs /\ "receipt" \notin Transaction
        BY DEF PCs, Transaction
      <3>3. v \in Poll /\ v.pc = "receipt" /\ v.outcome \in Registration
        BY <1>1, <3>1, <3>2 DEF Poll
      <3> HIDE DEF v
      <3>4. /\ poll' \in [Pollers -> Poll] /\ poll'[p] = v
            /\ \A q \in Pollers \ {p} : poll'[q] = poll[q]
        BY <1>1, <2>3, <3>3, Turned DEF TypeOK
      <3>5. job' \in CanaryRun /\ job'.receipt = job.receipt
        BY <1>1, <2>3 DEF CanaryRun
      <3>6. TypeOK'
        BY <1>1, <2>1, <2>3, <3>4, <3>5 DEF TypeOK
      <3>7. Grows
        BY <2>1, <3>5 DEF Grows
      <3>8. Complete(file'[Evidence])
        BY <1>1, <2>1 DEF Justified
      <3>9. OnDisk'
        BY <2>1, <3>7, <3>8, DiskKept
      <3>10. Justified(p)'
        BY <3>3, <3>4, Counters DEF Justified
      <3> QED
        BY <2>1, <3>2, <3>3, <3>4, <3>6, <3>7, <3>9, <3>10, StepKeeps
    <2>4. \/ UNCHANGED job /\ \E s \in Result : Answer(p, s)
          \/ /\ job.receipt = "NONE" /\ job' = [job EXCEPT !.registered = TRUE]
             /\ poll' = [poll EXCEPT ![p] = v] /\ UNCHANGED <<inbox, answer>>
      BY <1>2, <1>7 DEF RegisterCanary
    <2> QED
      BY <2>2, <2>3, <2>4
  <1>8. CASE RecordActivation(p)
    <2>1. UNCHANGED <<git, remote, units, lock, file, moves, raced, left>> /\ poll[p].pc = "receipt"
      BY <1>8 DEF RecordActivation, At
    <2>2. poll[p].outcome \in Registration /\ "NONE" \notin Registration
      BY <1>1, <2>1 DEF Justified, Registration
    <2>3. job' \in CanaryRun /\ job'.receipt # "NONE" /\ job'.registered = job.registered
      BY <1>1, <1>8, <2>2 DEF RecordActivation, CanaryRun
    <2>4. PICK o \in Result : Report(p, o)
      BY <1>2, <1>8 DEF RecordActivation
    <2>5. PICK v \in Poll : /\ poll' = [poll EXCEPT ![p] = v] /\ UNCHANGED <<inbox, answer>>
                            /\ v.pc = "report" /\ v.outcome = o
      BY <2>4, ReportPoll
    <2>6. /\ poll' \in [Pollers -> Poll] /\ poll'[p] = v
          /\ \A q \in Pollers \ {p} : poll'[q] = poll[q]
      BY <1>1, <2>5, Turned DEF TypeOK
    <2>7. TypeOK'
      BY <1>1, <2>1, <2>3, <2>5, <2>6 DEF TypeOK
    <2>8. Grows
      BY <2>1, <2>3 DEF Grows
    <2>9. OnDisk'
      <3>1. job'.registered => Complete(file'[Evidence])
        BY <2>1, <2>3 DEF IInv, OnDisk
      <3> QED
        BY <2>1, <2>8, <3>1, DiskKept
    <2>10. Justified(p)' /\ v.pc \notin Transaction
      BY <2>5, <2>6, Counters DEF Justified
    <2> QED
      BY <2>1, <2>6, <2>7, <2>8, <2>9, <2>10, StepKeeps
  <1> QED
    BY <1>5, <1>6, <1>7, <1>8 DEF PromotionStep

\* What follows a file: a report, or the registration of the canary run.
LEMMA ProceedPoll ==
    ASSUME IInv, NEW p \in Pollers, poll[p].pc \in Creating, Proceed(p)
    PROVE  \E v \in Poll : /\ poll' = [poll EXCEPT ![p] = v] /\ UNCHANGED <<inbox, answer>>
                           /\ \/ v.pc = "register" /\ poll[p].file = Evidence
                              \/ v.pc = "report" /\ v.outcome \in Result
  <1>1. poll[p] \in Poll /\ Grounded(poll[p].file, poll[p].content)
    BY DEF IInv, TypeOK, Justified
  <1>2. poll[p].file \in File
    BY <1>1 DEF Poll
  <1>3. CASE poll[p].file = Evidence
    <2>1. Goto(p, "register") /\ "register" \in PCs
      BY <1>3, Names DEF Proceed, PCs
    <2> QED
      BY <1>3, <2>1, GotoPoll
  <1>4. ASSUME NEW o \in Result, Report(p, o)
        PROVE  \E v \in Poll : /\ poll' = [poll EXCEPT ![p] = v] /\ UNCHANGED <<inbox, answer>>
                               /\ v.pc = "report" /\ v.outcome \in Result
    BY <1>4, ReportPoll
  <1>5. CASE poll[p].file = Waiting
    <2>1. Report(p, "P3_CANARY_ADMISSION_READY") /\ "P3_CANARY_ADMISSION_READY" \in Result
      BY <1>5, Names DEF Proceed, Result
    <2> QED
      BY <1>4, <2>1
  <1>6. CASE poll[p].file = Terminal
    <2>1. Report(p, "P3_CANARY_ACTIVATED") /\ "P3_CANARY_ACTIVATED" \in Result
      BY <1>6, Names DEF Proceed, Result
    <2> QED
      BY <1>4, <2>1
  <1>7. CASE poll[p].file \in Phase
    <2>1. poll[p].content.status \in Proof \cup {"STAGED"}
      BY <1>1, <1>7 DEF Grounded, Phase
    <2>2. Report(p, poll[p].content.status) /\ poll[p].content.status \in Result
      BY <1>7, <2>1, Names DEF Proceed, Result
    <2> QED
      BY <1>4, <2>2
  <1>8. poll[p].file \in Phase \/ poll[p].file \in {Waiting, Evidence, Terminal}
    BY <1>2 DEF File
  <1> QED
    BY <1>3, <1>5, <1>6, <1>7, <1>8

\* A file that was there already, or whose name was taken.
LEMMA FoundKeeps ==
    ASSUME IInv, Still, left' \in Left, NEW p \in Pollers, poll[p].pc \in Creating,
           \/ Refuse(p)
           \/ Proceed(p) /\ (poll[p].file = Evidence => Complete(file[Evidence]))
    PROVE  IInv'
  <1>1. CASE Refuse(p)
    <2>1. Answer(p, "FAILED_BEFORE_MUTATION") /\ "FAILED_BEFORE_MUTATION" \in Result
      BY <1>1 DEF Refuse, Result, Outcome
    <2> QED
      BY <2>1, Answered
  <1>2. CASE Proceed(p) /\ (poll[p].file = Evidence => Complete(file[Evidence]))
    <2>1. PICK v \in Poll : /\ poll' = [poll EXCEPT ![p] = v] /\ UNCHANGED <<inbox, answer>>
                            /\ \/ v.pc = "register" /\ poll[p].file = Evidence
                               \/ v.pc = "report" /\ v.outcome \in Result
      BY <1>2, ProceedPoll
    <2>2. poll'[p] = v /\ inbox' \subseteq Message /\ answer' \in Answers
      BY <2>1, Turned DEF IInv, TypeOK
    <2>3. v.pc = "register" => Complete(file'[Evidence])
      BY <1>2, <2>1 DEF Still
    <2>4. Justified(p)' /\ v.pc \notin Transaction
      BY <2>1, <2>2, <2>3, Counters DEF Justified
    <2> QED
      BY <2>1, <2>2, <2>4, QuietStep
  <1> QED
    BY <1>1, <1>2

\* Sealing a file: it is looked up, created, and written.
LEMMA FilesKeep ==
    ASSUME IInv, NEW p \in Pollers, LookUpFile(p) \/ CreateFile(p) \/ WriteFile(p)
    PROVE  IInv'
  <1>1. /\ TypeOK /\ Justified(p) /\ poll[p] \in Poll /\ left' \in Left
        /\ file \in [File -> Content] /\ poll[p].pc \in Creating
    BY DEF IInv, TypeOK, LookUpFile, CreateFile, WriteFile, At, Creating
  <1>2. Grounded(poll[p].file, poll[p].content)
    BY <1>1 DEF Justified
  <1>3. PICK f, c : f = poll[p].file /\ c = poll[p].content
    OBVIOUS
  <1>4. f \in File /\ c \in Content /\ Grounded(f, c) /\ Complete(c)
    BY <1>1, <1>2, <1>3 DEF Poll, Grounded
  <1>5. UNCHANGED <<git, remote, units, lock, job, moves, raced, left>>
    BY DEF LookUpFile, CreateFile, WriteFile
  <1>6. file' = file => Still
    BY <1>5 DEF Still
  <1>7. CASE /\ file' = file
             /\ \/ Refuse(p)
                \/ Proceed(p) /\ (f = Evidence => Complete(file[Evidence]))
    BY <1>1, <1>3, <1>6, <1>7, FoundKeeps
  <1>8. CASE LookUpFile(p)
    <2>1. CASE Goto(p, "open")
      <3>1. "open" \in PCs /\ "open" \in Creating \ {"unlinked"} /\ "open" \notin Transaction
        BY DEF PCs, Creating, Transaction
      <3>2. PICK v \in Poll : /\ poll' = [poll EXCEPT ![p] = v] /\ UNCHANGED <<inbox, answer>>
                              /\ v.pc = "open" /\ v.file = f /\ v.content = c
        BY <1>3, <2>1, <3>1, GotoPoll
      <3>3. Still /\ poll'[p] = v /\ inbox' \subseteq Message /\ answer' \in Answers
        BY <1>1, <1>6, <1>8, <3>2, Turned DEF TypeOK, LookUpFile
      <3>4. Justified(p)'
        BY <1>4, <3>1, <3>2, <3>3, SealJustified
      <3> QED
        BY <1>1, <3>1, <3>2, <3>3, <3>4, QuietStep
    <2>2. \/ Goto(p, "open")
          \/ file[f] = c /\ Proceed(p)
          \/ Refuse(p)
      BY <1>3, <1>8 DEF LookUpFile
    <2>3. file' = file
      BY <1>8 DEF LookUpFile
    <2> QED
      BY <1>4, <1>7, <2>1, <2>2, <2>3
  <1>9. ASSUME Grows, file' \in [File -> Content], NEW v \in Poll, v.pc \notin Transaction,
               poll' = [poll EXCEPT ![p] = v], UNCHANGED <<inbox, answer>>,
               \A g \in File : \/ file'[g] = file[g] \/ file'[g] \in {Absent, Torn}
                               \/ Grounded(g, file'[g]),
               Complete(file[Evidence]) => Complete(file'[Evidence]),
               poll'[p] = v => Justified(p)'
        PROVE  IInv'
    <2>1. /\ poll' \in [Pollers -> Poll] /\ poll'[p] = v
          /\ \A q \in Pollers \ {p} : poll'[q] = poll[q]
      BY <1>1, <1>9, Turned DEF TypeOK
    <2>2. TypeOK'
      BY <1>1, <1>5, <1>9, <2>1 DEF TypeOK
    <2>3. job'.registered => Complete(file'[Evidence])
      BY <1>5, <1>9 DEF IInv, OnDisk
    <2>4. OnDisk'
      BY <1>9, <2>3, DiskKept
    <2> QED
      BY <1>5, <1>9, <2>1, <2>2, <2>4, StepKeeps
  <1>10. CASE CreateFile(p)
    <2>1. CASE file[f] = Absent /\ file' = [file EXCEPT ![f] = Torn] /\ Goto(p, "write")
      <3>1. "write" \in PCs /\ "write" \in Creating /\ "write" \notin Transaction
        BY DEF PCs, Creating, Transaction
      <3>2. PICK v \in Poll : /\ poll' = [poll EXCEPT ![p] = v] /\ UNCHANGED <<inbox, answer>>
                              /\ v.pc = "write" /\ v.file = f /\ v.content = c
        BY <1>3, <2>1, <3>1, GotoPoll
      <3>3. /\ file' \in [File -> Content] /\ file'[f] = Torn
            /\ \A g \in File \ {f} : file'[g] = file[g]
        BY <1>1, <1>4, <2>1, Contents
      <3>4. Absent.status # "STAGED"
        BY DEF Absent
      <3>5. Grows
        BY <1>5, <2>1, <3>3, <3>4, Contents, Names DEF Grows
      <3>6. Complete(file[Evidence]) => Complete(file'[Evidence])
        BY <3>5, Names DEF Grows
      <3>7. Grounded(f, c)'
        BY <1>4, <3>5, GroundedKept
      <3>8. ASSUME poll'[p] = v PROVE Justified(p)'
        <4>1. Grounded(poll[p].file, poll[p].content)'
          BY <3>2, <3>7, <3>8 DEF Grounded
        <4> QED
          BY <3>2, <3>8, <4>1 DEF Justified, Staging, Transaction
      <3> QED
        BY <1>9, <3>1, <3>2, <3>3, <3>5, <3>6, <3>8
    <2>2. CASE file' = file /\ (Refuse(p) \/ (f \in Phase /\ Proceed(p)))
      <3>1. f \in Phase => f # Evidence
        BY Names
      <3> QED
        BY <1>7, <2>2, <3>1
    <2>3. \/ file[f] = Absent /\ file' = [file EXCEPT ![f] = Torn] /\ Goto(p, "write")
          \/ file' = file /\ (Refuse(p) \/ (f \in Phase /\ Proceed(p)))
      BY <1>3, <1>10 DEF CreateFile
    <2> QED
      BY <2>1, <2>2, <2>3
  <1>11. CASE WriteFile(p)
    <2>1. CASE poll[p].pc = "unlinked"
      <3>1. f = Terminal /\ f # Evidence
        BY <1>1, <1>3, <2>1, Names DEF Justified
      <3>2. file' = file /\ Proceed(p)
        BY <1>11, <2>1 DEF WriteFile, At
      <3> QED
        BY <1>7, <3>1, <3>2
    <2>2. CASE poll[p].pc = "write"
      <3>1. file' = [file EXCEPT ![f] = c] /\ Proceed(p)
        BY <1>3, <1>11, <2>2 DEF WriteFile, At
      <3>2. /\ file' \in [File -> Content] /\ file'[f] = c
            /\ \A g \in File \ {f} : file'[g] = file[g]
        BY <1>1, <1>4, <3>1
      <3>3. \A r \in Requests : f = Stage(r) => c.status = "STAGED"
        BY <1>4 DEF Grounded
      <3>4. Grows
        BY <1>4, <1>5, <3>2, <3>3, Names DEF Grows
      <3>5. Complete(file[Evidence]) => Complete(file'[Evidence])
        BY <3>4, Names DEF Grows
      <3>6. PICK v \in Poll : /\ poll' = [poll EXCEPT ![p] = v] /\ UNCHANGED <<inbox, answer>>
                              /\ \/ v.pc = "register" /\ f = Evidence
                                 \/ v.pc = "report" /\ v.outcome \in Result
        BY <1>1, <1>3, <3>1, ProceedPoll
      <3>7. v.pc = "register" => Complete(file'[Evidence])
        BY <1>4, <3>2, <3>6
      <3>8. v.pc \notin Transaction /\ (poll'[p] = v => Justified(p)')
        BY <3>6, <3>7, Counters DEF Justified
      <3>9. \A g \in File : file'[g] = file[g] \/ Grounded(g, file'[g])
        BY <1>4, <3>2
      <3> QED
        BY <1>9, <3>2, <3>4, <3>5, <3>6, <3>8, <3>9
    <2> QED
      BY <1>11, <2>1, <2>2 DEF WriteFile
  <1> QED
    BY <1>8, <1>10, <1>11

\* The terminal handoff goes away; a poll that was writing it writes no file.
LEMMA UnlinkKeeps ==
    ASSUME IInv, NEW p \in Pollers, UnlinkTerminal(p)
    PROVE  IInv'
  <1>1. TypeOK /\ poll \in [Pollers -> Poll] /\ file \in [File -> Content]
    BY DEF IInv, TypeOK
  <1>2. UNCHANGED <<git, remote, units, lock, job, moves, raced, left>>
    BY DEF UnlinkTerminal
  <1>3. /\ file' \in [File -> Content] /\ file'[Terminal] = Absent
        /\ \A g \in File \ {Terminal} : file'[g] = file[g]
    BY <1>1, Contents, Names DEF UnlinkTerminal
  <1>4. Grows
    <2>1. \A r \in Requests : Stage(r) \in File \ {Terminal}
      BY Names
    <2> QED
      BY <1>2, <1>3, <2>1 DEF Grows
  <1>5. ASSUME NEW q \in Pollers
        PROVE  \/ poll'[q] = Idle
               \/ poll'[q] = poll[q]
               \/ /\ poll[q].pc = "write" /\ poll[q].file = Terminal
                  /\ poll'[q] = [poll[q] EXCEPT !.pc = "unlinked"]
    BY DEF UnlinkTerminal, At
  <1>6. ASSUME NEW q \in Pollers
        PROVE  /\ poll'[q] \in Poll /\ Justified(q)'
               /\ poll'[q].pc \in Transaction => poll[q].pc \in Transaction
    <2>1. CASE poll'[q] = Idle
      BY <2>1, IdlePoll, Counters DEF Justified
    <2>2. CASE poll'[q] = poll[q]
      BY <1>1, <1>2, <1>4, <2>2, OthersJustified
    <2>3. CASE /\ poll[q].pc = "write" /\ poll[q].file = Terminal
               /\ poll'[q] = [poll[q] EXCEPT !.pc = "unlinked"]
      <3>1. "unlinked" \in PCs /\ "unlinked" \notin Transaction /\ "write" \in Creating
        BY DEF PCs, Transaction, Creating
      <3>2. /\ poll'[q] \in Poll /\ poll'[q].pc = "unlinked" /\ poll'[q].file = Terminal
            /\ poll'[q].content = poll[q].content
        BY <1>1, <2>3, <3>1 DEF Poll
      <3>3. PICK c : c = poll[q].content
        OBVIOUS
      <3>4. Grounded(Terminal, c)
        BY <2>3, <3>1, <3>3 DEF IInv, Justified
      <3>5. Grounded(Terminal, c)'
        BY <1>4, <3>4, GroundedKept, Names
      <3>6. Grounded(poll[q].file, poll[q].content)'
        BY <3>2, <3>3, <3>5 DEF Grounded
      <3> QED
        BY <3>1, <3>2, <3>6 DEF Justified, Staging, Transaction
    <2> QED
      BY <1>5, <2>1, <2>2, <2>3
  <1>7. poll' \in [Pollers -> Poll]
    BY <1>6 DEF UnlinkTerminal
  <1>8. inbox' \subseteq Message /\ answer' \in Answers
    <2>1. "FAILED_BEFORE_MUTATION" \in Result
      BY DEF Result, Outcome
    <2> QED
      BY <1>1, <2>1 DEF TypeOK, UnlinkTerminal, Answers
  <1>9. TypeOK'
    BY <1>1, <1>2, <1>3, <1>7, <1>8 DEF TypeOK
  <1>10. OnDisk'
    <2>1. job'.registered => Complete(file'[Evidence])
      BY <1>2, <1>3, Names DEF IInv, OnDisk
    <2> QED
      BY <1>3, <1>4, <2>1, DiskKept
  <1>11. (Locked /\ OneTransaction)'
    BY <1>2, <1>6, TransactionKept
  <1> QED
    BY <1>6, <1>9, <1>10, <1>11 DEF IInv

\* A result is answered.
LEMMA PublishKeeps ==
    ASSUME IInv, NEW p \in Pollers, Publish(p)
    PROVE  IInv'
  <1>1. Still /\ left' \in Left /\ poll[p].outcome \in Result /\ Answer(p, poll[p].outcome)
    BY DEF IInv, TypeOK, Publish, Still, Justified
  <1> QED
    BY <1>1, Answered

\* The owners of the workspace, of the branch and of the units: a poll about to
\* merge is on record when the head moves under it.
LEMMA DriftKeeps == IInv /\ Drift => IInv'
  <1> SUFFICES ASSUME IInv, Drift PROVE IInv'
    OBVIOUS
  <1>1. /\ TypeOK /\ git \in Workspace /\ units \in UnitFiles /\ left \in Left
        /\ raced \subseteq Requests
    BY DEF IInv, TypeOK
  <1>2. UNCHANGED <<lock, file, job, inbox, answer, moves, poll>>
    BY DEF Drift
  <1>3. left' \in Left
    <2>1. left.drifts > 0 /\ left' = [left EXCEPT !.drifts = @ - 1]
      BY DEF Drift
    <2> QED
      BY <1>1, <2>1 DEF Left
  <1> DEFINE merging == {Request(q) : q \in {x \in Pollers : At(x, "merge")}}
  <1>4. merging \subseteq Requests
    <2>1. \A q \in Pollers : At(q, "merge") => Request(q) \in Requests
      BY InStage DEF At, Staging, Transaction
    <2> QED
      BY <2>1
  <1>5. \/ remote' \in Commits /\ git' = git /\ units' = units /\ raced' = raced
        \/ /\ git' = [git EXCEPT !.dirty = ~@] /\ remote' = remote /\ units' = units
           /\ raced' = raced
        \/ /\ \E c \in Commits : git' = [git EXCEPT !.head = c, !.objects = @ \cup {c}]
           /\ raced' = raced \cup merging /\ remote' = remote /\ units' = units
        \/ /\ \/ units' = [units EXCEPT !.serving = @ + 1]
              \/ units' = [units EXCEPT !.enabled = ~@]
              \/ units' = [units EXCEPT !.timer = ~@]
           /\ git' = git /\ remote' = remote /\ raced' = raced
    BY DEF Drift
  <1>6. /\ git' \in Workspace /\ units' \in UnitFiles /\ units'.successor = units.successor
        /\ raced \subseteq raced' /\ raced' \subseteq Requests /\ remote' \in Commits
    <2>1. [git EXCEPT !.dirty = ~@] \in Workspace
      BY <1>1 DEF Workspace
    <2>2. \A c \in Commits : [git EXCEPT !.head = c, !.objects = @ \cup {c}] \in Workspace
      BY <1>1 DEF Workspace
    <2>3. /\ [units EXCEPT !.serving = @ + 1] \in UnitFiles
          /\ [units EXCEPT !.serving = @ + 1].successor = units.successor
          /\ [units EXCEPT !.enabled = ~@] \in UnitFiles
          /\ [units EXCEPT !.enabled = ~@].successor = units.successor
          /\ [units EXCEPT !.timer = ~@] \in UnitFiles
          /\ [units EXCEPT !.timer = ~@].successor = units.successor
      <3>1. units.serving + 1 \in Nat /\ (~units.enabled) \in BOOLEAN /\ (~units.timer) \in BOOLEAN
        BY <1>1 DEF UnitFiles
      <3>2. \A n \in Nat : /\ [units EXCEPT !.serving = n] \in UnitFiles
                            /\ [units EXCEPT !.serving = n].successor = units.successor
        BY <1>1 DEF UnitFiles
      <3>3. \A b \in BOOLEAN : /\ [units EXCEPT !.enabled = b] \in UnitFiles
                                /\ [units EXCEPT !.enabled = b].successor = units.successor
                                /\ [units EXCEPT !.timer = b] \in UnitFiles
                                /\ [units EXCEPT !.timer = b].successor = units.successor
        BY <1>1 DEF UnitFiles
      <3> QED
        BY <3>1, <3>2, <3>3
    <2>4. remote \in Commits
      BY <1>1 DEF TypeOK
    <2> HIDE DEF merging
    <2> QED
      BY <1>1, <1>4, <1>5, <2>1, <2>2, <2>3, <2>4
  <1>7. git'.head = git.head \/ merging \subseteq raced'
    <2>1. [git EXCEPT !.dirty = ~@].head = git.head
      BY <1>1 DEF Workspace
    <2> HIDE DEF merging
    <2> QED
      BY <1>5, <2>1
  <1>8. Grows
    BY <1>2, <1>6 DEF Grows
  <1>9. TypeOK'
    BY <1>1, <1>2, <1>3, <1>6 DEF TypeOK
  <1>10. OnDisk'
    <2>1. job'.registered => Complete(file'[Evidence])
      BY <1>2 DEF IInv, OnDisk
    <2> QED
      BY <1>2, <1>8, <2>1, DiskKept
  <1>11. ASSUME NEW q \in Pollers PROVE Justified(q)'
    <2>1. poll[q].pc = "merge" => git'.head = git.head \/ Request(q) \in raced'
      BY <1>7 DEF At
    <2> QED
      BY <1>2, <1>8, <2>1, OthersJustified
  <1>12. (Locked /\ OneTransaction)'
    BY <1>2, TransactionKept
  <1> QED
    BY <1>9, <1>10, <1>11, <1>12 DEF IInv

\* The operator sends a message.
LEMMA SendKeeps ==
    ASSUME IInv, NEW m \in Message, Send(m)
    PROVE  IInv'
  <1>1. left \in Left /\ inbox \subseteq Message /\ answer \in Answers
    BY DEF IInv, TypeOK
  <1>2. Still /\ poll' = poll /\ inbox' \subseteq Message /\ answer' \in Answers
    BY <1>1 DEF Send, Still
  <1>3. left' \in Left
    BY <1>1 DEF Send, Left
  <1> QED
    BY <1>2, <1>3, SettledStep

\* Nothing has been staged at first.
LEMMA InitKeeps == Init => IInv
  <1> SUFFICES ASSUME Init PROVE IInv
    OBVIOUS
  <1>1. Idle \in Poll /\ Idle.pc = "idle" /\ Absent \in Content
    BY IdlePoll, Contents
  <1>2. poll \in [Pollers -> Poll] /\ \A p \in Pollers : poll[p].pc = "idle"
    BY <1>1 DEF Init
  <1>3. TypeOK
    <2>1. git \in Workspace
      BY DEF Init, Workspace
    <2>2. units \in UnitFiles /\ job \in CanaryRun /\ answer \in Answers /\ left \in Left
      BY DEF Init, UnitFiles, CanaryRun, Answers, Left
    <2>3. file \in [File -> Content]
      BY <1>1 DEF Init
    <2>4. /\ remote \in Commits /\ lock \in BOOLEAN /\ inbox \subseteq Message
          /\ moves \subseteq Moves /\ raced \subseteq Requests
      BY DEF Init
    <2> QED
      BY <1>2, <2>1, <2>2, <2>3, <2>4 DEF TypeOK
  <1>4. OnDisk
    <2>1. (\A f \in File : file[f] = Absent) /\ ~job.registered
      BY DEF Init
    <2> QED
      BY <2>1 DEF OnDisk
  <1>5. \A p \in Pollers : Justified(p) /\ ~InTransaction(p)
    BY <1>2, Counters DEF Justified, InTransaction
  <1> QED
    BY <1>3, <1>4, <1>5 DEF IInv, Locked, OneTransaction

\* Every step keeps the invariant.
LEMMA NextKeeps == IInv /\ [Next]_vars => IInv'
  <1> SUFFICES ASSUME IInv, [Next]_vars PROVE IInv'
    OBVIOUS
  <1>1. ASSUME NEW p \in Pollers, PollStep(p) PROVE IInv'
    <2>1. CASE StageStep(p)
      <3>1. CASE \E r \in Requests : \E m \in Phase : Execute(p, r, m)
        BY <3>1, ExecuteKeeps
      <3>2. CASE AcquireLock(p) \/ ReleaseLock(p)
        BY <3>2, AcquireKeeps, ReleaseKeeps
      <3>3. CASE Check(p) \/ Verify(p) \/ VerifyAdvance(p) \/ ProbeInert(p)
        BY <3>3, ChecksKeep
      <3>4. CASE \/ Fetch(p) \/ FastForward(p) \/ RenderArtifacts(p) \/ RenderedArtifacts(p)
                 \/ Cleanup(p)
        BY <3>4, EffectsKeep
      <3> QED
        BY <2>1, <3>1, <3>2, <3>3, <3>4 DEF StageStep
    <2>2. CASE ~StageStep(p)
      BY <1>1, <2>2, PromotionKeeps, FilesKeep, UnlinkKeeps, PublishKeeps, StartKeeps DEF PollStep
    <2> QED
      BY <2>1, <2>2
  <1>2. ASSUME NEW p \in Pollers, Failure(p) PROVE IInv'
    BY <1>2, FailuresKeep
  <1>3. CASE Drift
    BY <1>3, DriftKeeps
  <1>4. ASSUME NEW m \in Message, Send(m) PROVE IInv'
    BY <1>4, SendKeeps
  <1>5. CASE UNCHANGED vars
    <2>1. Still /\ poll' = poll /\ left' \in Left /\ inbox' \subseteq Message /\ answer' \in Answers
      BY <1>5 DEF vars, Still, IInv, TypeOK
    <2> QED
      BY <2>1, SettledStep
  <1>6. ASSUME NEW p \in Pollers, NEW m \in Message, NEW d \in Directory, StartPoll(p, m, d)
        PROVE  IInv'
    BY <1>6, StartKeeps
  <1> QED
    BY <1>1, <1>2, <1>3, <1>4, <1>5, <1>6 DEF Next, Settled

\* The invariant holds in every behaviour.
LEMMA Invariance == Spec => []IInv
  BY InitKeeps, NextKeeps, PTL DEF Spec

-----------------------------------------------------------------------------
(* The theorems *)

\* The workspace, the files, the messages and the polls stay within their types.
THEOREM TypeCorrect == Spec => []TypeOK
  <1>1. IInv => TypeOK
    BY DEF IInv
  <1> QED
    BY <1>1, Invariance, PTL

\* Overlapping polls never run two transactions at a time, whoever dies and
\* whatever the lock file of a dead poll refuses.
THEOREM TransactionsDoNotOverlap == Spec => []OneTransaction
  <1>1. IInv => OneTransaction
    BY DEF IInv
  <1> QED
    BY <1>1, Invariance, PTL

\* Every piece of sealed evidence rests on the one before it, down to the
\* fast-forward from the head the request was approved for.
THEOREM EvidenceIsBacked == Spec => []ChainIsBacked
  <1>1. IInv => ChainIsBacked
    <2> SUFFICES ASSUME IInv PROVE ChainIsBacked
      OBVIOUS
    <2>1. \A f \in File : Complete(file[f]) => Grounded(f, file[f])
      BY Contents DEF IInv, OnDisk
    <2>2. \A r \in Requests : file[Stage(r)].status = "STAGED" => Grounded(Stage(r), file[Stage(r)])
      BY <2>1, Names DEF Complete
    <2>3. \A f \in {Waiting, Evidence, Terminal} : Complete(file[f]) => Grounded(f, file[f])
      BY <2>1, Names
    <2>4. job.registered => Complete(file[Evidence])
      BY DEF IInv, OnDisk
    <2> QED
      BY <2>2, <2>3, <2>4 DEF ChainIsBacked, Grounded, Forwarded
  <1> QED
    BY <1>1, Invariance, PTL
=============================================================================
