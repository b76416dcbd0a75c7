--------------------------- MODULE RemoteOperator ---------------------------
(***************************************************************************)
(* The OCPv2 remote operator service: a one-shot process, started by a     *)
(* timer, that reads control comments of one pull request, executes the    *)
(* directives they carry against the Full Plan and posts one result        *)
(* comment for each.  What survives a process is on disk: the transport's  *)
(* acknowledgement and pending ledgers, the receipts and their sequence    *)
(* watermark, the execution bindings and the result outbox.  A run first   *)
(* recovers what an earlier process left behind and then polls once.       *)
(* Every durable write is a step of its own, and the process may stop      *)
(* before any of them.                                                     *)
(***************************************************************************)
EXTENDS Integers, Sequences, FiniteSets

CONSTANTS
  NumMessages,   \* control comments, numbered in comment order
  Kind,          \* Message -> Kinds: what the envelope of the comment asks for
  Sequence,      \* Message -> the envelope's sequence number
  Scope,         \* mutations that the canary scope matches
  Modes,         \* control modes the service is started in
  MaxVersion,    \* contents one comment has over time (1: never edited)
  AckLimit,      \* delivery_ack_limit
  PollLimit,     \* poll_limit
  MaxStops       \* process deaths and I/O failures (bound)

Message == 1..NumMessages
Version == 1..MaxVersion

\* A mutation, a read-only directive (operator envelope v2), a host diagnostic
\* (envelope v3) and an activation (remote control envelope v1).
Kinds == {"mutation", "readonly", "diagnostic", "control"}
ControlMode == {"OBSERVE_ONLY", "CONTROL_READ_ONLY", "CONTROL_MUTATION_CANARY", "ACTIVE"}

ASSUME ServiceAssumption ==
  /\ NumMessages \in Nat \ {0}
  /\ MaxVersion \in Nat \ {0}
  /\ AckLimit \in Nat \ {0}
  /\ PollLimit \in Nat \ {0}
  /\ MaxStops \in Nat
  /\ Kind \in [Message -> Kinds]
  /\ Sequence \in [Message -> Nat \ {0}]
  /\ Scope \subseteq Message
  /\ Modes \subseteq ControlMode

VARIABLES
  channel,     \* version of each comment on the pull request, 0: not posted
  expired,     \* messages whose expires_at has passed
  posted,      \* result comments: per message and answer none, one, or more
  acks,        \* github-delivery-acks.json, oldest first
  pendFile,    \* github-delivery-acks.json.pending
  ledger,      \* the pending deliveries in the memory of the process
  receipts,    \* version of the recorded envelope, 0: no receipt
  terminal,    \* receipts whose terminal_projection_status is PROJECTED
  watermark,   \* message that last wrote .sequence.json, 0: none
  binding,     \* execution bindings
  outbox,      \* result outbox and diagnostic outbox
  owner,       \* message of the Full Plan's continuation owner, 0: another
  completed,   \* mutations whose Gate completed under their claim
  execs,       \* executions started for each message: none, one, or more
  activated,   \* version an activation was registered for, 0: none
  svc,         \* the service process
  stops        \* process deaths so far

remote    == <<channel, expired, posted>>
ledgers   == <<acks, pendFile, ledger>>
ingress   == <<receipts, terminal, watermark>>
canonical == <<owner, completed, execs, activated>>
vars == <<remote, ledgers, ingress, binding, outbox, canonical, svc, stops>>

----------------------------------------------------------------------------
(* Data *)

Delivery == [msg : Message, ver : Version]
Answers == {"RESULT", "COMPLETED", "DIAGNOSED", "ACTIVATED", "REPLAY", "REFUSED"}
Many == 0..2

Unbound == [status |-> "NONE", ver |-> 0, proj |-> FALSE]
NoProjection == [pending |-> FALSE, published |-> FALSE, stale |-> FALSE]
Enqueued == [pending |-> TRUE, published |-> FALSE, stale |-> FALSE]

\* A process holds the loop it is in (pc and stage), what that loop has left to
\* do, the controls it received and the answer it is publishing.
Off == [pc |-> "off", stage |-> "none", mode |-> "ACTIVE",
        todo |-> {}, batch |-> {}, answer |-> "none"]

OneMore(n) == IF n < 2 THEN n + 1 ELSE n

\* Mutant: a ledger that is never cut.
KeepAll(s, n) == s

LastOf(s, n) == IF Len(s) <= n THEN s ELSE SubSeq(s, Len(s) - n + 1, Len(s))
Listed(s, e) == \E i \in DOMAIN s : s[i] = e

\* A ledger without its entry at I.  Its list comprehension drops at most one:
\* a delivery joins no queue it is in, an acknowledgement replaces the one of
\* its comment.
Dropped(s, I) ==
  IF I = {} THEN s
    ELSE LET i == CHOOSE j \in I : TRUE
         IN  SubSeq(s, 1, i - 1) \o SubSeq(s, i + 1, Len(s))
Without(s, e) == Dropped(s, {i \in DOMAIN s : s[i] = e})

\* What a loop over messages works on; it takes them in comment order.  (Poll does;
\* a recovery loop goes by the names of its files, which need not follow the
\* comments, but no iteration of it reads what another one writes but the ledgers.)
Deliveries(S, version) == {[msg |-> m, ver |-> version[m]] : m \in S}
BoundVersion == [m \in Message |-> binding[m].ver]

Unresolved(m) == binding[m].status \in {"PENDING", "OUTBOXED"}
InOutbox(m) == outbox[m].pending \/ outbox[m].published

\* Every save of the Full Plan state changes its digest, so a projection that
\* quotes an earlier digest no longer equals a freshly built one.
StateSaved(o) ==
  [m \in Message |-> [o[m] EXCEPT !.stale =
                     @ \/ (Kind[m] = "mutation" /\ (o[m].pending \/ o[m].published))]]

\* The loop is at d, the first comment it has left.
At(pc, d) == svc.pc = pc /\ d \in svc.todo /\ \A e \in svc.todo : d.msg <= e.msg
Goto(pc) == [svc EXCEPT !.pc = pc]
Advance(pc, d) == [svc EXCEPT !.pc = pc, !.todo = @ \ {d}, !.answer = "none"]
Reply(a) == [svc EXCEPT !.pc = "publish", !.answer = a]

----------------------------------------------------------------------------
(* The transport's ledgers *)

Acked(e) == Listed(acks, e)

\* The pending deliveries of one message form a queue; a new one joins the
\* queue of its message, and a message without a queue goes to the end.
QueueOf(s, m) == {i \in DOMAIN s : s[i].msg = m}
HeadOf(m) == ledger[CHOOSE i \in QueueOf(ledger, m) : \A j \in QueueOf(ledger, m) : i <= j]
Remembered(s, e) ==
  LET queue == QueueOf(s, e.msg)
      at == IF queue = {} THEN Len(s) ELSE CHOOSE i \in queue : \A j \in queue : j <= i
  IN  IF Listed(s, e) THEN s ELSE SubSeq(s, 1, at) \o <<e>> \o SubSeq(s, at + 1, Len(s))

\* _save_delivery_pending keeps the last AckLimit entries on disk.
PendingSaved(s) == LastOf(s, AckLimit)

\* The acknowledgement replaces the one of the same comment; the oldest goes.
AckSaved(e) == LastOf(Append(Dropped(acks, QueueOf(acks, e.msg)), e), AckLimit)

----------------------------------------------------------------------------
(* The pull request and the Full Plan, which move on their own *)

PostComment ==
  /\ \E m \in Message :
       /\ channel[m] = 0
       /\ \A n \in 1..(m - 1) : channel[n] # 0
       /\ channel' = [channel EXCEPT ![m] = 1]
  /\ UNCHANGED <<expired, posted, ledgers, ingress, binding, outbox, canonical, svc, stops>>

EditComment ==
  /\ \E m \in Message :
       /\ channel[m] \in 1..(MaxVersion - 1)
       /\ channel' = [channel EXCEPT ![m] = @ + 1]
  /\ UNCHANGED <<expired, posted, ledgers, ingress, binding, outbox, canonical, svc, stops>>

Expire ==
  /\ \E m \in Message \ expired : channel[m] # 0 /\ expired' = expired \cup {m}
  /\ UNCHANGED <<channel, posted, ledgers, ingress, binding, outbox, canonical, svc, stops>>

\* The owner's Gate completes: in the executing process, or later under the
\* boot reconciler that resumes the run.
GateCompletes ==
  /\ owner # 0
  /\ completed' = completed \cup {owner}
  /\ completed' # completed
  /\ outbox' = StateSaved(outbox)
  /\ UNCHANGED <<remote, ledgers, ingress, binding, owner, execs, activated, svc, stops>>

\* The run goes on to later Gates.
PlanAdvances ==
  /\ outbox' = StateSaved(outbox)
  /\ outbox' # outbox
  /\ UNCHANGED <<remote, ledgers, ingress, binding, canonical, svc, stops>>

\* Another controller claims the run's continuation.
OwnerDrifts ==
  /\ owner # 0
  /\ owner' = 0
  /\ outbox' = StateSaved(outbox)
  /\ UNCHANGED <<remote, ledgers, ingress, binding, completed, execs, activated, svc, stops>>

----------------------------------------------------------------------------
(* A run of the service: start, and the recovery of canonical results *)

Start ==
  /\ svc.pc = "off"
  /\ \E mode \in Modes :
       svc' = [Off EXCEPT !.pc = "resolve", !.mode = mode,
                 !.todo = Deliveries({m \in Message : Unresolved(m)}, BoundVersion)]
  /\ ledger' = pendFile
  /\ UNCHANGED <<remote, acks, pendFile, ingress, binding, outbox, canonical, stops>>

Projected(b) == [b EXCEPT !.status = "PROJECTED"]
Published(p) == [p EXCEPT !.pending = FALSE, !.published = TRUE]

\* resolve_registered_full_plan_completion: the exact Gate is complete and the
\* run is still owned by this message.
Evidence(m) == m \in completed /\ owner = m

\* The result was acknowledged: only the bookkeeping is left.
ResolveAcked(d) ==
  /\ At("resolve", d)
  /\ Acked([msg |-> d.msg, ver |-> binding[d.msg].ver])
  /\ IF binding[d.msg].status = "OUTBOXED" /\ outbox[d.msg].pending
       THEN /\ outbox' = [outbox EXCEPT ![d.msg] = Published(@)]
            /\ svc' = Goto("close")
            /\ UNCHANGED binding
       ELSE /\ binding' = [binding EXCEPT ![d.msg] = Projected(@)]
            /\ svc' = Advance("resolve", d)
            /\ UNCHANGED outbox
  /\ UNCHANGED <<remote, ledgers, ingress, canonical, stops>>

CloseResolved(d) ==
  /\ At("close", d)
  /\ binding' = [binding EXCEPT ![d.msg] = Projected(@)]
  /\ svc' = Advance("resolve", d)
  /\ UNCHANGED <<remote, ledgers, ingress, outbox, canonical, stops>>

LeaveUnresolved(d) ==
  /\ At("resolve", d)
  /\ ~Acked([msg |-> d.msg, ver |-> binding[d.msg].ver])
  /\ binding[d.msg].status = "OUTBOXED" \/ ~Evidence(d.msg)
  /\ svc' = Advance("resolve", d)
  /\ UNCHANGED <<remote, ledgers, ingress, binding, outbox, canonical, stops>>

\* enqueue_projection: the same projection again is a no-op, another one under
\* the same ID ends the process.
EnqueueRecovered(d) ==
  /\ At("resolve", d)
  /\ ~Acked([msg |-> d.msg, ver |-> binding[d.msg].ver])
  /\ binding[d.msg].status = "PENDING"
  /\ Evidence(d.msg)
  /\ IF InOutbox(d.msg) THEN outbox' = outbox
                      ELSE outbox' = [outbox EXCEPT ![d.msg] = Enqueued]
  /\ svc' = IF InOutbox(d.msg) /\ outbox[d.msg].stale THEN Off ELSE Goto("enqueued")
  /\ UNCHANGED <<remote, ledgers, ingress, binding, canonical, stops>>

RecordTerminalProjection(d) ==
  /\ At("enqueued", d)
  /\ terminal' = terminal \cup {d.msg}
  /\ svc' = Goto("recorded")
  /\ UNCHANGED <<remote, ledgers, receipts, watermark, binding, outbox, canonical, stops>>

MarkOutboxed(d) ==
  /\ At("recorded", d)
  /\ binding' = [binding EXCEPT ![d.msg].status = "OUTBOXED", ![d.msg].proj = TRUE]
  /\ svc' = Advance("resolve", d)
  /\ UNCHANGED <<remote, ledgers, ingress, outbox, canonical, stops>>

----------------------------------------------------------------------------
(* Delivery of what the outboxes hold: canonical results, then activations, *)
(* then diagnostics                                                         *)

\* Mutant: the canonical results are left in the outbox.
StageAfterResolve(stage) ==
  CASE stage = "none" -> "control"
    [] stage = "control" -> "diagnostic"
    [] OTHER -> "poll"

StageAfter(stage) ==
  CASE stage = "none" -> "mutation"
    [] stage = "mutation" -> "control"
    [] stage = "control" -> "diagnostic"
    [] OTHER -> "poll"

NextStage ==
  /\ svc.pc \in {"resolve", "deliver"}
  /\ svc.todo = {}
  /\ LET stage == StageAfter(svc.stage)
     IN  svc' = IF stage = "poll"
                  THEN [svc EXCEPT !.pc = "scan", !.stage = stage,
                          !.todo = Deliveries({m \in Message : channel[m] # 0}, channel)]
                  ELSE [svc EXCEPT !.pc = "deliver", !.stage = stage,
                          !.todo = Deliveries({m \in Message : Kind[m] = stage /\ outbox[m].pending},
                                            BoundVersion)]
  /\ UNCHANGED <<remote, ledgers, ingress, binding, outbox, canonical, stops>>

\* publish_pending: a canonical result must be the one its binding names, and
\* its delivery is put back into the pending ledger first.
DeliverCanonical(d) ==
  /\ At("deliver", d)
  /\ svc.stage = "mutation"
  /\ IF ~binding[d.msg].proj
       THEN svc' = Off /\ UNCHANGED <<pendFile, ledger>>
       ELSE LET e == [msg |-> d.msg, ver |-> binding[d.msg].ver]
            IN  /\ svc' = Reply("COMPLETED")
                /\ ledger' = Remembered(ledger, e)
                /\ pendFile' = IF Listed(ledger, e) THEN pendFile
                               ELSE PendingSaved(Remembered(ledger, e))
  /\ UNCHANGED <<remote, acks, ingress, binding, outbox, canonical, stops>>

DeliverOther(d) ==
  /\ At("deliver", d)
  /\ svc.stage \in {"control", "diagnostic"}
  /\ svc' = Reply(IF svc.stage = "control" THEN "ACTIVATED" ELSE "DIAGNOSED")
  /\ UNCHANGED <<remote, ledgers, ingress, binding, outbox, canonical, stops>>

----------------------------------------------------------------------------
(* publish_projection, used by the recovery loops and by the poll *)

Discarded(e) ==
  /\ svc' = Goto("finish")
  /\ ledger' = Without(ledger, e)
  /\ pendFile' = PendingSaved(ledger')

\* The delivery at the head of the message's queue is acknowledged already.
AlreadyPublished(m) == QueueOf(ledger, m) # {} /\ Acked(HeadOf(m))

\* An earlier process committed the acknowledgement and died.
SuppressPublish(d) ==
  /\ At("publish", d)
  /\ AlreadyPublished(d.msg)
  /\ Discarded(HeadOf(d.msg))
  /\ UNCHANGED <<remote, acks, ingress, binding, outbox, canonical, stops>>

\* Mutant: a failed request to GitHub is taken for a posted comment.
PublishErrorIgnored(d) ==
  /\ At("publish", d)
  /\ ~AlreadyPublished(d.msg)
  /\ \/ posted' = posted
     \/ posted' = [posted EXCEPT ![d.msg][svc.answer] = OneMore(@)]
  /\ svc' = Goto("posted")
  /\ UNCHANGED <<channel, expired, ledgers, ingress, binding, outbox, canonical, stops>>

PublishComment(d) ==
  /\ At("publish", d)
  /\ ~AlreadyPublished(d.msg)
  /\ posted' = [posted EXCEPT ![d.msg][svc.answer] = OneMore(@)]
  /\ svc' = Goto("posted")
  /\ UNCHANGED <<channel, expired, ledgers, ingress, binding, outbox, canonical, stops>>

\* _persist_successful_publish: the acknowledgement, then the pending ledger.
SaveDeliveryAck(d) ==
  /\ At("posted", d)
  /\ IF QueueOf(ledger, d.msg) = {}
       THEN svc' = Goto("finish") /\ UNCHANGED acks
       ELSE svc' = Goto("acked") /\ acks' = AckSaved(HeadOf(d.msg))
  /\ UNCHANGED <<remote, pendFile, ledger, ingress, binding, outbox, canonical, stops>>

DiscardPending(d) ==
  /\ At("acked", d)
  /\ Discarded(HeadOf(d.msg))
  /\ UNCHANGED <<remote, acks, ingress, binding, outbox, canonical, stops>>

\* Recovery: the outbox item is marked published, then its binding is closed.
MarkPublished(d) ==
  /\ At("finish", d)
  /\ svc.stage # "poll"
  /\ outbox' = [outbox EXCEPT ![d.msg] = Published(@)]
  /\ svc' = IF svc.stage = "mutation" THEN Goto("project") ELSE Advance("deliver", d)
  /\ UNCHANGED <<remote, ledgers, ingress, binding, canonical, stops>>

MarkProjected(d) ==
  /\ At("project", d)
  /\ binding' = [binding EXCEPT ![d.msg] = IF Unresolved(d.msg) THEN Projected(@) ELSE @]
  /\ svc' = Advance("deliver", d)
  /\ UNCHANGED <<remote, ledgers, ingress, outbox, canonical, stops>>

\* Poll: after_projection_published.  A status answer leaves the outbox alone.
AfterProjectionPublished(d) ==
  /\ At("finish", d)
  /\ svc.stage = "poll"
  /\ outbox' = [outbox EXCEPT ![d.msg] =
                  IF \/ Kind[d.msg] = "control" /\ svc.answer = "ACTIVATED"
                     \/ Kind[d.msg] = "diagnostic" /\ @.pending
                    THEN Published(@) ELSE @]
  /\ binding' = [binding EXCEPT ![d.msg] = IF Unresolved(d.msg) THEN Projected(@) ELSE @]
  /\ svc' = Advance("handle", d)
  /\ UNCHANGED <<remote, ledgers, ingress, canonical, stops>>

----------------------------------------------------------------------------
(* The poll: receive, then one control after another *)

ScanAcked(d) ==
  /\ At("scan", d)
  /\ Cardinality(svc.batch) < PollLimit
  /\ Acked(d)
  /\ svc' = Advance("scan", d)
  /\ ledger' = Without(ledger, d)
  /\ pendFile' = IF Listed(ledger, d) THEN PendingSaved(ledger') ELSE pendFile
  /\ UNCHANGED <<remote, acks, ingress, binding, outbox, canonical, stops>>

\* The delivery is remembered before the control is handed to the service.
ScanControl(d) ==
  /\ At("scan", d)
  /\ Cardinality(svc.batch) < PollLimit
  /\ ~Acked(d)
  /\ svc' = [Advance("scan", d) EXCEPT !.batch = @ \cup {d}]
  /\ ledger' = Remembered(ledger, d)
  /\ pendFile' = IF Listed(ledger, d) THEN pendFile ELSE PendingSaved(ledger')
  /\ UNCHANGED <<remote, acks, ingress, binding, outbox, canonical, stops>>

EndScan ==
  /\ svc.pc = "scan"
  /\ svc.todo = {} \/ Cardinality(svc.batch) >= PollLimit
  /\ svc' = [svc EXCEPT !.pc = "handle", !.todo = svc.batch, !.batch = {}]
  /\ UNCHANGED <<remote, ledgers, ingress, binding, outbox, canonical, stops>>

PollDone ==
  /\ svc.pc = "handle"
  /\ svc.todo = {}
  /\ svc' = Off
  /\ UNCHANGED <<remote, ledgers, ingress, binding, outbox, canonical, stops>>

\* An expired control request is answered; an expired operator envelope fails
\* the poll.
HandleExpired(d) ==
  /\ At("handle", d)
  /\ d.msg \in expired
  /\ svc' = IF Kind[d.msg] = "control" THEN Reply("REFUSED") ELSE Off
  /\ UNCHANGED <<remote, ledgers, ingress, binding, outbox, canonical, stops>>

\* An activation is refused by mode, feature flag or policy, or it raises and
\* the exception becomes a status answer.
RefuseActivation(d) ==
  /\ At("handle", d) /\ d.msg \notin expired /\ Kind[d.msg] = "control"
  /\ svc' = Reply("REFUSED")
  /\ UNCHANGED <<remote, ledgers, ingress, binding, outbox, canonical, stops>>

\* record_or_load: registered once; another binding under the request ID raises.
Activate(d) ==
  /\ At("handle", d) /\ d.msg \notin expired /\ Kind[d.msg] = "control"
  /\ svc.mode = "ACTIVE"
  /\ activated[d.msg] \in {0, d.ver}
  /\ activated' = [activated EXCEPT ![d.msg] = d.ver]
  /\ svc' = Goto("activated")
  /\ UNCHANGED <<remote, ledgers, ingress, binding, outbox, owner, completed, execs, stops>>

\* The receipt of the activation stays, the answer says it failed.
ActivationReportFails(d) ==
  /\ At("activated", d)
  /\ svc' = Reply("REFUSED")
  /\ UNCHANGED <<remote, ledgers, ingress, binding, outbox, canonical, stops>>

EnqueueActivation(d) ==
  /\ At("activated", d)
  /\ outbox' = [outbox EXCEPT ![d.msg] = IF InOutbox(d.msg) THEN @ ELSE Enqueued]
  /\ svc' = Reply("ACTIVATED")
  /\ UNCHANGED <<remote, ledgers, ingress, binding, canonical, stops>>

----------------------------------------------------------------------------
(* Ingress of an operator envelope *)

Operator(d) == At("handle", d) /\ d.msg \notin expired /\ Kind[d.msg] # "control"

\* A number above both the watermark and every receipt has not been used.
WatermarkReaches(s) == watermark # 0 /\ s <= Sequence[watermark]
ReceiptReaches(s) == \E n \in Message : receipts[n] # 0 /\ s <= Sequence[n]

\* Mutant: only the watermark file is consulted.
UsedInWatermark(s) == WatermarkReaches(s)

SequenceUsed(s) == WatermarkReaches(s) \/ ReceiptReaches(s)

\* Mutant: an exact replay is left to the acknowledgements.
ClassifiedByContent(d) ==
  IF receipts[d.msg] \notin {0, d.ver} THEN "TAMPER_DETECTED"
    ELSE IF receipts[d.msg] = 0 /\ SequenceUsed(Sequence[d.msg]) THEN "REPLAY_REJECTED"
    ELSE "NEW"

\* classify_delivery
Classified(d) ==
  IF receipts[d.msg] # 0
    THEN IF receipts[d.msg] = d.ver THEN "IDEMPOTENT_REPLAY" ELSE "TAMPER_DETECTED"
    ELSE IF SequenceUsed(Sequence[d.msg]) THEN "REPLAY_REJECTED" ELSE "NEW"

\* Mutant: a replay is acknowledged whatever its execution left behind.
ReplayAcknowledged(d) ==
  /\ Operator(d)
  /\ Classified(d) = "IDEMPOTENT_REPLAY"
  /\ watermark' = IF WatermarkReaches(Sequence[d.msg]) THEN watermark ELSE d.msg
  /\ svc' = Reply("REPLAY")
  /\ UNCHANGED <<remote, ledgers, receipts, terminal, binding, outbox, canonical, stops>>

\* An exact replay repairs the watermark; while its execution is unresolved it
\* ends the process instead of being acknowledged.  (_repair_sequence_watermark
\* raises when the watermark is another message's with the same number: that takes
\* two receipts of one number, which SequenceSingleUse excludes.)
HandleReplay(d) ==
  /\ Operator(d)
  /\ Classified(d) = "IDEMPOTENT_REPLAY"
  /\ watermark' = IF WatermarkReaches(Sequence[d.msg]) THEN watermark ELSE d.msg
  /\ svc' = IF Unresolved(d.msg) THEN Off ELSE Reply("REPLAY")
  /\ UNCHANGED <<remote, ledgers, receipts, terminal, binding, outbox, canonical, stops>>

HandleRejected(d) ==
  /\ Operator(d)
  /\ Classified(d) \in {"TAMPER_DETECTED", "REPLAY_REJECTED"}
  /\ svc' = Reply("REFUSED")
  /\ UNCHANGED <<remote, ledgers, ingress, binding, outbox, canonical, stops>>

\* Mutant: a binding found under the message ID is taken for this envelope's.
BindUnchecked(d) ==
  /\ Operator(d)
  /\ Classified(d) = "NEW"
  /\ binding' = [binding EXCEPT ![d.msg] =
       IF Kind[d.msg] = "mutation" /\ @.status = "NONE"
         THEN [status |-> "PENDING", ver |-> d.ver, proj |-> FALSE] ELSE @]
  /\ svc' = Goto("bound")
  /\ UNCHANGED <<remote, ledgers, ingress, outbox, canonical, stops>>

\* bind_before_receipt: a mutation has its recovery binding first; a different
\* envelope bound under the message ID ends the process.
BindBeforeReceipt(d) ==
  /\ Operator(d)
  /\ Classified(d) = "NEW"
  /\ IF Kind[d.msg] # "mutation" \/ binding[d.msg].ver = d.ver
       THEN UNCHANGED binding /\ svc' = Goto("bound")
     ELSE IF binding[d.msg].status # "NONE"
       THEN UNCHANGED binding /\ svc' = Off
     ELSE /\ binding' = [binding EXCEPT ![d.msg] = [status |-> "PENDING", ver |-> d.ver, proj |-> FALSE]]
          /\ svc' = Goto("bound")
  /\ UNCHANGED <<remote, ledgers, ingress, outbox, canonical, stops>>

\* record_received: the receipt first, then the watermark.
SaveReceipt(d) ==
  /\ At("bound", d)
  /\ receipts' = [receipts EXCEPT ![d.msg] = d.ver]
  /\ svc' = Goto("received")
  /\ UNCHANGED <<remote, ledgers, terminal, watermark, binding, outbox, canonical, stops>>

SaveWatermark(d) ==
  /\ At("received", d)
  /\ watermark' = d.msg
  /\ svc' = Goto("accepted")
  /\ UNCHANGED <<remote, ledgers, receipts, terminal, binding, outbox, canonical, stops>>

----------------------------------------------------------------------------
(* Dispatch of an accepted directive by mode *)

MayExecute(d) ==
  /\ Kind[d.msg] = "mutation"
  /\ \/ svc.mode = "ACTIVE"
     \/ svc.mode = "CONTROL_MUTATION_CANARY" /\ d.msg \in Scope

MayDiagnose(d) == Kind[d.msg] = "diagnostic" /\ svc.mode \in {"CONTROL_READ_ONLY", "ACTIVE"}

\* The mode does not allow the directive, or wants it accepted and no more; a
\* diagnostic also ends here where the configuration has no diagnostics.
AnswerByMode(d) ==
  /\ At("accepted", d)
  /\ ~MayExecute(d)
  /\ svc' = Reply("REFUSED")
  /\ UNCHANGED <<remote, ledgers, ingress, binding, outbox, canonical, stops>>

Diagnose(d) ==
  /\ At("accepted", d)
  /\ MayDiagnose(d)
  /\ outbox' = [outbox EXCEPT ![d.msg] = Enqueued]
  /\ svc' = Reply("DIAGNOSED")
  /\ UNCHANGED <<remote, ledgers, ingress, binding, canonical, stops>>

\* The Full Plan no longer matches what the directive expects: an exception.
StaleDirective(d) ==
  /\ At("accepted", d)
  /\ MayExecute(d)
  /\ svc' = Off
  /\ UNCHANGED <<remote, ledgers, ingress, binding, outbox, canonical, stops>>

\* The directive claims the run and its Gates start.
Execute(d) ==
  /\ At("accepted", d)
  /\ MayExecute(d)
  /\ owner' = d.msg
  /\ execs' = [execs EXCEPT ![d.msg] = OneMore(@)]
  /\ outbox' = StateSaved(outbox)
  /\ svc' = Goto("executing")
  /\ UNCHANGED <<remote, ledgers, ingress, binding, completed, activated, stops>>

\* The run stopped, with the Gate complete or waiting.
ExecutionReturns(d) ==
  /\ At("executing", d)
  /\ svc' = Reply("RESULT")
  /\ UNCHANGED <<remote, ledgers, ingress, binding, outbox, canonical, stops>>

\* The process dies, or a write or a GitHub request raises.
Stop ==
  /\ svc.pc # "off"
  /\ stops < MaxStops
  /\ stops' = stops + 1
  /\ svc' = Off
  /\ UNCHANGED <<remote, ledgers, ingress, binding, outbox, canonical>>

----------------------------------------------------------------------------

Init ==
  /\ channel = [m \in Message |-> 0]
  /\ expired = {}
  /\ posted = [m \in Message |-> [a \in Answers |-> 0]]
  /\ acks = <<>>
  /\ pendFile = <<>>
  /\ ledger = <<>>
  /\ receipts = [m \in Message |-> 0]
  /\ terminal = {}
  /\ watermark = 0
  /\ binding = [m \in Message |-> Unbound]
  /\ outbox = [m \in Message |-> NoProjection]
  /\ owner = 0
  /\ completed = {}
  /\ execs = [m \in Message |-> 0]
  /\ activated = [m \in Message |-> 0]
  /\ svc = Off
  /\ stops = 0

Environment ==
  \/ PostComment \/ EditComment \/ Expire \/ GateCompletes \/ PlanAdvances \/ OwnerDrifts \/ Stop

Recovery(d) ==
  \/ ResolveAcked(d) \/ CloseResolved(d) \/ LeaveUnresolved(d) \/ EnqueueRecovered(d)
  \/ RecordTerminalProjection(d) \/ MarkOutboxed(d) \/ DeliverCanonical(d) \/ DeliverOther(d)

Publication(d) ==
  \/ SuppressPublish(d) \/ PublishComment(d) \/ SaveDeliveryAck(d) \/ DiscardPending(d)
  \/ MarkPublished(d) \/ MarkProjected(d) \/ AfterProjectionPublished(d)

Poll(d) ==
  \/ ScanAcked(d) \/ ScanControl(d) \/ HandleExpired(d)
  \/ RefuseActivation(d) \/ Activate(d) \/ ActivationReportFails(d) \/ EnqueueActivation(d)
  \/ HandleReplay(d) \/ HandleRejected(d) \/ BindBeforeReceipt(d)
  \/ SaveReceipt(d) \/ SaveWatermark(d) \/ AnswerByMode(d) \/ Diagnose(d)
  \/ StaleDirective(d) \/ Execute(d) \/ ExecutionReturns(d)

Service ==
  \/ Start \/ NextStage \/ EndScan \/ PollDone
  \/ \E d \in svc.todo : Recovery(d) \/ Publication(d) \/ Poll(d)

Next == Environment \/ Service

Spec == Init /\ [][Next]_vars

\* The timer starts the service again and again, and a started process runs.
FairSpec == Spec /\ WF_vars(Service)

----------------------------------------------------------------------------
(* Properties *)

Places == {"off", "resolve", "close", "enqueued", "recorded", "deliver", "publish", "posted",
           "acked", "finish", "project", "scan", "handle", "activated", "bound", "received",
           "accepted", "executing"}

LedgersTyped ==
  /\ acks \in Seq(Delivery) /\ Len(acks) <= AckLimit
  /\ pendFile \in Seq(Delivery) /\ Len(pendFile) <= AckLimit
  /\ ledger \in Seq(Delivery)

StoresTyped ==
  /\ receipts \in [Message -> 0..MaxVersion]
  /\ terminal \subseteq Message
  /\ watermark \in 0..NumMessages
  /\ binding \in [Message -> [status : {"NONE", "PENDING", "OUTBOXED", "PROJECTED"},
                              ver : 0..MaxVersion, proj : BOOLEAN]]
  /\ outbox \in [Message -> [pending : BOOLEAN, published : BOOLEAN, stale : BOOLEAN]]

WorldTyped ==
  /\ channel \in [Message -> 0..MaxVersion]
  /\ expired \subseteq Message
  /\ posted \in [Message -> [Answers -> Many]]
  /\ owner \in 0..NumMessages
  /\ completed \subseteq Message
  /\ execs \in [Message -> Many]
  /\ activated \in [Message -> 0..MaxVersion]
  /\ stops \in 0..MaxStops

ProcessTyped ==
  svc \in [pc : Places, stage : {"none", "mutation", "control", "diagnostic", "poll"},
           mode : ControlMode, todo : SUBSET [msg : Message, ver : 0..MaxVersion],
           batch : SUBSET Delivery, answer : Answers \cup {"none"}]

\* Every store holds values of its type, and the two ledgers on disk respect
\* delivery_ack_limit.
TypeOK == LedgersTyped /\ StoresTyped /\ WorldTyped /\ ProcessTyped

\* A mutation is executed at most once, however often its comment is delivered
\* again, edited, evicted from the acknowledgements or recovered after a stop.
ExecutedOnce == \A m \in Message : execs[m] <= 1

\* What an accepted mutation leaves on disk is enough to recover it: its
\* receipt never exists without the execution binding of the same envelope
\* (validate_ingress: "a process crash cannot leave an accepted mutation
\* without durable recovery identity").
RecoveryIdentity ==
  \A m \in Message :
    (Kind[m] = "mutation" /\ receipts[m] # 0) => binding[m].ver = receipts[m]

\* A sequence number is single-use: no two accepted messages share one, though
\* the receipt and the watermark are two writes and either can be missing.
SequenceSingleUse ==
  \A m, n \in Message :
    (m # n /\ receipts[m] # 0 /\ receipts[n] # 0) => Sequence[m] # Sequence[n]

\* Nothing is acknowledged that has not been answered on the pull request.
AckedIsAnswered ==
  \A i \in DOMAIN acks : \E a \in Answers : posted[acks[i].msg][a] > 0

\* An executed mutation is only dropped from recovery (its binding PROJECTED)
\* after its result is on the pull request.
ClosedIsAnswered ==
  \A m \in Message :
    (execs[m] > 0 /\ binding[m].status = "PROJECTED") =>
      posted[m]["RESULT"] + posted[m]["COMPLETED"] > 0

Answered(m) == posted[m]["RESULT"] + posted[m]["COMPLETED"] > 0

\* The outbox holds a projection of this mutation that differs from the one
\* its binding would now produce, or that its binding does not name.
Conflicting(m) == binding[m].status = "PENDING" /\ InOutbox(m)

\* A completed Gate whose mutation still owns the run gets its result posted,
\* unless the run moves on between the enqueue and the binding update.
RecoverySettles ==
  \A m \in {k \in Message : Kind[k] = "mutation"} :
    (Evidence(m) /\ Unresolved(m)) ~> (Answered(m) \/ owner # m \/ Conflicting(m))

\* A completed Gate whose mutation still owns the run gets its result posted.
CompletedIsPublished ==
  \A m \in {k \in Message : Kind[k] = "mutation"} :
    (Evidence(m) /\ Unresolved(m)) ~> (Answered(m) \/ owner # m)
=============================================================================
