------------------------ MODULE RemoteOperatorProofs ------------------------
(***************************************************************************)
(* A mutation is executed at most once, its receipt never exists without   *)
(* its binding, and no sequence number is used twice: for every number of  *)
(* messages, edits, stops and ledger limits.                               *)
(*                                                                         *)
(* None of the three is inductive by itself.  The process carries what it  *)
(* has checked from the classification to the claim in its program         *)
(* counter, so the invariant says what is known at each place (Checked),   *)
(* that a loop holds one delivery per message (Working), and that an       *)
(* execution leaves a receipt behind (Recorded).  The ledgers and the      *)
(* outbox play no part: however they are cut, the result is the same.      *)
(***************************************************************************)
EXTENDS RemoteOperator, TLAPS

Bindings == [status : {"NONE", "PENDING", "OUTBOXED", "PROJECTED"},
             ver : 0..MaxVersion, proj : BOOLEAN]

Typed ==
  /\ channel \in [Message -> 0..MaxVersion]
  /\ execs \in [Message -> Many]
  /\ receipts \in [Message -> 0..MaxVersion]
  /\ binding \in [Message -> Bindings]
  /\ ProcessTyped

PollPlaces == {"scan", "handle", "activated", "bound", "received", "accepted", "executing"}

Working ==
  /\ \A d, e \in svc.todo \cup svc.batch : d.msg = e.msg => d = e
  /\ svc.pc # "scan" => svc.batch = {}
  /\ svc.pc \in PollPlaces => svc.stage = "poll"
  /\ svc.stage = "poll" => svc.todo \subseteq Delivery

Recorded ==
  /\ \A m \in Message : execs[m] <= 1
  /\ \A m \in Message : execs[m] > 0 => receipts[m] # 0
  /\ RecoveryIdentity
  /\ SequenceSingleUse

Checked ==
  /\ \A d \in svc.todo : At("bound", d) =>
       /\ receipts[d.msg] = 0
       /\ ~ReceiptReaches(Sequence[d.msg])
       /\ Kind[d.msg] = "mutation" => binding[d.msg].ver = d.ver
  /\ \A d \in svc.todo : svc.pc \in {"received", "accepted"} /\ At(svc.pc, d) =>
       execs[d.msg] = 0 /\ receipts[d.msg] # 0

IInv == Typed /\ Working /\ Recorded /\ Checked

----------------------------------------------------------------------------
(* The forms a step gives the process *)

Fits == ProcessTyped' /\ Working'

\* A process that ends fits.
LEMMA OffFits ==
  ASSUME svc' = Off
  PROVE  Fits
  BY DEF Fits, Off, ProcessTyped, Working, Places, ControlMode, PollPlaces

\* So does one that goes to a place of its stage.
LEMMA GotoFits ==
  ASSUME IInv, NEW pc \in Places, svc' = Goto(pc), pc # "scan", svc.pc # "scan",
         pc \in PollPlaces => svc.stage = "poll"
  PROVE  Fits
  BY DEF Fits, IInv, Typed, Goto, ProcessTyped, Working

\* So does one that takes the next message of its loop.
LEMMA AdvanceFits ==
  ASSUME IInv, NEW pc \in Places, NEW d \in svc.todo, svc' = Advance(pc, d),
         svc.pc = "scan" => pc = "scan",
         pc \in PollPlaces => svc.stage = "poll"
  PROVE  Fits
<1>1. /\ svc'.pc = pc /\ svc'.stage = svc.stage /\ svc'.batch = svc.batch
      /\ svc'.todo = svc.todo \ {d}
  BY DEF IInv, Typed, Advance, ProcessTyped
<1>2. ProcessTyped'
  BY DEF IInv, Typed, Advance, ProcessTyped
<1>3. Working'
  BY <1>1 DEF IInv, Working
<1> QED
  BY <1>2, <1>3 DEF Fits

\* So does one that has chosen an answer.
LEMMA ReplyFits ==
  ASSUME IInv, NEW a \in Answers, svc' = Reply(a), svc.pc # "scan"
  PROVE  Fits
  BY DEF Fits, IInv, Typed, Reply, ProcessTyped, Working, Places, PollPlaces

\* A step that leaves the receipts, the executions and what is bound alone.
LEMMA QuietStep ==
  ASSUME IInv, Fits, channel' = channel, execs' = execs, receipts' = receipts,
         binding' \in [Message -> Bindings],
         \A m \in Message : binding'[m].ver = binding[m].ver,
         svc'.pc \notin {"bound", "received", "accepted"}
  PROVE  IInv'
  BY DEF IInv, Fits, Typed, Recorded, Checked, At, RecoveryIdentity, SequenceSingleUse

\* Closing or outboxing a binding keeps the envelope it is bound to.
LEMMA BindingClosed ==
  ASSUME IInv, NEW m \in Message,
         binding' = [binding EXCEPT ![m] = Projected(@)]
  PROVE  /\ binding' \in [Message -> Bindings]
         /\ \A n \in Message : binding'[n].ver = binding[n].ver
  BY DEF IInv, Typed, Bindings, Projected

\* A step that leaves the bindings alone as well.
LEMMA UnboundStep ==
  ASSUME IInv, Fits, channel' = channel, execs' = execs, receipts' = receipts,
         binding' = binding, svc'.pc \notin {"bound", "received", "accepted"}
  PROVE  IInv'
<1>1. binding' \in [Message -> Bindings]
  BY DEF IInv, Typed
<1> QED
  BY <1>1, QuietStep

\* What the process record of each form says of the program counter.
LEMMA Moves ==
  ASSUME IInv
  PROVE  /\ Off.pc = "off"
         /\ \A pc : Goto(pc).pc = pc
         /\ \A pc, d : Advance(pc, d).pc = pc
         /\ \A a : Reply(a).pc = "publish"
  BY DEF IInv, Typed, ProcessTyped, Off, Goto, Advance, Reply

\* Every delivery at hand is one of a message.
LEMMA MessageOf ==
  ASSUME IInv, NEW d \in svc.todo
  PROVE  d.msg \in Message
  BY DEF IInv, Typed, ProcessTyped

----------------------------------------------------------------------------
(* Recovery and publication never touch a receipt or an execution *)

\* Recovery keeps the invariant.
LEMMA RecoveryStep ==
  ASSUME IInv, NEW d \in svc.todo, Recovery(d)
  PROVE  IInv'
<1> USE DEF At, vars, remote, ledgers, ingress, canonical
<1> d.msg \in Message
  BY MessageOf
<1> /\ "resolve" \in Places /\ "close" \in Places /\ "enqueued" \in Places
    /\ "recorded" \in Places /\ "resolve" \notin PollPlaces /\ "close" \notin PollPlaces
    /\ "enqueued" \notin PollPlaces /\ "recorded" \notin PollPlaces
    /\ {"COMPLETED", "ACTIVATED", "DIAGNOSED"} \subseteq Answers
  BY DEF Places, PollPlaces, Answers
<1>1. CASE ResolveAcked(d)
  <2>1. CASE binding[d.msg].status = "OUTBOXED" /\ outbox[d.msg].pending
    <3>1. svc' = Goto("close") /\ binding' = binding
      BY <1>1, <2>1 DEF ResolveAcked
    <3> QED
      BY <1>1, <3>1, GotoFits, Moves, UnboundStep DEF ResolveAcked
  <2>2. CASE ~(binding[d.msg].status = "OUTBOXED" /\ outbox[d.msg].pending)
    <3>1. svc' = Advance("resolve", d) /\ binding' = [binding EXCEPT ![d.msg] = Projected(@)]
      BY <1>1, <2>2 DEF ResolveAcked
    <3> QED
      BY <1>1, <3>1, AdvanceFits, Moves, BindingClosed, QuietStep DEF ResolveAcked
  <2> QED
    BY <2>1, <2>2
<1>2. CASE CloseResolved(d)
  <2>1. /\ svc.pc = "close" /\ svc' = Advance("resolve", d)
        /\ binding' = [binding EXCEPT ![d.msg] = Projected(@)]
    BY <1>2 DEF CloseResolved
  <2>2. Fits /\ svc'.pc = "resolve"
    BY <2>1, AdvanceFits, Moves
  <2>3. binding' \in [Message -> Bindings] /\ \A n \in Message : binding'[n].ver = binding[n].ver
    BY <2>1, BindingClosed
  <2> QED
    BY <1>2, <2>2, <2>3, QuietStep DEF CloseResolved
<1>3. CASE LeaveUnresolved(d)
  BY <1>3, AdvanceFits, Moves, UnboundStep DEF LeaveUnresolved
<1>4. CASE EnqueueRecovered(d)
  BY <1>4, OffFits, GotoFits, Moves, UnboundStep DEF EnqueueRecovered
<1>5. CASE RecordTerminalProjection(d)
  BY <1>5, GotoFits, Moves, UnboundStep DEF RecordTerminalProjection
<1>6. CASE MarkOutboxed(d)
  <2>1. /\ binding' \in [Message -> Bindings]
        /\ \A n \in Message : binding'[n].ver = binding[n].ver
    BY <1>6 DEF MarkOutboxed, IInv, Typed, Bindings
  <2> QED
    BY <1>6, <2>1, AdvanceFits, Moves, QuietStep DEF MarkOutboxed
<1>7. CASE DeliverCanonical(d)
  BY <1>7, OffFits, ReplyFits, Moves, UnboundStep DEF DeliverCanonical
<1>8. CASE DeliverOther(d)
  BY <1>8, ReplyFits, Moves, UnboundStep DEF DeliverOther
<1> QED
  BY <1>1, <1>2, <1>3, <1>4, <1>5, <1>6, <1>7, <1>8 DEF Recovery

\* Publication keeps the invariant.
LEMMA PublicationStep ==
  ASSUME IInv, NEW d \in svc.todo, Publication(d)
  PROVE  IInv'
<1> USE DEF At, vars, remote, ledgers, ingress, canonical
<1> d.msg \in Message
  BY MessageOf
<1> /\ "finish" \in Places /\ "posted" \in Places /\ "acked" \in Places
    /\ "project" \in Places /\ "deliver" \in Places /\ "handle" \in Places
    /\ "finish" \notin PollPlaces /\ "posted" \notin PollPlaces /\ "acked" \notin PollPlaces
    /\ "project" \notin PollPlaces /\ "deliver" \notin PollPlaces
  BY DEF Places, PollPlaces
<1>1. CASE SuppressPublish(d)
  BY <1>1, GotoFits, Moves, UnboundStep DEF SuppressPublish, Discarded
<1>2. CASE PublishComment(d)
  BY <1>2, GotoFits, Moves, UnboundStep DEF PublishComment
<1>3. CASE SaveDeliveryAck(d)
  BY <1>3, GotoFits, Moves, UnboundStep DEF SaveDeliveryAck
<1>4. CASE DiscardPending(d)
  BY <1>4, GotoFits, Moves, UnboundStep DEF DiscardPending, Discarded
<1>5. CASE MarkPublished(d)
  BY <1>5, GotoFits, AdvanceFits, Moves, UnboundStep DEF MarkPublished
<1>6. CASE MarkProjected(d)
  <2>1. /\ binding' \in [Message -> Bindings]
        /\ \A n \in Message : binding'[n].ver = binding[n].ver
    BY <1>6 DEF MarkProjected, Projected, IInv, Typed, Bindings
  <2> QED
    BY <1>6, <2>1, AdvanceFits, Moves, QuietStep DEF MarkProjected
<1>7. CASE AfterProjectionPublished(d)
  <2>1. /\ binding' \in [Message -> Bindings]
        /\ \A n \in Message : binding'[n].ver = binding[n].ver
    BY <1>7 DEF AfterProjectionPublished, Projected, IInv, Typed, Bindings
  <2> QED
    BY <1>7, <2>1, AdvanceFits, Moves, QuietStep DEF AfterProjectionPublished
<1> QED
  BY <1>1, <1>2, <1>3, <1>4, <1>5, <1>6, <1>7 DEF Publication

----------------------------------------------------------------------------
(* The poll: from the classification of a control to its execution *)

\* BindBeforeReceipt has checked the receipt and the sequence number, and
\* leaves the binding of exactly this envelope.
LEMMA BindStep ==
  ASSUME IInv, NEW d \in svc.todo, BindBeforeReceipt(d)
  PROVE  IInv'
<1> USE DEF At, remote, ledgers, ingress, canonical
<1>m. d.msg \in Message
  BY MessageOf
<1>p. "bound" \in Places
  BY DEF Places
<1>0. /\ svc.pc = "handle" /\ svc.stage = "poll"
      /\ channel' = channel /\ execs' = execs /\ receipts' = receipts
  BY DEF BindBeforeReceipt, Operator, IInv, Working, PollPlaces
<1>v. d.ver \in 0..MaxVersion
  BY <1>0 DEF IInv, Working, Delivery, Version, Typed, ProcessTyped
<1>1. receipts[d.msg] = 0 /\ ~ReceiptReaches(Sequence[d.msg])
  BY DEF BindBeforeReceipt, Classified, SequenceUsed
<1>2. CASE svc' = Off /\ binding' = binding
  BY <1>0, <1>2, OffFits, Moves, UnboundStep
<1>3. CASE svc' = Goto("bound") /\ (Kind[d.msg] # "mutation" \/ binding'[d.msg].ver = d.ver)
           /\ binding' \in [Message -> Bindings]
           /\ \A m \in Message \ {d.msg} : binding'[m] = binding[m]
  <2>1. Fits
    BY <1>0, <1>3, <1>p, GotoFits
  <2>2. svc'.pc = "bound" /\ svc'.todo = svc.todo
    BY <1>3 DEF Goto, IInv, Typed, ProcessTyped
  <2>3. Recorded'
    BY <1>0, <1>1, <1>3, <1>m DEF IInv, Recorded, RecoveryIdentity, SequenceSingleUse
  <2>4. \A e \in svc'.todo : (\A f \in svc'.todo : e.msg <= f.msg) => e = d
    <3> SUFFICES ASSUME NEW e \in svc.todo, \A f \in svc.todo : e.msg <= f.msg PROVE e = d
      BY <2>2
    <3>1. \A f \in svc.todo : d.msg <= f.msg
      BY DEF BindBeforeReceipt, Operator
    <3>2. d.msg <= e.msg /\ e.msg <= d.msg /\ e.msg \in Message
      BY <3>1, MessageOf
    <3>3. d.msg = e.msg
      BY <3>2, <1>m, ServiceAssumption DEF Message
    <3> QED
      BY <3>3 DEF IInv, Working
  <2>5. Checked'
    BY <2>2, <2>4, <1>0, <1>1, <1>3 DEF Checked, ReceiptReaches
  <2>6. Typed'
    BY <2>1, <1>0, <1>3 DEF IInv, Typed, Fits
  <2> QED
    BY <2>1, <2>3, <2>5, <2>6 DEF IInv, Fits
<1>4. CASE Kind[d.msg] # "mutation" \/ binding[d.msg].ver = d.ver
  <2>1. svc' = Goto("bound") /\ binding' = binding
    BY <1>4 DEF BindBeforeReceipt
  <2> QED
    BY <1>3, <1>4, <2>1 DEF IInv, Typed
<1>5. CASE ~(Kind[d.msg] # "mutation" \/ binding[d.msg].ver = d.ver) /\ binding[d.msg].status # "NONE"
  BY <1>2, <1>5 DEF BindBeforeReceipt
<1>6. CASE ~(Kind[d.msg] # "mutation" \/ binding[d.msg].ver = d.ver) /\ ~(binding[d.msg].status # "NONE")
  <2>1. /\ svc' = Goto("bound")
        /\ binding' = [binding EXCEPT ![d.msg] = [status |-> "PENDING", ver |-> d.ver, proj |-> FALSE]]
    BY <1>6 DEF BindBeforeReceipt
  <2>2. [status |-> "PENDING", ver |-> d.ver, proj |-> FALSE] \in Bindings
    BY <1>v DEF Bindings
  <2>3. /\ binding' \in [Message -> Bindings]
        /\ binding'[d.msg].ver = d.ver
        /\ \A m \in Message \ {d.msg} : binding'[m] = binding[m]
    BY <2>1, <2>2, <1>m DEF IInv, Typed
  <2> QED
    BY <1>3, <2>1, <2>3
<1> QED
  BY <1>4, <1>5, <1>6

\* The receipt is new, so its sequence number is above every other one's.
LEMMA ReceiptStep ==
  ASSUME IInv, NEW d \in svc.todo, SaveReceipt(d)
  PROVE  IInv'
<1> USE DEF At, remote, ledgers, ingress, canonical
<1>m. d.msg \in Message
  BY MessageOf
<1>p. "received" \in Places
  BY DEF Places
<1>0. /\ svc.pc = "bound" /\ svc.stage = "poll" /\ svc' = Goto("received")
      /\ receipts' = [receipts EXCEPT ![d.msg] = d.ver]
      /\ channel' = channel /\ execs' = execs /\ binding' = binding
  BY DEF SaveReceipt, IInv, Working, PollPlaces
<1>v. d.ver \in 1..MaxVersion
  BY <1>0 DEF IInv, Working, Delivery, Version
<1>1. /\ receipts[d.msg] = 0
      /\ ~ReceiptReaches(Sequence[d.msg])
      /\ Kind[d.msg] = "mutation" => binding[d.msg].ver = d.ver
  BY <1>0 DEF SaveReceipt, IInv, Checked
<1>2. Fits
  BY <1>0, <1>p, GotoFits
<1>3. receipts' \in [Message -> 0..MaxVersion] /\ receipts'[d.msg] = d.ver
      /\ \A m \in Message \ {d.msg} : receipts'[m] = receipts[m]
  BY <1>0, <1>v, <1>m, ServiceAssumption DEF IInv, Typed
<1>4. Typed'
  BY <1>0, <1>2, <1>3 DEF IInv, Typed, Fits
<1>5. execs[d.msg] = 0
  <2>1. execs[d.msg] \in 0..2 /\ ~(execs[d.msg] > 0)
    BY <1>1, <1>m DEF IInv, Typed, Recorded, Many
  <2> QED
    BY <2>1
<1>6. Recorded'
  <2>1. \A m \in Message : execs'[m] <= 1 /\ (execs'[m] > 0 => receipts'[m] # 0)
    BY <1>0, <1>3, <1>v, <1>5 DEF IInv, Recorded
  <2>2. RecoveryIdentity'
    BY <1>0, <1>1, <1>3 DEF IInv, Recorded, RecoveryIdentity
  <2>3. \A n \in Message \ {d.msg} : receipts[n] # 0 => Sequence[n] # Sequence[d.msg]
    BY <1>1, <1>m, ServiceAssumption DEF ReceiptReaches
  <2>4. SequenceSingleUse'
    BY <1>3, <2>3 DEF IInv, Recorded, SequenceSingleUse
  <2> QED
    BY <2>1, <2>2, <2>4 DEF Recorded
<1>7. Checked'
  <2>1. svc'.pc = "received" /\ svc'.todo = svc.todo
    BY <1>0 DEF Goto, IInv, Typed, ProcessTyped
  <2>2. ASSUME NEW e \in svc.todo, \A f \in svc.todo : e.msg <= f.msg
        PROVE  e.msg = d.msg
    <3>1. d.msg <= e.msg /\ e.msg <= d.msg /\ e.msg \in Message
      BY <2>2, MessageOf DEF SaveReceipt
    <3> QED
      BY <3>1, <1>m, ServiceAssumption DEF Message
  <2> QED
    BY <2>1, <2>2, <1>0, <1>3, <1>5, <1>v DEF Checked
<1> QED
  BY <1>2, <1>4, <1>6, <1>7 DEF IInv, Fits

\* The claim finds a receipt and no earlier execution.
LEMMA ExecuteStep ==
  ASSUME IInv, NEW d \in svc.todo, Execute(d)
  PROVE  IInv'
<1> USE DEF At, remote, ledgers, ingress, canonical
<1>m. d.msg \in Message
  BY MessageOf
<1>p. "executing" \in Places
  BY DEF Places
<1>0. /\ svc.pc = "accepted" /\ svc.stage = "poll" /\ svc' = Goto("executing")
      /\ execs' = [execs EXCEPT ![d.msg] = OneMore(@)]
      /\ channel' = channel /\ receipts' = receipts /\ binding' = binding
  BY DEF Execute, IInv, Working, PollPlaces
<1>1. execs[d.msg] = 0 /\ receipts[d.msg] # 0
  BY <1>0 DEF Execute, IInv, Checked
<1>2. Fits
  BY <1>0, <1>p, GotoFits
<1>3. /\ execs' \in [Message -> Many] /\ execs'[d.msg] = 1
      /\ \A m \in Message \ {d.msg} : execs'[m] = execs[m]
  BY <1>0, <1>1, <1>m DEF IInv, Typed, OneMore, Many
<1>4. Typed'
  BY <1>0, <1>2, <1>3 DEF IInv, Typed, Fits
<1>5. Recorded'
  BY <1>0, <1>1, <1>3 DEF IInv, Recorded, RecoveryIdentity, SequenceSingleUse
<1>6. svc'.pc = "executing"
  BY <1>0, Moves
<1> QED
  BY <1>2, <1>4, <1>5, <1>6 DEF IInv, Fits, Checked

\* The watermark follows the receipt; what was checked of the control stays.
LEMMA WatermarkStep ==
  ASSUME IInv, NEW d \in svc.todo, SaveWatermark(d)
  PROVE  IInv'
<1> USE DEF At, remote, ledgers, ingress, canonical
<1>p. "accepted" \in Places
  BY DEF Places
<1>0. /\ svc.pc = "received" /\ svc.stage = "poll" /\ svc' = Goto("accepted")
      /\ channel' = channel /\ receipts' = receipts /\ binding' = binding /\ execs' = execs
  BY DEF SaveWatermark, IInv, Working, PollPlaces
<1>1. Fits
  BY <1>0, <1>p, GotoFits
<1>2. svc'.pc = "accepted" /\ svc'.todo = svc.todo
  BY <1>0 DEF Goto, IInv, Typed, ProcessTyped
<1>3. Typed' /\ Recorded'
  BY <1>0, <1>1 DEF IInv, Typed, Fits, Recorded, RecoveryIdentity, SequenceSingleUse
<1>4. Checked'
  BY <1>0, <1>2 DEF IInv, Checked
<1> QED
  BY <1>1, <1>3, <1>4 DEF IInv, Fits

\* A received control joins the batch with the version it was read with.
LEMMA ScanStep ==
  ASSUME IInv, NEW d \in svc.todo, ScanControl(d)
  PROVE  IInv'
<1> USE DEF At, remote, ledgers, ingress, canonical
<1>0. /\ svc.pc = "scan" /\ svc.stage = "poll" /\ d \in Delivery
      /\ svc' = [Advance("scan", d) EXCEPT !.batch = @ \cup {d}]
      /\ channel' = channel /\ receipts' = receipts /\ binding' = binding /\ execs' = execs
  BY DEF ScanControl, IInv, Working, PollPlaces
<1>1. /\ svc'.pc = "scan" /\ svc'.stage = "poll" /\ svc'.todo = svc.todo \ {d}
      /\ svc'.batch = svc.batch \cup {d}
  BY <1>0 DEF Advance, IInv, Typed, ProcessTyped
<1>2. ProcessTyped'
  BY <1>0 DEF Advance, IInv, Typed, ProcessTyped, Places
<1>3. Working'
  BY <1>0, <1>1 DEF IInv, Working
<1> QED
  BY <1>0, <1>1, <1>2, <1>3, UnboundStep DEF Fits

\* Every step of the poll keeps the invariant; receipts are made here.
LEMMA PollStep ==
  ASSUME IInv, NEW d \in svc.todo, Poll(d)
  PROVE  IInv'
<1> USE DEF At, remote, ledgers, ingress, canonical
<1>p. {"scan", "handle", "activated", "executing"} \subseteq Places
  BY DEF Places
<1>a. {"RESULT", "DIAGNOSED", "ACTIVATED", "REPLAY", "REFUSED"} \subseteq Answers
  BY DEF Answers
<1>s. svc.pc \in PollPlaces => svc.stage = "poll"
  BY DEF IInv, Working
<1>1. CASE ScanAcked(d)
  BY <1>1, <1>p, <1>s, AdvanceFits, Moves, UnboundStep DEF ScanAcked, PollPlaces
<1>2. CASE ScanControl(d)
  BY <1>2, ScanStep
<1>3. CASE HandleExpired(d)
  BY <1>3, <1>a, OffFits, ReplyFits, Moves, UnboundStep DEF HandleExpired
<1>4. CASE RefuseActivation(d)
  BY <1>4, <1>a, ReplyFits, Moves, UnboundStep DEF RefuseActivation
<1>5. CASE Activate(d)
  BY <1>5, <1>p, <1>s, GotoFits, Moves, UnboundStep DEF Activate, PollPlaces
<1>6. CASE ActivationReportFails(d)
  BY <1>6, <1>a, ReplyFits, Moves, UnboundStep DEF ActivationReportFails
<1>7. CASE EnqueueActivation(d)
  BY <1>7, <1>a, ReplyFits, Moves, UnboundStep DEF EnqueueActivation
<1>8. CASE HandleReplay(d)
  BY <1>8, <1>a, OffFits, ReplyFits, Moves, UnboundStep DEF HandleReplay, Operator
<1>9. CASE HandleRejected(d)
  BY <1>9, <1>a, ReplyFits, Moves, UnboundStep DEF HandleRejected, Operator
<1>10. CASE BindBeforeReceipt(d)
  BY <1>10, BindStep
<1>11. CASE SaveReceipt(d)
  BY <1>11, ReceiptStep
<1>12. CASE SaveWatermark(d)
  BY <1>12, WatermarkStep
<1>13. CASE AnswerByMode(d)
  BY <1>13, <1>a, ReplyFits, Moves, UnboundStep DEF AnswerByMode
<1>14. CASE Diagnose(d)
  BY <1>14, <1>a, ReplyFits, Moves, UnboundStep DEF Diagnose
<1>15. CASE StaleDirective(d)
  BY <1>15, OffFits, Moves, UnboundStep DEF StaleDirective
<1>16. CASE Execute(d)
  BY <1>16, ExecuteStep
<1>17. CASE ExecutionReturns(d)
  BY <1>17, <1>a, ReplyFits, Moves, UnboundStep DEF ExecutionReturns
<1> QED
  BY <1>1, <1>2, <1>3, <1>4, <1>5, <1>6, <1>7, <1>8, <1>9, <1>10, <1>11, <1>12, <1>13,
     <1>14, <1>15, <1>16, <1>17 DEF Poll

----------------------------------------------------------------------------
(* The steps between the loops, and the world outside the process *)

\* The deliveries of a set of messages are one per message.
LEMMA DeliveriesTyped ==
  ASSUME NEW S \in SUBSET Message, NEW f \in [Message -> 0..MaxVersion]
  PROVE  /\ Deliveries(S, f) \in SUBSET [msg : Message, ver : 0..MaxVersion]
         /\ \A d, e \in Deliveries(S, f) : d.msg = e.msg => d = e
         /\ (\A m \in S : f[m] # 0) => Deliveries(S, f) \subseteq Delivery
  BY ServiceAssumption DEF Deliveries, Delivery, Version

\* Bindings name versions.
LEMMA BoundVersionTyped ==
  ASSUME IInv
  PROVE  BoundVersion \in [Message -> 0..MaxVersion]
  BY DEF IInv, Typed, Bindings, BoundVersion

\* A start takes up the unresolved bindings.
LEMMA StartStep ==
  ASSUME IInv, Start
  PROVE  IInv'
<1> DEFINE S == {m \in Message : Unresolved(m)}
<1>1. PICK mode \in Modes :
        svc' = [Off EXCEPT !.pc = "resolve", !.mode = mode, !.todo = Deliveries(S, BoundVersion)]
  BY DEF Start
<1>2. /\ svc'.pc = "resolve" /\ svc'.stage = "none" /\ svc'.batch = {}
      /\ svc'.todo = Deliveries(S, BoundVersion)
  BY <1>1 DEF Off
<1>3. S \in SUBSET Message
  OBVIOUS
<1>4. ProcessTyped'
  BY <1>1, <1>3, DeliveriesTyped, BoundVersionTyped, ServiceAssumption
  DEF ProcessTyped, Off, Places
<1>5. \A d, e \in Deliveries(S, BoundVersion) : d.msg = e.msg => d = e
  BY <1>3, DeliveriesTyped, BoundVersionTyped
<1>6. "resolve" \notin PollPlaces
  BY DEF PollPlaces
<1>7. svc'.todo \cup svc'.batch = Deliveries(S, BoundVersion)
  BY <1>2
<1>8. Working'
  BY <1>2, <1>5, <1>6, <1>7 DEF Working, PollPlaces
<1> QED
  BY <1>2, <1>4, <1>8, UnboundStep DEF Start, Fits, remote, ingress, canonical

\* The next stage takes up its own messages.
LEMMA NextStageStep ==
  ASSUME IInv, NextStage
  PROVE  IInv'
<1> DEFINE posts == Deliveries({m \in Message : channel[m] # 0}, channel)
           held(stage) == Deliveries({m \in Message : Kind[m] = stage /\ outbox[m].pending},
                                     BoundVersion)
           stage == StageAfter(svc.stage)
<1>0. svc.pc \in {"resolve", "deliver"} /\ svc.batch = {}
      /\ channel' = channel /\ receipts' = receipts /\ binding' = binding /\ execs' = execs
  BY DEF NextStage, IInv, Working, remote, ingress, canonical
<1>1. stage \in {"mutation", "control", "diagnostic", "poll"}
  BY DEF StageAfter
<1>2. CASE stage = "poll"
  <2>1. svc' = [svc EXCEPT !.pc = "scan", !.stage = stage, !.todo = posts]
    BY <1>2 DEF NextStage
  <2>2. /\ svc'.pc = "scan" /\ svc'.stage = "poll" /\ svc'.todo = posts /\ svc'.batch = {}
    BY <2>1, <1>0, <1>2 DEF IInv, Typed, ProcessTyped
  <2>3. posts \in SUBSET [msg : Message, ver : 0..MaxVersion] /\ posts \subseteq Delivery
        /\ \A d, e \in posts : d.msg = e.msg => d = e
    BY DeliveriesTyped DEF IInv, Typed
  <2>4. ProcessTyped'
    BY <2>1, <2>3, <1>2 DEF IInv, Typed, ProcessTyped, Places
  <2>5. Working'
    BY <2>2, <2>3 DEF Working
  <2> QED
    BY <2>2, <2>4, <2>5, <1>0, UnboundStep DEF Fits
<1>3. CASE stage # "poll"
  <2>1. svc' = [svc EXCEPT !.pc = "deliver", !.stage = stage, !.todo = held(stage)]
    BY <1>3 DEF NextStage
  <2>2. /\ svc'.pc = "deliver" /\ svc'.stage # "poll" /\ svc'.todo = held(stage) /\ svc'.batch = {}
    BY <2>1, <1>0, <1>3 DEF IInv, Typed, ProcessTyped
  <2>3. held(stage) \in SUBSET [msg : Message, ver : 0..MaxVersion]
        /\ \A d, e \in held(stage) : d.msg = e.msg => d = e
    BY DeliveriesTyped, BoundVersionTyped
  <2>4. ProcessTyped'
    BY <2>1, <2>3, <1>1 DEF IInv, Typed, ProcessTyped, Places
  <2>5. Working'
    BY <2>2, <2>3 DEF Working, PollPlaces
  <2> QED
    BY <2>2, <2>4, <2>5, <1>0, UnboundStep DEF Fits
<1> QED
  BY <1>2, <1>3

\* The end of the scan hands the received batch over.
LEMMA EndScanStep ==
  ASSUME IInv, EndScan
  PROVE  IInv'
<1>0. /\ svc.pc = "scan" /\ svc.stage = "poll"
      /\ svc' = [svc EXCEPT !.pc = "handle", !.todo = svc.batch, !.batch = {}]
      /\ channel' = channel /\ receipts' = receipts /\ binding' = binding /\ execs' = execs
  BY DEF EndScan, IInv, Working, PollPlaces, remote, ingress, canonical
<1>1. /\ svc'.pc = "handle" /\ svc'.stage = "poll" /\ svc'.todo = svc.batch /\ svc'.batch = {}
  BY <1>0 DEF IInv, Typed, ProcessTyped
<1>2. svc.batch \in SUBSET [msg : Message, ver : 0..MaxVersion] /\ svc.batch \subseteq Delivery
  BY ServiceAssumption DEF IInv, Typed, ProcessTyped, Delivery, Version
<1>3. ProcessTyped'
  BY <1>0, <1>2 DEF IInv, Typed, ProcessTyped, Places
<1>4. Working'
  BY <1>1, <1>2 DEF IInv, Working
<1> QED
  BY <1>0, <1>1, <1>3, <1>4, UnboundStep DEF Fits

\* Nothing outside the service touches a receipt or an execution.
LEMMA EnvironmentStep ==
  ASSUME IInv, Environment
  PROVE  IInv'
<1> USE DEF remote, ledgers, ingress, canonical
<1>1. CASE Stop
  BY <1>1, OffFits, Moves, UnboundStep DEF Stop
<1>2. CASE ~Stop
  <2>1. svc' = svc /\ receipts' = receipts /\ binding' = binding /\ execs' = execs
    BY <1>2 DEF Environment, PostComment, EditComment, Expire, GateCompletes, PlanAdvances,
                OwnerDrifts
  <2>2. channel' \in [Message -> 0..MaxVersion]
    <3>1. CASE PostComment
      BY <3>1, ServiceAssumption DEF PostComment, IInv, Typed
    <3>2. CASE EditComment
      <4>1. PICK m \in Message : /\ channel[m] \in 1..(MaxVersion - 1)
                                 /\ channel' = [channel EXCEPT ![m] = @ + 1]
        BY <3>2 DEF EditComment
      <4>2. channel[m] + 1 \in 0..MaxVersion
        BY <4>1, ServiceAssumption
      <4> QED
        BY <4>1, <4>2 DEF IInv, Typed
    <3>3. CASE channel' = channel
      BY <3>3 DEF IInv, Typed
    <3> QED
      BY <1>2, <3>1, <3>2, <3>3
      DEF Environment, Expire, GateCompletes, PlanAdvances, OwnerDrifts
  <2> QED
    BY <2>1, <2>2 DEF IInv, Typed, ProcessTyped, Working, Recorded, Checked, At,
                      RecoveryIdentity, SequenceSingleUse, ReceiptReaches
<1> QED
  BY <1>1, <1>2

----------------------------------------------------------------------------

\* The invariant is inductive.
LEMMA IngressStep == IInv /\ [Next]_vars => IInv'
<1> SUFFICES ASSUME IInv, [Next]_vars PROVE IInv'
  OBVIOUS
<1>1. CASE Environment
  BY <1>1, EnvironmentStep
<1>2. CASE Start
  BY <1>2, StartStep
<1>3. CASE NextStage
  BY <1>3, NextStageStep
<1>4. CASE EndScan
  BY <1>4, EndScanStep
<1>5. CASE PollDone
  BY <1>5, OffFits, Moves, UnboundStep DEF PollDone, remote, ingress, canonical
<1>6. CASE \E d \in svc.todo : Recovery(d) \/ Publication(d) \/ Poll(d)
  BY <1>6, RecoveryStep, PublicationStep, PollStep
<1>7. CASE UNCHANGED vars
  BY <1>7 DEF vars, remote, ingress, canonical, IInv, Typed, ProcessTyped, Working, Recorded,
              Checked, At, RecoveryIdentity, SequenceSingleUse, ReceiptReaches
<1> QED
  BY <1>1, <1>2, <1>3, <1>4, <1>5, <1>6, <1>7 DEF Next, Service

\* It holds initially.
LEMMA IngressInit == Init => IInv
<1> SUFFICES ASSUME Init PROVE IInv
  OBVIOUS
<1>1. ProcessTyped /\ Working
  BY DEF Init, Off, ProcessTyped, Working, Places, ControlMode, PollPlaces
<1>2. Unbound \in Bindings
  BY ServiceAssumption DEF Unbound, Bindings
<1>3. Typed
  BY <1>1, <1>2, ServiceAssumption DEF Init, Typed, Many
<1>4. Recorded /\ Checked
  BY DEF Init, Off, Recorded, Checked, At, RecoveryIdentity, SequenceSingleUse
<1> QED
  BY <1>1, <1>3, <1>4 DEF IInv

\* It holds in every reachable state.
LEMMA IngressInvariant == Spec => []IInv
  BY IngressInit, IngressStep, PTL DEF Spec

\* execute_authorized_canonical is called at most once for a message.
THEOREM MutationsExecuteOnce == Spec => []ExecutedOnce
<1>1. IInv => ExecutedOnce
  BY DEF IInv, Recorded, ExecutedOnce
<1> QED
  BY <1>1, IngressInvariant, PTL

\* An accepted mutation always has the recovery binding of its envelope:
\* validate_ingress runs before_receipt_commit before record_received.
THEOREM ReceiptsAreBound == Spec => []RecoveryIdentity
<1>1. IInv => RecoveryIdentity
  BY DEF IInv, Recorded
<1> QED
  BY <1>1, IngressInvariant, PTL

\* classify_delivery accepts a sequence number once per channel.
THEOREM SequencesAreSingleUse == Spec => []SequenceSingleUse
<1>1. IInv => SequenceSingleUse
  BY DEF IInv, Recorded
<1> QED
  BY <1>1, IngressInvariant, PTL
=============================================================================
