---------------------- MODULE FullPlanContinuityProofs ----------------------
(***************************************************************************)
(* What survives the crashes, waits, operations and damages of a FULL_PLAN *)
(* run: the durable queue, the dispatch intent, the count of executions    *)
(* and of retries, the fencing of owners, and the plan contract itself.    *)
(* For every number of Gates, supervisors, retries and migrations.         *)
(***************************************************************************)
EXTENDS FullPlanProofs

-----------------------------------------------------------------------------
(* The invariant *)

\* The Gate a generation is at.
Front(g) == g.completed + 1

\* The queue of every generation, damaged or recovered, in file or in memory: one
\* item for each Gate up to the first that is not complete, in plan order.
Shape(g) ==
    /\ \A i \in DOMAIN g.queue : g.queue[i].gate = i
    /\ \A i \in DOMAIN g.queue : i <= g.completed => g.queue[i].status = "COMPLETED"
    /\ \/ g.completed = N /\ Len(g.queue) = N
       \/ /\ g.completed < N /\ Len(g.queue) = Front(g) /\ g.current = Front(g)
          /\ g.queue[Front(g)].status # "COMPLETED"

\* The state of a generation says what its queue says: while it is not terminal
\* its Gate is queued, and under way exactly when the state is.
Live(g) ==
    /\ g.state \notin TERMINAL_STATES =>
         /\ g.completed < N
         /\ g.queue[Front(g)].status \in
              IF Interrupted(g) THEN {"DISPATCHED", "RUNNING"} ELSE {"READY"}
    /\ g.reason = "MIGRATED_TO_SUCCESSOR" => g.state = "CANCELLED"

Shaped == /\ Shape(primary.gen) /\ Shape(previous.gen)
          /\ \A p \in Supervisors : Shape(mem[p])
          /\ primary.kind # "absent"

\* A supervisor past its startup holds the durable generation, which says where
\* the supervisor is; a live process is for the Gate it names.
LabelState(l, s) ==
    /\ l = "loop" => s \notin {"DISPATCHED", "RUNNING", "VERIFYING"}
    /\ l \in {"dispatched", "forked"} => s = "DISPATCHED"
    /\ l = "running" => s = "RUNNING"
    /\ l = "verifying" => s = "VERIFYING"

InStep ==
    \A p \in Supervisors :
        /\ pc[p] \notin {"idle", "start"} => mem[p] = primary.gen
        /\ LabelState(pc[p], primary.gen.state)
        /\ worker[p].phase = "running" =>
             Interrupted(primary.gen) /\ worker[p].gate = Front(primary.gen)

\* Executions from scratch and retries, against the queue.
Counted(q) ==
    /\ \A k \in Gates : fresh[k] <= 1 /\ retries[k] <= RetryBudget
    /\ \A k \in Gates : k \notin DOMAIN q => fresh[k] = 0 /\ retries[k] = 0
    /\ \A k \in DOMAIN q : retries[k] < q[k].attempt
    /\ \A k \in DOMAIN q : q[k].status = "READY" /\ ~q[k].resume => fresh[k] = 0

FirstFork ==
    \A p \in Supervisors :
        pc[p] = "dispatched" /\ ~mem[p].queue[Front(mem[p])].resume
            => fresh[Front(mem[p])] = 0

Fenced ==
    /\ \A h \in tokens : h.token # NoToken /\ h.token.epoch <= primary.gen.owner.epoch
    /\ transaction # NoToken => lock = Transaction /\ primary.gen.owner = transaction

ClaimedOnce == directive.claims <= 1 /\ (directive.claims = 1 => "primary" \notin directive.at)

\* What holds as long as no file was damaged.
Undamaged ==
    corruptions = 0 =>
        /\ primary.kind = "ok" /\ Live(primary.gen)
        /\ InStep /\ Counted(primary.gen.queue) /\ FirstFork /\ Fenced /\ ClaimedOnce

\* A result is on its way only where the supervisor will look for it.
ResultsHeld ==
    \A p \in Supervisors :
        /\ worker[p].phase = "exited" => pc[p] \in {"forked", "running"}
        /\ pc[p] \in {"start", "loop", "dispatched", "verifying"} => worker[p].phase = "none"
        /\ outcome[p] # "NONE" => pc[p] = "verifying"

\* The files that an observer's digest is the digest of.
Witnessed ==
    /\ "primary" \in observed.at => primary.gen.wait = observed.reason
    /\ "previous" \in observed.at => previous.gen.wait = observed.reason

\* Around a live process, whichever file is left names its Gate.
AtGate(g, k) == g.current = k /\ Front(g) = k

Guarded(k) ==
    /\ primary.kind = "ok" => AtGate(primary.gen, k)
    /\ (corruptions <= 1 /\ "drifted" \notin {primary.kind, previous.kind}) =>
         (primary.kind # "ok" \/ corruptions = 0 =>
            previous.kind = "ok" /\ AtGate(previous.gen, k))

GateKept ==
    \A p \in Supervisors :
        /\ pc[p] \in {"dispatched", "forked", "running"} =>
             AtGate(mem[p], Front(mem[p])) /\ Guarded(Front(mem[p]))
        /\ worker[p].phase = "running" =>
             /\ Guarded(worker[p].gate)
             /\ pc[p] # "idle" => worker[p].gate = Front(mem[p])

IInv == Shaped /\ Undamaged /\ ResultsHeld /\ Witnessed /\ GateKept

-----------------------------------------------------------------------------
(* Generations *)

\* One generation follows another on the same Gate: nothing but the item of that
\* Gate has moved, its attempts have not decreased, and an item that was under
\* way is ready again only to be resumed.
Follows(g, h) ==
    /\ h.completed = g.completed /\ h.current = g.current
    /\ DOMAIN h.queue = DOMAIN g.queue
    /\ \A i \in DOMAIN g.queue :
         /\ h.queue[i].attempt >= g.queue[i].attempt
         /\ h.queue[i].status = "READY" /\ ~h.queue[i].resume =>
              g.queue[i].status = "READY" /\ ~g.queue[i].resume

Moves(g, h) == Shape(h) /\ Follows(g, h) /\ h.owner = g.owner

\* A generation that leaves its Gate waiting, queued or closed.
Rests(g, h) ==
    g.reason # "MIGRATED_TO_SUCCESSOR" => Live(h) /\ ~Interrupted(h)

\* The parts of a generation.
LEMMA Parts ==
    ASSUME NEW g \in Generation
    PROVE  /\ g.queue \in Seq(Item) /\ Len(g.queue) \in Nat /\ DOMAIN g.queue = 1 .. Len(g.queue)
           /\ g.completed \in 0 .. N /\ g.current \in 0 .. N /\ N \in Nat
           /\ g.owner \in Token /\ g.owner.epoch \in Nat /\ g.epoch \in Nat
           /\ \A i \in DOMAIN g.queue : g.queue[i] \in Item /\ g.queue[i].attempt \in Nat
  <1>1. g.queue \in Seq(Item) /\ g.completed \in 0 .. N /\ g.current \in 0 .. N /\ N \in Nat
        /\ g.owner \in Token /\ g.epoch \in Nat
    BY PlanAssumption DEF Generation
  <1>2. \A i \in DOMAIN g.queue : g.queue[i] \in Item
    BY ItemOfQueue
  <1> QED
    BY <1>1, <1>2 DEF Item, Token

\* An item that is not complete is that of the first Gate that is not.
LEMMA AtFront ==
    ASSUME NEW g \in Generation, Shape(g), NEW i \in DOMAIN g.queue,
           g.queue[i].status # "COMPLETED"
    PROVE  /\ i = Front(g) /\ g.completed < N /\ g.current = Front(g) /\ Front(g) \in Gates
           /\ g.queue[i].gate = i /\ DOMAIN g.queue = 1 .. Front(g)
  <1>1. i > g.completed
    BY Parts DEF Shape
  <1>2. ~(g.completed = N /\ Len(g.queue) = N)
    BY <1>1, Parts
  <1>3. g.completed < N /\ Len(g.queue) = Front(g) /\ g.current = Front(g)
    BY <1>2 DEF Shape
  <1>4. i = Front(g) /\ DOMAIN g.queue = 1 .. Front(g)
    BY <1>1, <1>3, Parts DEF Front
  <1> QED
    BY <1>3, <1>4, Parts DEF Shape, Front, Gates

\* In particular the active item is.
LEMMA ActiveAtFront ==
    ASSUME NEW g \in Generation, Shape(g), NEW i \in DOMAIN g.queue, IsActive(g, i)
    PROVE  /\ i = Front(g) /\ g.completed < N /\ g.current = Front(g) /\ Front(g) \in Gates
           /\ g.queue[i].gate = i /\ DOMAIN g.queue = 1 .. Front(g)
           /\ g.queue[i].status \notin DoneItem
  BY AtFront DEF IsActive, DoneItem

\* An item at the front that is not done is the active one.
LEMMA FrontIsActive ==
    ASSUME NEW g \in Generation, Shape(g), g.completed < N,
           g.queue[Front(g)].status \notin DoneItem
    PROVE  Front(g) \in DOMAIN g.queue /\ IsActive(g, Front(g)) /\ ~NoActive(g)
           /\ g.queue[Front(g)].gate = Front(g)
  <1>1. Len(g.queue) = Front(g)
    BY Parts DEF Shape
  <1>2. Front(g) \in DOMAIN g.queue
    BY <1>1, Parts DEF Front
  <1>3. \A j \in DOMAIN g.queue : j < Front(g) => g.queue[j].status \in DoneItem
    BY Parts DEF Shape, Front, DoneItem
  <1> QED
    BY <1>2, <1>3 DEF IsActive, NoActive, Shape

\* A write that leaves the queue alone.
LEMMA PlainWrite ==
    ASSUME NEW g \in Generation, NEW h \in Generation, Shape(g), h.queue = g.queue,
           h.completed = g.completed, h.current = g.current
    PROVE  Shape(h) /\ Follows(g, h)
  <1>1. Shape(h)
    BY DEF Shape, Front
  <1>2. Follows(g, h)
    BY Parts DEF Follows
  <1> QED
    BY <1>1, <1>2

\* A write of the item at the front.
LEMMA ItemWrite ==
    ASSUME NEW g \in Generation, NEW h \in Generation, Shape(g), NEW i \in DOMAIN g.queue,
           NEW it \in Item, g.queue[i].status # "COMPLETED", it.status # "COMPLETED",
           it.gate = g.queue[i].gate, it.attempt >= g.queue[i].attempt,
           it.status = "READY" /\ ~it.resume => g.queue[i].status = "READY" /\ ~g.queue[i].resume,
           h.queue = [g.queue EXCEPT ![i] = it],
           h.completed = g.completed, h.current = g.current
    PROVE  /\ Shape(h) /\ Follows(g, h) /\ h.queue[i] = it
           /\ i = Front(g) /\ Front(h) = Front(g) /\ g.completed < N
  <1>1. /\ i = Front(g) /\ g.completed < N /\ g.current = Front(g)
        /\ g.queue[i].gate = i /\ DOMAIN g.queue = 1 .. Front(g)
    BY AtFront
  <1>2. Front(h) = Front(g)
    BY DEF Front
  <1>3. /\ DOMAIN h.queue = DOMAIN g.queue /\ h.queue[i] = it
        /\ \A j \in DOMAIN g.queue : j # i => h.queue[j] = g.queue[j]
    BY Parts
  <1>4. Len(h.queue) = Front(h)
    BY <1>1, <1>2, <1>3, Parts
  <1>5. Shape(h)
    <2>1. \A j \in DOMAIN h.queue : h.queue[j].gate = j
      BY <1>1, <1>3 DEF Shape
    <2>2. \A j \in DOMAIN h.queue : j <= h.completed => h.queue[j].status = "COMPLETED"
      BY <1>1, <1>3, Parts DEF Shape, Front
    <2> QED
      BY <1>1, <1>2, <1>3, <1>4, <2>1, <2>2 DEF Shape
  <1>6. Follows(g, h)
    BY <1>3, Parts DEF Follows
  <1> QED
    BY <1>1, <1>2, <1>3, <1>5, <1>6

\* An item put back to be resumed, as the same or the next attempt.
LEMMA ResumableItem ==
    ASSUME NEW it \in Item
    PROVE  /\ Resumable(it) \in Item /\ Resumable(it).status = "READY"
           /\ Resumable(it).resume /\ Resumable(it).gate = it.gate
           /\ Resumable(it).attempt = it.attempt /\ it.attempt \in Nat
           /\ NextAttempt(it) \in Item /\ NextAttempt(it).status = "READY"
           /\ NextAttempt(it).resume /\ NextAttempt(it).gate = it.gate
           /\ NextAttempt(it).attempt = it.attempt + 1
  <1>1. /\ Resumable(it) \in Item /\ Resumable(it).status = "READY"
        /\ Resumable(it).resume /\ Resumable(it).gate = it.gate
        /\ Resumable(it).attempt = it.attempt /\ it.attempt \in Nat
    BY DEF Resumable, Item, QUEUE_STATES
  <1> DEFINE r == Resumable(it)
  <1>2. NextAttempt(it) = [r EXCEPT !.attempt = r.attempt + 1]
    BY DEF NextAttempt
  <1> HIDE DEF r
  <1>3. r \in Item
    BY <1>1 DEF r
  <1>4. /\ NextAttempt(it) \in Item /\ NextAttempt(it).status = r.status
        /\ NextAttempt(it).resume = r.resume /\ NextAttempt(it).gate = r.gate
        /\ NextAttempt(it).attempt = r.attempt + 1
    BY <1>2, <1>3 DEF Item
  <1> QED
    BY <1>1, <1>4 DEF r

\* A write that puts the item at the front back to be resumed.
LEMMA ResumableWrite ==
    ASSUME NEW g \in Generation, NEW h \in Generation, Shape(g), NEW i \in DOMAIN g.queue,
           g.queue[i].status # "COMPLETED",
           \/ h.queue = [g.queue EXCEPT ![i] = Resumable(g.queue[i])]
           \/ h.queue = [g.queue EXCEPT ![i] = NextAttempt(g.queue[i])],
           h.completed = g.completed, h.current = g.current
    PROVE  /\ Shape(h) /\ Follows(g, h) /\ i = Front(g) /\ Front(h) = Front(g)
           /\ h.completed < N /\ h.queue[Front(h)].status = "READY"
           /\ h.queue = [g.queue EXCEPT ![i] = NextAttempt(g.queue[i])] =>
                h.queue[i].attempt = g.queue[i].attempt + 1
  <1> DEFINE r == Resumable(g.queue[i])
  <1> DEFINE n == NextAttempt(g.queue[i])
  <1>1. g.queue[i] \in Item
    BY ItemOfQueue
  <1>2. /\ r \in Item /\ r.status = "READY" /\ r.resume /\ r.gate = g.queue[i].gate
        /\ r.attempt = g.queue[i].attempt /\ g.queue[i].attempt \in Nat
        /\ n \in Item /\ n.status = "READY" /\ n.resume /\ n.gate = g.queue[i].gate
        /\ n.attempt = g.queue[i].attempt + 1
    BY <1>1, ResumableItem
  <1> HIDE DEF r, n
  <1>3. CASE h.queue = [g.queue EXCEPT ![i] = r]
    <2>1. /\ Shape(h) /\ Follows(g, h) /\ h.queue[i] = r
          /\ i = Front(g) /\ Front(h) = Front(g) /\ g.completed < N
      BY <1>2, <1>3, ItemWrite
    <2>2. h.queue = [g.queue EXCEPT ![i] = n] => h.queue[i] = n
      BY Parts
    <2> QED
      BY <1>2, <2>1, <2>2 DEF n
  <1>4. CASE h.queue = [g.queue EXCEPT ![i] = n]
    <2>1. /\ Shape(h) /\ Follows(g, h) /\ h.queue[i] = n
          /\ i = Front(g) /\ Front(h) = Front(g) /\ g.completed < N
      BY <1>2, <1>4, ItemWrite
    <2> QED
      BY <1>2, <2>1
  <1> QED
    BY <1>3, <1>4 DEF r, n

\* A write of the status of one item.
Restated(g, h, i, s) ==
    /\ h.queue = [g.queue EXCEPT ![i] = [g.queue[i] EXCEPT !.status = s]]
    /\ h.completed = g.completed /\ h.current = g.current

\* The status written is that of the front item, and keeps the shape of the queue.
LEMMA StatusWrite ==
    ASSUME NEW g \in Generation, NEW h \in Generation, Shape(g), NEW i \in DOMAIN g.queue,
           g.queue[i].status # "COMPLETED",
           NEW s \in {"DISPATCHED", "RUNNING", "BLOCKED", "CANCELLED"}, Restated(g, h, i, s)
    PROVE  /\ Shape(h) /\ Follows(g, h) /\ i = Front(g) /\ Front(h) = Front(g)
           /\ h.completed < N /\ h.queue[Front(h)].status = s
           /\ h.queue[Front(h)].resume = g.queue[i].resume
  <1> DEFINE it == [g.queue[i] EXCEPT !.status = s]
  <1>1. g.queue[i] \in Item
    BY ItemOfQueue
  <1>2. /\ it \in Item /\ it.status = s /\ it.resume = g.queue[i].resume
        /\ it.gate = g.queue[i].gate /\ it.attempt = g.queue[i].attempt
        /\ g.queue[i].attempt \in Nat
    BY <1>1 DEF Item, QUEUE_STATES
  <1> HIDE DEF it
  <1>3. /\ Shape(h) /\ Follows(g, h) /\ h.queue[i] = it
        /\ i = Front(g) /\ Front(h) = Front(g) /\ g.completed < N
    <2>1. /\ h.queue = [g.queue EXCEPT ![i] = it]
          /\ h.completed = g.completed /\ h.current = g.current
      BY DEF it, Restated
    <2> QED
      BY <1>2, <2>1, ItemWrite
  <1>4. h.completed = g.completed
    BY DEF Restated
  <1> QED
    BY <1>2, <1>3, <1>4

-----------------------------------------------------------------------------
(* What the supervisor and the operations write *)

\* The states, told apart.
LEMMA States ==
    /\ TERMINAL_STATES \intersect WAIT_STATES = {}
    /\ \A s \in {"DISPATCHED", "RUNNING", "VERIFYING", "READY", "RECOVERING"} :
         s \notin TERMINAL_STATES /\ s \notin WAIT_STATES
    /\ "BLOCKED" \in TERMINAL_STATES /\ "CANCELLED" \in TERMINAL_STATES
    /\ "COMPLETED" \in TERMINAL_STATES
  BY DEF TERMINAL_STATES, WAIT_STATES

\* A failure that waits.
LEMMA WaitWrite ==
    ASSUME NEW g \in Generation, Shape(g), NEW i \in DOMAIN g.queue, IsActive(g, i),
           NEW w \in WAIT_STATES, NEW why \in VerdictReasons
    PROVE  LET h == FailedToWait(g, i, w, why) IN
           /\ h \in Generation /\ Moves(g, h) /\ Rests(g, h)
           /\ h.state = w /\ h.reason = g.reason
  <1> DEFINE h == FailedToWait(g, i, w, why)
  <1>1. h \in Generation
    BY FailedType
  <1>2. /\ h.queue = [g.queue EXCEPT ![i] = Resumable(g.queue[i])]
        /\ h.completed = g.completed /\ h.current = g.current /\ h.owner = g.owner
        /\ h.state = w /\ h.reason = g.reason
    BY DEF FailedToWait, Generation
  <1> HIDE DEF h
  <1>3. /\ Shape(h) /\ Follows(g, h) /\ h.completed < N /\ h.queue[Front(h)].status = "READY"
    BY <1>1, <1>2, ActiveAtFront, ResumableWrite DEF DoneItem
  <1>4. ~Interrupted(h)
    BY <1>2, States DEF Interrupted
  <1>5. Rests(g, h)
    BY <1>2, <1>3, <1>4 DEF Rests, Live
  <1> QED
    BY <1>1, <1>2, <1>3, <1>5 DEF h, Moves

\* A failure that is retried.
LEMMA RetryWrite ==
    ASSUME NEW g \in Generation, Shape(g), NEW i \in DOMAIN g.queue, IsActive(g, i)
    PROVE  LET h == Retried(g, i) IN
           /\ h \in Generation /\ Moves(g, h) /\ Rests(g, h)
           /\ h.queue[i].attempt = g.queue[i].attempt + 1
  <1> DEFINE h == Retried(g, i)
  <1>1. h \in Generation
    BY ResumableSet DEF Retried, Generation, ALL_STATES, ACTIVE_STATES, FailureClasses
  <1>2. /\ h.queue = [g.queue EXCEPT ![i] = NextAttempt(g.queue[i])]
        /\ h.completed = g.completed /\ h.current = g.current /\ h.owner = g.owner
        /\ h.state = "RECOVERING" /\ h.reason = g.reason
    BY DEF Retried, Generation
  <1> HIDE DEF h
  <1>3. /\ Shape(h) /\ Follows(g, h) /\ h.completed < N /\ h.queue[Front(h)].status = "READY"
        /\ h.queue[i].attempt = g.queue[i].attempt + 1
    <2>1. g.queue[i].status # "COMPLETED"
      BY ActiveAtFront DEF DoneItem
    <2> QED
      BY <1>1, <1>2, <2>1, ResumableWrite
  <1>4. ~Interrupted(h)
    BY <1>2 DEF Interrupted
  <1>5. Rests(g, h)
    BY <1>2, <1>3, <1>4 DEF Rests, Live
  <1> QED
    BY <1>1, <1>2, <1>3, <1>5 DEF h, Moves

\* A failure that is quarantined.
LEMMA QuarantineWrite ==
    ASSUME NEW g \in Generation, Shape(g), NEW i \in DOMAIN g.queue, IsActive(g, i),
           NEW c \in FailureClasses,
           NEW why \in {"ARTIFACT_CONTRACT_RECOVERY_REQUIRED", "RETRY_BUDGET_EXHAUSTED"}
    PROVE  LET h == Quarantined(g, i, c, why) IN Moves(g, h) /\ Rests(g, h)
  <1> DEFINE h == Quarantined(g, i, c, why)
  <1>1. [g EXCEPT !.queue[i].status = "BLOCKED"] \in Generation
    BY StatusSet DEF QUEUE_STATES
  <1>2. h \in Generation
    BY <1>1 DEF Quarantined, Generation, ALL_STATES, TERMINAL_STATES, TerminalReasons
  <1>3. /\ h.queue = [g.queue EXCEPT ![i] = [g.queue[i] EXCEPT !.status = "BLOCKED"]]
        /\ h.completed = g.completed /\ h.current = g.current /\ h.owner = g.owner
        /\ h.state = "BLOCKED" /\ h.reason = why
    BY DEF Quarantined, Generation
  <1> HIDE DEF h
  <1>4. Shape(h) /\ Follows(g, h)
    <2>1. Restated(g, h, i, "BLOCKED")
      BY <1>3 DEF Restated
    <2> QED
      BY <1>2, <2>1, ActiveAtFront, StatusWrite DEF DoneItem
  <1>5. Rests(g, h)
    BY <1>3, States DEF Rests, Live, Interrupted
  <1> QED
    BY <1>3, <1>4, <1>5 DEF h, Moves

\* A failure of any class; one that is retried is the next attempt.
LEMMA FailedWrite ==
    ASSUME NEW g \in Generation, Shape(g), NEW i \in DOMAIN g.queue, IsActive(g, i),
           NEW c \in FailureClasses
    PROVE  LET h == Failed(g, i, c) IN
           /\ h \in Generation /\ Moves(g, h) /\ Rests(g, h)
           /\ c = "EXECUTION_FAILURE" /\ CanRetry(g, i) =>
                h.queue[i].attempt = g.queue[i].attempt + 1
  <1>1. Failed(g, i, c) \in Generation
    BY FailedType
  <1>2. CASE c = "PROVIDER_FAILURE"
    <2> DEFINE w == FailedToWait(g, i, "WAITING_PROVIDER", "LOW_RESOURCE_BACKPRESSURE")
    <2>1. w \in Generation /\ Moves(g, w) /\ Rests(g, w) /\ w.state = "WAITING_PROVIDER"
          /\ w.reason = g.reason
      BY WaitWrite DEF WAIT_STATES, VerdictReasons
    <2>2. Failed(g, i, c) = [w EXCEPT !.reason = "NONE"]
      BY <1>2 DEF Failed, ProviderWait, FailedToWait, WaitReasonFor, Generation
    <2> HIDE DEF w
    <2> DEFINE h == [w EXCEPT !.reason = "NONE"]
    <2>3. /\ h \in Generation /\ h.queue = w.queue /\ h.completed = w.completed
          /\ h.current = w.current /\ h.owner = w.owner /\ h.state = w.state
          /\ h.reason = "NONE"
      BY <2>1 DEF Generation, TerminalReasons
    <2> HIDE DEF h
    <2>4. Moves(g, h)
      BY <2>1, <2>3 DEF Moves, Shape, Follows, Front
    <2>5. Rests(g, h)
      BY <2>1, <2>3, States DEF Rests, Live, Front, Interrupted
    <2> QED
      BY <1>1, <1>2, <2>2, <2>4, <2>5 DEF h
  <1>3. CASE c = "ARTIFACT_CONTRACT_FAILURE"
    <2>1. Failed(g, i, c) = Quarantined(g, i, c, "ARTIFACT_CONTRACT_RECOVERY_REQUIRED")
      BY <1>3 DEF Failed
    <2> QED
      BY <1>1, <1>3, <2>1, QuarantineWrite
  <1>4. CASE c = "EXECUTION_FAILURE" /\ CanRetry(g, i)
    <2>1. Failed(g, i, c) = Retried(g, i)
      BY <1>4 DEF Failed
    <2> QED
      BY <2>1, RetryWrite
  <1>5. CASE c = "EXECUTION_FAILURE" /\ ~CanRetry(g, i)
    <2>1. Failed(g, i, c) = Quarantined(g, i, c, "RETRY_BUDGET_EXHAUSTED")
      BY <1>5 DEF Failed
    <2> QED
      BY <1>1, <1>5, <2>1, QuarantineWrite
  <1> QED
    BY <1>2, <1>3, <1>4, <1>5 DEF FailureClasses

\* A Gate that completes: the next one is queued in the same write.
LEMMA CompletedWrite ==
    ASSUME NEW g \in Generation, Shape(g), NEW i \in DOMAIN g.queue, IsActive(g, i)
    PROVE  LET h == GateCompleted(g, i) IN
           /\ h \in Generation /\ Shape(h) /\ Rests(g, h)
           /\ h.owner = g.owner /\ h.completed = g.completed + 1
           /\ DOMAIN h.queue \subseteq 1 .. (Front(g) + 1)
           /\ Front(g) \in DOMAIN h.queue
           /\ \A k \in 1 .. Front(g) :
                /\ k \in DOMAIN h.queue /\ k \in DOMAIN g.queue
                /\ h.queue[k].attempt = g.queue[k].attempt
                /\ h.queue[k].status = "READY" => g.queue[k].status = "READY"
                /\ h.queue[k].resume = g.queue[k].resume
           /\ \A k \in DOMAIN h.queue : k \notin DOMAIN g.queue => h.queue[k].attempt = 1
  <1>1. /\ i = Front(g) /\ g.completed < N /\ g.current = Front(g) /\ Front(g) \in Gates
        /\ g.queue[i].gate = i /\ DOMAIN g.queue = 1 .. Front(g) /\ g.completed \in 0 .. N
        /\ N \in Nat /\ g.queue \in Seq(Item)
    BY ActiveAtFront, Parts
  <1>2. ~(g.queue[i].gate <= g.completed)
    BY <1>1 DEF Front
  <1> DEFINE it == [g.queue[i] EXCEPT !.status = "COMPLETED"]
             q == [g.queue EXCEPT ![i] = it]
             d == [g EXCEPT !.queue = q, !.lease = 0, !.error = "EXECUTION_FAILURE",
                            !.completed = g.completed + 1]
             h == GateCompleted(g, i)
             n == QueueItem(Front(g) + 1)
  <1>3. h \in Generation
    BY GateCompletedType
  <1>4. d = [g EXCEPT !.queue[i].status = "COMPLETED", !.lease = 0,
                      !.error = "EXECUTION_FAILURE", !.completed = g.completed + 1]
    BY <1>1 DEF Generation
  <1>5. h = IF d.completed = N
            THEN [d EXCEPT !.state = "COMPLETED", !.current = 0,
                           !.reason = "ALL_GATES_COMPLETED"]
            ELSE [d EXCEPT !.current = d.completed + 1, !.state = "READY",
                           !.queue = Append(d.queue, QueueItem(d.completed + 1))]
    BY <1>2, <1>4 DEF GateCompleted
  <1>6. g.queue[i] \in Item /\ it \in Item /\ it.status = "COMPLETED" /\ it.gate = i
        /\ it.attempt = g.queue[i].attempt /\ it.resume = g.queue[i].resume
    BY <1>1, ItemOfQueue DEF Item, QUEUE_STATES
  <1> HIDE DEF it
  <1>7. /\ q \in Seq(Item) /\ DOMAIN q = 1 .. Front(g) /\ q[i] = it /\ Len(q) = Front(g)
        /\ \A k \in 1 .. Front(g) : k # i => q[k] = g.queue[k]
    <2>1. q \in Seq(Item)
      BY <1>1, <1>6, ItemReplaced
    <2>2. DOMAIN q = 1 .. Front(g) /\ q[i] = it
          /\ \A k \in 1 .. Front(g) : k # i => q[k] = g.queue[k]
      BY <1>1
    <2> QED
      BY <1>1, <2>1, <2>2 DEF Front
  <1> HIDE DEF q
  <1>8. /\ d.queue = q /\ d.completed = Front(g) /\ d.owner = g.owner /\ d.reason = g.reason
    BY <1>1 DEF Generation, Front
  <1>9. \A k \in 1 .. Front(g) :
          /\ q[k].attempt = g.queue[k].attempt /\ q[k].resume = g.queue[k].resume
          /\ q[k].status = "COMPLETED" /\ q[k].gate = k
    <2> TAKE k \in 1 .. Front(g)
    <2>1. CASE k = i
      BY <1>6, <1>7, <2>1
    <2>2. CASE k # i
      <3>1. k <= g.completed /\ k \in DOMAIN g.queue
        BY <1>1, <2>2 DEF Front
      <3> QED
        BY <1>7, <2>2, <3>1 DEF Shape
    <2> QED
      BY <2>1, <2>2
  <1>10. CASE Front(g) = N
    <2>1. h = [d EXCEPT !.state = "COMPLETED", !.current = 0, !.reason = "ALL_GATES_COMPLETED"]
      BY <1>5, <1>8, <1>10
    <2>2. /\ h.queue = q /\ h.completed = Front(g) /\ h.owner = g.owner
          /\ h.state = "COMPLETED" /\ h.reason = "ALL_GATES_COMPLETED"
      BY <1>8, <2>1 DEF Generation
    <2> HIDE DEF h
    <2>3. Shape(h)
      BY <1>7, <1>9, <1>10, <2>2 DEF Shape
    <2>4. Rests(g, h)
      BY <2>2, States DEF Rests, Live, Interrupted
    <2> QED
      BY <1>1, <1>3, <1>7, <1>9, <2>2, <2>3, <2>4 DEF h, Front
  <1>11. CASE Front(g) # N
    <2>1. h = [d EXCEPT !.current = Front(g) + 1, !.state = "READY", !.queue = Append(q, n)]
      BY <1>5, <1>8, <1>11
    <2>2. Front(g) + 1 \in Gates /\ n \in Item
      BY <1>1, <1>11, QueueItemType DEF Gates, Front
    <2>3. n.gate = Front(g) + 1 /\ n.status = "READY" /\ n.attempt = 1
      BY DEF QueueItem
    <2> HIDE DEF n
    <2> DEFINE r == Append(q, n)
    <2>4. /\ r \in Seq(Item) /\ Len(r) = Front(g) + 1 /\ DOMAIN r = 1 .. (Front(g) + 1)
          /\ r[Front(g) + 1] = n /\ \A k \in 1 .. Front(g) : r[k] = q[k]
      BY <1>1, <1>7, <2>2 DEF Front
    <2> HIDE DEF r
    <2>5. /\ h.queue = r /\ h.completed = Front(g) /\ h.owner = g.owner
          /\ h.current = Front(g) + 1 /\ h.state = "READY" /\ h.reason = g.reason
      BY <1>8, <2>1 DEF Generation, r
    <2> HIDE DEF h
    <2>6. Front(g) \in Nat /\ Front(g) < N /\ Front(h) = Front(g) + 1
      BY <1>1, <1>11, <2>5 DEF Front
    <2>7. \A k \in 1 .. (Front(g) + 1) : k \in 1 .. Front(g) \/ k = Front(g) + 1
      BY <2>6
    <2>8. Shape(h)
      <3>1. \A k \in DOMAIN h.queue : h.queue[k].gate = k
        BY <1>9, <2>3, <2>4, <2>5, <2>7
      <3>2. \A k \in DOMAIN h.queue : k <= h.completed => h.queue[k].status = "COMPLETED"
        BY <1>9, <2>4, <2>5, <2>6, <2>7
      <3> QED
        BY <2>3, <2>4, <2>5, <2>6, <3>1, <3>2 DEF Shape
    <2>9. Rests(g, h)
      BY <2>3, <2>4, <2>5, <2>6 DEF Rests, Live, Interrupted
    <2>10. \A k \in 1 .. Front(g) : k \in DOMAIN h.queue /\ k \in DOMAIN g.queue /\ h.queue[k] = q[k]
      BY <1>1, <2>4, <2>5, <2>6
    <2>11. \A k \in DOMAIN h.queue : k \notin DOMAIN g.queue => h.queue[k].attempt = 1
      BY <1>1, <2>3, <2>4, <2>5, <2>7
    <2>12. h.completed = g.completed + 1 /\ DOMAIN h.queue = 1 .. (Front(g) + 1)
           /\ Front(g) \in 1 .. Front(g)
      BY <1>1, <2>4, <2>5, <2>6 DEF Front
    <2>13. \A k \in 1 .. Front(g) : h.queue[k].status = "READY" => g.queue[k].status = "READY"
      BY <1>9, <2>10
    <2>14. \A k \in 1 .. Front(g) : /\ h.queue[k].attempt = g.queue[k].attempt
                                     /\ h.queue[k].resume = g.queue[k].resume
      BY <1>9, <2>10
    <2>15. /\ Front(g) \in DOMAIN h.queue /\ DOMAIN h.queue \subseteq 1 .. (Front(g) + 1)
           /\ h.owner = g.owner
      BY <2>5, <2>10, <2>12
    <2>16. h \in Generation
      BY <1>3 DEF h
    <2> QED
      BY <2>8, <2>9, <2>10, <2>11, <2>12, <2>13, <2>14, <2>15, <2>16, Zenon DEF h
  <1> QED
    BY <1>10, <1>11

\* A result other than completion.
LEMMA SettledWrite ==
    ASSUME NEW g \in Generation, Shape(g), NEW i \in DOMAIN g.queue, IsActive(g, i),
           NEW r \in Results \ {"COMPLETED"}, NEW why \in VerdictReasons
    PROVE  LET h == Settled(g, i, r, why) IN
           /\ h \in Generation /\ Moves(g, h) /\ Rests(g, h)
           /\ r = "EXECUTION_FAILURE" /\ CanRetry(g, i) =>
                h.queue[i].attempt = g.queue[i].attempt + 1
  <1>1. CASE r \in WAIT_STATES
    <2>1. Settled(g, i, r, why) = FailedToWait(g, i, r, why) /\ r # "EXECUTION_FAILURE"
      BY <1>1 DEF Settled, WAIT_STATES
    <2> QED
      BY <1>1, <2>1, WaitWrite
  <1>2. CASE r \in FailureClasses
    <2>1. Settled(g, i, r, why) = Failed(g, i, r)
      BY <1>2 DEF Settled, WAIT_STATES, FailureClasses
    <2> QED
      BY <1>2, <2>1, FailedWrite
  <1>3. CASE r = "CANCELLED"
    <2> DEFINE h == [g EXCEPT !.queue[i].status = "CANCELLED",
                              !.state = "CANCELLED", !.reason = "CANCELLED"]
    <2>1. Settled(g, i, r, why) = h
      BY <1>3 DEF Settled, WAIT_STATES
    <2>2. Settled(g, i, r, why) \in Generation
      BY <1>3, SettledType DEF Results
    <2>3. /\ h.queue = [g.queue EXCEPT ![i] = [g.queue[i] EXCEPT !.status = "CANCELLED"]]
          /\ h.completed = g.completed /\ h.current = g.current /\ h.owner = g.owner
          /\ h.state = "CANCELLED" /\ h.reason = "CANCELLED"
      BY DEF Generation
    <2> HIDE DEF h
    <2>4. Shape(h) /\ Follows(g, h)
      <3>1. Restated(g, h, i, "CANCELLED")
        BY <2>3 DEF Restated
      <3> QED
        BY <2>1, <2>2, <3>1, ActiveAtFront, StatusWrite DEF DoneItem
    <2>5. Rests(g, h)
      BY <2>3, States DEF Rests, Live, Interrupted
    <2> QED
      BY <1>3, <2>1, <2>2, <2>3, <2>4, <2>5 DEF Moves
  <1> QED
    BY <1>1, <1>2, <1>3 DEF Results

\* The generation of a registered run.
LEMMA InitialShape == Shape(Initial) /\ Live(Initial)
  <1> DEFINE q == <<QueueItem(1)>>
  <1>1. Initial.queue = q /\ Initial.completed = 0 /\ Initial.current = 1
        /\ Initial.state = "READY" /\ Initial.reason = "NONE"
    BY DEF Initial
  <1>2. Len(q) = 1 /\ DOMAIN q = {1} /\ q[1] = QueueItem(1)
    OBVIOUS
  <1>3. QueueItem(1).gate = 1 /\ QueueItem(1).status = "READY"
    BY DEF QueueItem
  <1>4. N \in Nat /\ 0 < N
    BY PlanAssumption
  <1>5. Front(Initial) = 1
    BY <1>1 DEF Front
  <1>6. Shape(Initial)
    BY <1>1, <1>2, <1>3, <1>4, <1>5 DEF Shape
  <1>7. Live(Initial)
    BY <1>1, <1>2, <1>3, <1>4, <1>5 DEF Live, Interrupted
  <1> QED
    BY <1>6, <1>7

-----------------------------------------------------------------------------
(* Saves and their traces *)

\* A save moves the marks of an observer along with the generation it read.
LEMMA PersistMarks ==
    ASSUME TypeOK, Witnessed, NEW h \in Generation, Persist(h)
    PROVE  /\ Witnessed' /\ primary' = Stored(h) /\ primary'.kind = "ok" /\ primary'.gen = h
           /\ previous' = Rotated /\ "primary" \notin directive'.at
           /\ directive'.claims = directive.claims /\ directive'.gate = directive.gate
           /\ directive'.epoch = directive.epoch
  <1>1. observed \in Observation /\ directive \in Directive
    BY DEF TypeOK, FilesTyped
  <1>2. /\ observed'.reason = observed.reason /\ observed'.at = CopiesRotated(observed.at)
        /\ directive'.at = CopiesRotated(directive.at) /\ directive'.claims = directive.claims
        /\ directive'.gate = directive.gate /\ directive'.epoch = directive.epoch
    BY <1>1 DEF Persist, Observation, Directive
  <1>3. primary' = Stored(h) /\ primary'.gen = h /\ primary'.kind = "ok" /\ previous' = Rotated
    BY DEF Persist, Stored
  <1>4. \A at : "primary" \notin CopiesRotated(at)
    BY DEF CopiesRotated
  <1>5. "previous" \in observed'.at => previous'.gen.wait = observed'.reason
    <2>1. CASE primary.kind = "garbled"
      BY <1>2, <1>3, <2>1 DEF CopiesRotated, Rotated, Witnessed
    <2>2. CASE primary.kind # "garbled"
      BY <1>2, <1>3, <2>2 DEF CopiesRotated, Rotated, Witnessed
    <2> QED
      BY <2>1, <2>2
  <1> QED
    BY <1>2, <1>3, <1>4, <1>5 DEF Witnessed

\* A save torn by a crash loses no generation and marks the copy it made.
LEMMA TornMarks ==
    ASSUME TypeOK, Witnessed, TornSave \/ UNCHANGED <<files, observed, directive>>
    PROVE  /\ Witnessed' /\ primary' = primary
           /\ previous' = Rotated \/ previous' = previous
           /\ directive'.claims = directive.claims
           /\ "primary" \in directive'.at => "primary" \in directive.at
  <1>1. observed \in Observation /\ directive \in Directive
    BY DEF TypeOK, FilesTyped
  <1>2. CASE UNCHANGED <<files, observed, directive>>
    BY <1>2 DEF files, Witnessed
  <1>3. CASE TornSave /\ primary.kind = "garbled"
    <2>1. /\ observed'.reason = observed.reason /\ observed'.at = observed.at
          /\ directive'.at = directive.at /\ directive'.claims = directive.claims
      BY <1>1, <1>3 DEF TornSave, Observation, Directive
    <2> QED
      BY <1>3, <2>1 DEF TornSave, Rotated, Witnessed
  <1>4. CASE TornSave /\ primary.kind # "garbled"
    <2>1. /\ observed'.reason = observed.reason /\ directive'.claims = directive.claims
          /\ observed'.at = IF "primary" \in observed.at THEN {"primary", "previous"} ELSE {}
          /\ directive'.at = IF "primary" \in directive.at THEN {"primary", "previous"} ELSE {}
      BY <1>1, <1>4 DEF TornSave, Observation, Directive
    <2>2. primary' = primary /\ previous' = primary /\ previous' = Rotated
      BY <1>4 DEF TornSave, Rotated
    <2> QED
      BY <2>1, <2>2 DEF Witnessed
  <1> QED
    BY <1>2, <1>3, <1>4

\* Executions and retries are counted against a generation that follows.
LEMMA CountedFollows ==
    ASSUME NEW g \in Generation, NEW h \in Generation, Follows(g, h),
           retries \in [Gates -> Nat], Counted(g.queue), UNCHANGED history,
           DOMAIN g.queue \subseteq Gates
    PROVE  Counted(h.queue)'
  <1>1. fresh' = fresh /\ retries' = retries
    BY DEF history
  <1>2. \A k \in DOMAIN g.queue : retries[k] \in Nat /\ g.queue[k].attempt \in Nat
                                  /\ h.queue[k].attempt \in Nat
    BY Parts DEF Follows
  <1>3. \A k \in DOMAIN g.queue : retries[k] < h.queue[k].attempt
    BY <1>2 DEF Follows, Counted
  <1>4. \A k \in DOMAIN g.queue : h.queue[k].status = "READY" /\ ~h.queue[k].resume => fresh[k] = 0
    BY DEF Follows, Counted
  <1> QED
    BY <1>1, <1>3, <1>4 DEF Follows, Counted

\* The Gates of a queue are Gates of the plan.
LEMMA QueueInPlan ==
    ASSUME NEW g \in Generation, Shape(g)
    PROVE  DOMAIN g.queue \subseteq Gates /\ Front(g) \in Nat
  BY Parts DEF Shape, Gates, Front

-----------------------------------------------------------------------------
(* Steps *)

\* All of the invariant but the part about results.
State == Shaped /\ Undamaged /\ Witnessed /\ GateKept

\* Nobody else is at work beside the holder of the lock.
LEMMA Alone ==
    ASSUME LockHeld, NEW p \in Supervisors, lock = p \/ lock \notin Supervisors
    PROVE  \A q \in Supervisors : q # p => pc[q] = "idle" /\ worker[q].phase # "running"
  BY DEF LockHeld

\* A supervisor saves a generation.
LEMMA CommitKept ==
    ASSUME TypeOK, LockHeld, State, NEW p \in Supervisors, pc[p] # "idle",
           NEW h \in Generation, NEW l \in Labels \ {"idle", "start"}, Commit(p, h, l), Shape(h),
           UNCHANGED <<lock, tokens, transaction, corruptions>>,
           \A q \in Supervisors : q # p => worker'[q] = worker[q],
           corruptions = 0 =>
             /\ Live(h) /\ LabelState(l, h.state) /\ Counted(h.queue)'
             /\ h.owner = primary.gen.owner
             /\ worker'[p].phase = "running" => Interrupted(h)
             /\ l = "dispatched" /\ ~h.queue[Front(h)].resume => fresh'[Front(h)] = 0
             /\ l \in {"dispatched", "forked", "running"} => AtGate(primary.gen, Front(h)),
           worker'[p].phase = "running" =>
             worker'[p].gate = Front(h) /\ l \in {"dispatched", "forked", "running"},
           l \in {"dispatched", "forked", "running"} => AtGate(h, Front(h))
    PROVE  State'
  <1>1. Persist(h) /\ mem' = [mem EXCEPT ![p] = h] /\ pc' = [pc EXCEPT ![p] = l]
    BY DEF Commit
  <1>2. /\ Witnessed' /\ primary'.kind = "ok" /\ primary'.gen = h
        /\ previous' = Rotated /\ "primary" \notin directive'.at
        /\ directive'.claims = directive.claims
    BY <1>1, PersistMarks DEF State
  <1>3. /\ mem'[p] = h /\ pc'[p] = l
        /\ \A q \in Supervisors : q # p => mem'[q] = mem[q] /\ pc'[q] = pc[q]
    BY <1>1 DEF TypeOK, ProcessesTyped
  <1>4. /\ lock = p
        /\ \A q \in Supervisors : q # p => pc'[q] = "idle" /\ worker'[q].phase # "running"
    BY <1>3, Alone DEF LockHeld
  <1>5. Shape(previous'.gen)
    BY <1>2 DEF Rotated, State, Shaped
  <1>6. Shaped'
    BY <1>2, <1>3, <1>5 DEF State, Shaped
  <1>7. Undamaged'
    <2> SUFFICES ASSUME corruptions = 0
                 PROVE  /\ primary'.kind = "ok" /\ Live(primary'.gen)
                        /\ InStep' /\ Counted(primary.gen.queue)' /\ FirstFork'
                        /\ Fenced' /\ ClaimedOnce'
      BY <1>2 DEF Undamaged
    <2>1. InStep'
      BY <1>2, <1>3, <1>4 DEF InStep, LabelState
    <2>2. FirstFork'
      BY <1>3, <1>4 DEF FirstFork
    <2>3. Fenced'
      <3>1. transaction = NoToken
        BY <1>4, PlanAssumption DEF State, Undamaged, Fenced
      <3> QED
        BY <1>2, <3>1 DEF State, Undamaged, Fenced
    <2>4. ClaimedOnce'
      BY <1>2 DEF State, Undamaged, ClaimedOnce
    <2> QED
      BY <1>2, <2>1, <2>2, <2>3, <2>4
  <1>8. GateKept'
    <2>1. ASSUME l \in {"dispatched", "forked", "running"}
          PROVE  Guarded(Front(h))'
      <3>1. AtGate(primary'.gen, Front(h))
        BY <1>2, <2>1
      <3>2. ASSUME corruptions = 0
            PROVE  previous'.kind = "ok" /\ AtGate(previous'.gen, Front(h))
        <4>1. primary.kind = "ok"
          BY <3>2 DEF State, Undamaged
        <4> QED
          BY <1>2, <2>1, <3>2, <4>1 DEF Rotated
      <3> QED
        BY <1>2, <3>1, <3>2 DEF Guarded, AtGate, Front
    <2>2. ASSUME NEW q \in Supervisors, q # p
          PROVE  pc'[q] \notin {"dispatched", "forked", "running"} /\ worker'[q].phase # "running"
      BY <1>4, <2>2
    <2>3. CASE l \in {"dispatched", "forked", "running"}
      <3>1. Guarded(Front(mem[p]))'
        BY <1>3, <2>1, <2>3 DEF Guarded, Front, AtGate
      <3>2. worker'[p].phase = "running" => Guarded(worker[p].gate)'
        BY <2>1, <2>3 DEF Guarded, Front, AtGate
      <3> QED
        BY <1>3, <2>2, <2>3, <3>1, <3>2 DEF GateKept
    <2>4. CASE l \notin {"dispatched", "forked", "running"}
      BY <1>3, <2>2, <2>4 DEF GateKept
    <2> QED
      BY <2>3, <2>4
  <1> QED
    BY <1>2, <1>6, <1>7, <1>8 DEF State

\* An operation saves a generation while nobody is at work.
LEMMA InterveneKept ==
    ASSUME TypeOK, LockHeld, State, LockFree, NEW h \in Generation, Shape(h), Intervene(h),
           corruptions = 0 =>
             /\ Live(h) /\ Follows(Loaded, h)
             /\ \A k \in tokens' : k.token # NoToken /\ k.token.epoch <= h.owner.epoch
    PROVE  State'
  <1>1. Persist(h) /\ UNCHANGED <<lock, pc, mem, worker, transaction, history, corruptions>>
    BY DEF Intervene
  <1>2. /\ Witnessed' /\ primary'.kind = "ok" /\ primary'.gen = h
        /\ previous' = Rotated /\ "primary" \notin directive'.at
        /\ directive'.claims = directive.claims
    BY <1>1, PersistMarks DEF State
  <1>3. \A q \in Supervisors : pc'[q] = "idle" /\ worker'[q].phase # "running"
    BY <1>1, PlanAssumption DEF LockHeld, LockFree
  <1>4. Shape(previous'.gen)
    BY <1>2 DEF Rotated, State, Shaped
  <1>5. Shaped'
    BY <1>1, <1>2, <1>4 DEF State, Shaped
  <1>6. Undamaged'
    <2> SUFFICES ASSUME corruptions = 0
                 PROVE  /\ primary'.kind = "ok" /\ Live(primary'.gen)
                        /\ InStep' /\ Counted(primary.gen.queue)' /\ FirstFork'
                        /\ Fenced' /\ ClaimedOnce'
      BY <1>1 DEF Undamaged
    <2>1. InStep' /\ FirstFork'
      BY <1>2, <1>3 DEF InStep, LabelState, FirstFork
    <2>2. Counted(primary.gen.queue)'
      <3>1. Loaded = primary.gen /\ primary.gen \in Generation
        BY DEF State, Undamaged, Loaded, TypeOK, FilesTyped, File
      <3>2. DOMAIN primary.gen.queue \subseteq Gates
        BY <3>1, QueueInPlan DEF State, Shaped
      <3>3. Counted(h.queue)'
        BY <1>1, <3>1, <3>2, CountedFollows DEF State, Undamaged, TypeOK, RecordsTyped
      <3> QED
        BY <1>2, <3>3 DEF Counted
    <2>3. Fenced'
      <3>1. transaction = NoToken
        BY PlanAssumption DEF State, Undamaged, Fenced, LockFree
      <3> QED
        BY <1>1, <1>2, <3>1 DEF Fenced
    <2>4. ClaimedOnce'
      BY <1>2 DEF State, Undamaged, ClaimedOnce
    <2> QED
      BY <1>2, <2>1, <2>2, <2>3, <2>4
  <1>7. GateKept'
    BY <1>3 DEF GateKept
  <1> QED
    BY <1>2, <1>5, <1>6, <1>7 DEF State

\* The same, when no owner is claimed.
LEMMA InterveneSame ==
    ASSUME TypeOK, LockHeld, State, LockFree, NEW h \in Generation, Intervene(h), tokens' = tokens,
           Moves(Loaded, h), corruptions = 0 => Live(h)
    PROVE  State'
  <1>1. corruptions = 0 =>
          \A k \in tokens' : k.token # NoToken /\ k.token.epoch <= h.owner.epoch
    BY DEF State, Undamaged, Fenced, Moves, Loaded
  <1> QED
    BY <1>1, InterveneKept DEF Moves

\* The files are left alone, but for a copy of the primary that a torn save made.
LEMMA QuietKept ==
    ASSUME TypeOK, State, TornSave \/ UNCHANGED <<files, observed, directive>>,
           UNCHANGED <<corruptions, history>>,
           \A q \in Supervisors :
             /\ \/ pc'[q] \in {"idle", "start"} /\ Shape(mem'[q])
                \/ pc'[q] = pc[q] /\ mem'[q] = mem[q]
             /\ worker'[q].phase = "running" =>
                  /\ worker[q].phase = "running" /\ worker'[q].gate = worker[q].gate
                  /\ pc'[q] = "idle" \/ (pc'[q] = pc[q] /\ mem'[q] = mem[q]),
           corruptions = 0 => Fenced'
    PROVE  State'
  <1>1. /\ Witnessed' /\ primary' = primary
        /\ previous' = Rotated \/ previous' = previous
        /\ directive'.claims = directive.claims
        /\ "primary" \in directive'.at => "primary" \in directive.at
    BY TornMarks DEF State
  <1>2. Shaped'
    BY <1>1 DEF State, Shaped, Rotated
  <1>3. Undamaged'
    <2> SUFFICES ASSUME corruptions = 0
                 PROVE  /\ primary'.kind = "ok" /\ Live(primary'.gen)
                        /\ InStep' /\ Counted(primary.gen.queue)' /\ FirstFork'
                        /\ Fenced' /\ ClaimedOnce'
      BY DEF Undamaged
    <2>1. InStep'
      BY <1>1 DEF State, Undamaged, InStep, LabelState
    <2>2. FirstFork'
      BY DEF State, Undamaged, FirstFork, history
    <2>3. Counted(primary.gen.queue)' /\ ClaimedOnce'
      BY <1>1 DEF State, Undamaged, Counted, ClaimedOnce, history
    <2> QED
      BY <1>1, <2>1, <2>2, <2>3 DEF State, Undamaged
  <1>4. ASSUME NEW k, Guarded(k) PROVE Guarded(k)'
    <2>1. primary.kind \in {"ok", "garbled", "drifted"}
      BY DEF State, Shaped, TypeOK, FilesTyped, File
    <2>2. CASE primary.kind = "ok"
      BY <1>1, <1>4, <2>2 DEF Guarded, Rotated
    <2>3. CASE primary.kind = "garbled"
      BY <1>1, <1>4, <2>3 DEF Guarded, Rotated
    <2>4. CASE primary.kind = "drifted"
      BY <1>1, <2>4 DEF Guarded
    <2> QED
      BY <2>1, <2>2, <2>3, <2>4
  <1>5. GateKept'
    <2> SUFFICES ASSUME NEW q \in Supervisors
                 PROVE  /\ pc'[q] \in {"dispatched", "forked", "running"} =>
                             AtGate(mem'[q], Front(mem'[q])) /\ Guarded(Front(mem[q]))'
                        /\ worker'[q].phase = "running" =>
                             /\ Guarded(worker[q].gate)'
                             /\ pc'[q] # "idle" => worker'[q].gate = Front(mem'[q])
      BY DEF GateKept
    <2>1. ASSUME pc'[q] \in {"dispatched", "forked", "running"}
          PROVE  AtGate(mem'[q], Front(mem'[q])) /\ Guarded(Front(mem[q]))'
      <3>1. pc'[q] = pc[q] /\ mem'[q] = mem[q]
        BY <2>1
      <3>2. AtGate(mem[q], Front(mem[q])) /\ Guarded(Front(mem[q]))
        BY <2>1, <3>1 DEF State, GateKept
      <3>3. PICK k : k = Front(mem[q])
        OBVIOUS
      <3>4. Guarded(k)'
        BY <1>4, <3>2, <3>3
      <3>5. Front(mem'[q]) = k
        BY <3>1, <3>3
      <3> QED
        BY <3>1, <3>2, <3>4, <3>5 DEF Guarded
    <2>2. ASSUME worker'[q].phase = "running"
          PROVE  /\ Guarded(worker[q].gate)'
                 /\ pc'[q] # "idle" => worker'[q].gate = Front(mem'[q])
      <3>1. worker[q].phase = "running" /\ worker'[q].gate = worker[q].gate
        BY <2>2
      <3>2. PICK k : k = worker[q].gate
        OBVIOUS
      <3>3. Guarded(k)'
        BY <1>4, <3>1, <3>2 DEF State, GateKept
      <3>4. Guarded(worker[q].gate)'
        BY <3>1, <3>2, <3>3 DEF Guarded
      <3> QED
        BY <2>2, <3>1, <3>4 DEF State, GateKept
    <2> QED
      BY <2>1, <2>2
  <1> QED
    BY <1>1, <1>2, <1>3, <1>5 DEF State

\* A supervisor past its startup holds the durable generation.
LEMMA Holding ==
    ASSUME TypeOK, State, NEW p \in Supervisors, corruptions = 0
    PROVE  /\ primary.kind = "ok" /\ Loaded = primary.gen /\ ~Recovered
           /\ Live(primary.gen) /\ InStep /\ Counted(primary.gen.queue) /\ FirstFork
           /\ pc[p] \notin {"idle", "start"} => mem[p] = primary.gen
           /\ LabelState(pc[p], primary.gen.state)
  BY DEF State, Undamaged, InStep, Loaded, Recovered

\* The shapes of what a supervisor reads.
LEMMA Read ==
    ASSUME TypeOK, State, NEW p \in Supervisors
    PROVE  /\ mem[p] \in Generation /\ Shape(mem[p]) /\ Loaded \in Generation /\ Shape(Loaded)
           /\ primary.gen \in Generation /\ DOMAIN primary.gen.queue \subseteq Gates
  <1>1. primary.gen \in Generation /\ Shape(primary.gen)
    BY DEF TypeOK, FilesTyped, File, State, Shaped
  <1> QED
    BY <1>1, LoadedType, QueueInPlan DEF TypeOK, ProcessesTyped, State, Shaped, Loaded

\* A write that returns to the dispatch loop, whatever it counts.
LEMMA LoopWrite ==
    ASSUME TypeOK, LockHeld, State, NEW p \in Supervisors, pc[p] # "idle",
           NEW h \in Generation, Commit(p, h, "loop"), Shape(h),
           UNCHANGED <<lock, tokens, transaction, corruptions>>, worker'[p].phase # "running",
           \A q \in Supervisors : q # p => worker'[q] = worker[q],
           corruptions = 0 => /\ Live(h) /\ ~Interrupted(h) /\ h.owner = primary.gen.owner
                              /\ Counted(h.queue)'
    PROVE  State'
  <1>1. "loop" \in Labels \ {"idle", "start"}
    BY DEF Labels
  <1>2. corruptions = 0 => LabelState("loop", h.state)
    BY DEF LabelState, Interrupted
  <1> QED
    BY <1>1, <1>2, CommitKept

\* One that counts nothing.
LEMMA LoopKept ==
    ASSUME TypeOK, LockHeld, State, NEW p \in Supervisors, pc[p] \notin {"idle", "start"},
           NEW h \in Generation, Commit(p, h, "loop"), Moves(mem[p], h),
           UNCHANGED <<lock, tokens, transaction, corruptions, history>>,
           worker'[p].phase # "running",
           \A q \in Supervisors : q # p => worker'[q] = worker[q],
           corruptions = 0 => Live(h) /\ ~Interrupted(h)
    PROVE  State'
  <1>1. ASSUME corruptions = 0 PROVE h.owner = primary.gen.owner /\ Counted(h.queue)'
    <2>1. mem[p] = primary.gen /\ Counted(primary.gen.queue)
      BY <1>1, Holding
    <2>2. PICK g \in Generation : g = mem[p]
      BY Read
    <2>3. Counted(g.queue) /\ DOMAIN g.queue \subseteq Gates /\ Follows(g, h)
      BY <2>1, <2>2, Read DEF Moves
    <2>4. Counted(h.queue)'
      BY <2>3, CountedFollows DEF TypeOK, RecordsTyped
    <2> QED
      BY <2>1, <2>4 DEF Moves
  <1> QED
    BY <1>1, LoopWrite DEF Moves

\* Startup reconciliation.
LEMMA StartupKept ==
    ASSUME TypeOK, LockHeld, State, NEW p \in Supervisors, ReconcileStartup(p)
    PROVE  State'
  <1>1. /\ pc[p] = "start" /\ Loadable
        /\ UNCHANGED <<lock, worker, tokens, transaction, history, corruptions>>
    BY DEF ReconcileStartup, budgets
  <1>2. worker'[p].phase # "running" /\ \A q \in Supervisors : q # p => worker'[q] = worker[q]
    BY <1>1 DEF LockHeld
  <1>3. PICK g \in Generation : g = Restored(Loaded)
    BY Read, ReconciledType
  <1>4. /\ Shape(g) /\ Follows(Loaded, g) /\ g.owner = Loaded.owner
        /\ ~Recovered => g = Loaded
    <2>1. /\ g.queue = Loaded.queue /\ g.completed = Loaded.completed
          /\ g.current = Loaded.current /\ g.owner = Loaded.owner
          /\ ~Recovered => g = Loaded
      BY <1>3, Read DEF Restored, Generation
    <2> QED
      BY <2>1, Read, PlainWrite
  <1>5. corruptions = 0 => g = primary.gen /\ Live(g) /\ Counted(g.queue) /\ ~Recovered
                           /\ DOMAIN g.queue \subseteq Gates
    BY <1>4, Holding, Read
  <1>6. ASSUME NEW h \in Generation, Commit(p, h, "loop"), Moves(g, h),
               corruptions = 0 => Live(h) /\ ~Interrupted(h)
        PROVE  State'
    <2>1. ASSUME corruptions = 0 PROVE h.owner = primary.gen.owner /\ Counted(h.queue)'
      <3>1. Counted(h.queue)'
        BY <1>1, <1>5, <1>6, <2>1, CountedFollows DEF Moves, TypeOK, RecordsTyped
      <3> QED
        BY <1>5, <1>6, <2>1, <3>1 DEF Moves
    <2> QED
      BY <1>1, <1>2, <1>6, <2>1, LoopWrite DEF Moves
  <1>7. ASSUME Interrupted(g), NEW i \in DOMAIN g.queue, IsActive(g, i),
               Commit(p, Requeued(g, i), "loop")
        PROVE  State'
    <2>1. PICK h \in Generation : h = Requeued(g, i)
      BY ReconciledType
    <2>2. /\ h.queue = [g.queue EXCEPT ![i] = NextAttempt(g.queue[i])]
          /\ h.completed = g.completed /\ h.current = g.current /\ h.owner = g.owner
          /\ h.state = "RECOVERING" /\ h.reason = g.reason
      BY <2>1 DEF Requeued, Generation
    <2>3. g.queue[i].status # "COMPLETED"
      BY <1>7 DEF IsActive, DoneItem
    <2>4. /\ Shape(h) /\ Follows(g, h) /\ h.completed < N /\ h.queue[Front(h)].status = "READY"
      BY <1>4, <2>2, <2>3, ResumableWrite
    <2>5. ~Interrupted(h)
      BY <2>2 DEF Interrupted
    <2>6. corruptions = 0 => Live(h)
      BY <1>5, <1>7, <2>2, <2>4, <2>5 DEF Live, Interrupted
    <2> QED
      BY <1>6, <1>7, <2>1, <2>2, <2>4, <2>5, <2>6 DEF Moves
  <1>8. ASSUME Commit(p, QueueMissing(g), "loop")
        PROVE  State'
    <2>1. PICK h \in Generation : h = QueueMissing(g)
      BY ReconciledType
    <2>2. /\ h.queue = g.queue /\ h.completed = g.completed /\ h.current = g.current
          /\ h.owner = g.owner /\ h.state = "BLOCKED"
          /\ h.reason = "STARTUP_RECONCILIATION_BLOCKED"
      BY <2>1 DEF QueueMissing, Generation
    <2>3. Shape(h) /\ Follows(g, h)
      BY <1>4, <2>2, PlainWrite
    <2>4. Live(h) /\ ~Interrupted(h)
      BY <2>2, States DEF Live, Interrupted
    <2> QED
      BY <1>6, <1>8, <2>1, <2>2, <2>3, <2>4 DEF Moves
  <1>9. ASSUME Recovered, Commit(p, g, "loop")
        PROVE  State'
    <2>1. Moves(g, g)
      BY <1>4, PlainWrite DEF Moves
    <2> QED
      BY <1>5, <1>6, <1>9, <2>1
  <1>10. ASSUME ~Interrupted(g), ~Recovered, mem' = [mem EXCEPT ![p] = g],
                pc' = [pc EXCEPT ![p] = "loop"], UNCHANGED <<files, observed, directive>>
         PROVE  State'
    <2>1. /\ primary' = primary /\ previous' = previous /\ observed' = observed
          /\ directive' = directive /\ fresh' = fresh /\ retries' = retries
      BY <1>1, <1>10 DEF files, history
    <2>2. /\ mem'[p] = g /\ pc'[p] = "loop"
          /\ \A q \in Supervisors : q # p => mem'[q] = mem[q] /\ pc'[q] = pc[q]
      BY <1>10 DEF TypeOK, ProcessesTyped
    <2>3. \A q \in Supervisors : q # p => pc[q] = "idle" /\ worker[q].phase # "running"
      BY <1>1, Alone DEF LockHeld
    <2>4. Shaped' /\ Witnessed'
      BY <1>4, <2>1, <2>2 DEF State, Shaped, Witnessed
    <2>5. GateKept'
      BY <1>1, <1>2, <2>2, <2>3 DEF GateKept
    <2>6. Undamaged'
      <3> SUFFICES ASSUME corruptions = 0
                   PROVE  /\ primary'.kind = "ok" /\ Live(primary'.gen)
                          /\ InStep' /\ Counted(primary.gen.queue)' /\ FirstFork'
                          /\ Fenced' /\ ClaimedOnce'
        BY <1>1 DEF Undamaged
      <3>1. InStep'
        BY <1>1, <1>2, <1>5, <1>10, <2>1, <2>2, <2>3 DEF InStep, LabelState, Interrupted
      <3>2. FirstFork'
        BY <2>2, <2>3 DEF FirstFork
      <3>3. Fenced' /\ ClaimedOnce' /\ Counted(primary.gen.queue)'
        BY <1>1, <2>1 DEF State, Undamaged, Fenced, ClaimedOnce, Counted
      <3> QED
        BY <2>1, <3>1, <3>2, <3>3 DEF State, Undamaged
    <2> QED
      BY <2>4, <2>5, <2>6 DEF State
  <1>11. \/ Interrupted(g) /\ \E i \in DOMAIN g.queue :
                IsActive(g, i) /\ Commit(p, Requeued(g, i), "loop")
         \/ Commit(p, QueueMissing(g), "loop")
         \/ Recovered /\ Commit(p, g, "loop")
         \/ /\ ~Interrupted(g) /\ ~Recovered
            /\ mem' = [mem EXCEPT ![p] = g]
            /\ pc'  = [pc EXCEPT ![p] = "loop"]
            /\ UNCHANGED <<files, observed, directive>>
    BY <1>3 DEF ReconcileStartup
  <1> QED
    BY <1>7, <1>8, <1>9, <1>10, <1>11

\* What a supervisor in its dispatch loop knows.
LEMMA Looping ==
    ASSUME TypeOK, LockHeld, State, NEW p \in Supervisors, InLoop(p)
    PROVE  /\ pc[p] = "loop" /\ worker[p].phase # "running"
           /\ corruptions = 0 =>
                /\ mem[p].completed < N /\ mem[p].queue[Front(mem[p])].status = "READY"
                /\ mem[p].reason # "MIGRATED_TO_SUCCESSOR" /\ mem[p] = primary.gen
                /\ ~NoActive(mem[p])
  <1>1. pc[p] = "loop" /\ mem[p].state \notin TERMINAL_STATES /\ worker[p].phase # "running"
    BY DEF InLoop, LockHeld
  <1>2. ASSUME corruptions = 0
        PROVE  /\ mem[p].completed < N /\ mem[p].queue[Front(mem[p])].status = "READY"
               /\ mem[p].reason # "MIGRATED_TO_SUCCESSOR" /\ mem[p] = primary.gen
               /\ ~NoActive(mem[p])
    <2>1. mem[p] = primary.gen /\ Live(mem[p]) /\ ~Interrupted(mem[p])
      BY <1>1, <1>2, Holding DEF LabelState, Interrupted
    <2>2. /\ mem[p].completed < N /\ mem[p].queue[Front(mem[p])].status = "READY"
          /\ mem[p].reason # "MIGRATED_TO_SUCCESSOR"
      BY <1>1, <2>1, States DEF Live
    <2> QED
      BY <2>1, <2>2, Read, FrontIsActive DEF DoneItem
  <1> QED
    BY <1>1, <1>2

\* The dispatch loop up to the dispatch intent.
LEMMA DispatchLoopKept ==
    ASSUME TypeOK, LockHeld, State, NEW p \in Supervisors,
           \/ NothingQueued(p) \/ LowResources(p) \/ PreflightWaits(p)
           \/ PreflightBlocks(p) \/ Dispatch(p)
    PROVE  State'
  <1>1. /\ InLoop(p) /\ UNCHANGED <<lock, worker, tokens, transaction, history, corruptions>>
    BY DEF NothingQueued, LowResources, PreflightWaits, PreflightBlocks, Dispatch, budgets
  <1>2. PICK g \in Generation : g = mem[p]
    BY Read
  <1>3. /\ Shape(g) /\ pc[p] = "loop" /\ worker'[p].phase # "running"
        /\ \A q \in Supervisors : q # p => worker'[q] = worker[q]
        /\ corruptions = 0 =>
             /\ g.completed < N /\ g.queue[Front(g)].status = "READY"
             /\ g.reason # "MIGRATED_TO_SUCCESSOR" /\ g = primary.gen /\ ~NoActive(g)
    BY <1>1, <1>2, Looping, Read
  <1>4. ASSUME NEW h \in Generation, Commit(p, h, "loop"), Moves(g, h),
               corruptions = 0 => Live(h) /\ ~Interrupted(h)
        PROVE  State'
    BY <1>1, <1>2, <1>3, <1>4, LoopKept
  <1>5. CASE NothingQueued(p)
    <2>1. \E h \in Generation :
            /\ Commit(p, h, "loop") /\ h.queue = g.queue /\ h.completed = g.completed
            /\ h.current = g.current /\ h.owner = g.owner
      <3>1. NoActive(g)
            /\ Commit(p, IF g.completed = N
                 THEN [g EXCEPT !.state = "COMPLETED", !.reason = "ALL_GATES_COMPLETED"]
                 ELSE [g EXCEPT !.state = "BLOCKED", !.error = "EXECUTION_FAILURE",
                                !.reason = "DURABLE_SUCCESSOR_MISSING"], "loop")
        BY <1>2, <1>5 DEF NothingQueued
      <3> DEFINE a == [g EXCEPT !.state = "COMPLETED", !.reason = "ALL_GATES_COMPLETED"]
                 b == [g EXCEPT !.state = "BLOCKED", !.error = "EXECUTION_FAILURE",
                                !.reason = "DURABLE_SUCCESSOR_MISSING"]
      <3>2. /\ a \in Generation /\ a.queue = g.queue /\ a.completed = g.completed
            /\ a.current = g.current /\ a.owner = g.owner
        BY DEF Generation, ALL_STATES, TERMINAL_STATES, TerminalReasons, FailureClasses
      <3>3. /\ b \in Generation /\ b.queue = g.queue /\ b.completed = g.completed
            /\ b.current = g.current /\ b.owner = g.owner
        BY DEF Generation, ALL_STATES, TERMINAL_STATES, TerminalReasons, FailureClasses
      <3> HIDE DEF a, b
      <3>4. Commit(p, a, "loop") \/ Commit(p, b, "loop")
        BY <3>1 DEF a, b
      <3> QED
        BY <3>2, <3>3, <3>4
    <2>2. PICK h \in Generation :
            /\ Commit(p, h, "loop") /\ h.queue = g.queue /\ h.completed = g.completed
            /\ h.current = g.current /\ h.owner = g.owner
      BY <2>1
    <2>3. corruptions # 0
      BY <1>2, <1>3, <1>5 DEF NothingQueued
    <2>4. Moves(g, h)
      BY <1>3, <2>2, PlainWrite DEF Moves
    <2> QED
      BY <1>4, <2>2, <2>3, <2>4
  <1>6. CASE LowResources(p)
    <2> DEFINE e == [g EXCEPT !.state = "WAITING_RESOURCE", !.error = "EXECUTION_FAILURE",
                              !.wait = "LOW_RESOURCE_BACKPRESSURE"]
    <2>1. Commit(p, e, "loop")
      BY <1>2, <1>6 DEF LowResources
    <2>2. /\ e \in Generation /\ e.queue = g.queue /\ e.completed = g.completed
          /\ e.current = g.current /\ e.owner = g.owner /\ e.reason = g.reason
          /\ e.state = "WAITING_RESOURCE"
      BY DEF Generation, ALL_STATES, WAIT_STATES, WaitReasons, FailureClasses
    <2> HIDE DEF e
    <2>3. Moves(g, e)
      BY <1>3, <2>2, PlainWrite DEF Moves
    <2>4. ~Interrupted(e) /\ (corruptions = 0 => Live(e))
      BY <1>3, <2>2 DEF Live, Interrupted, Front
    <2> QED
      BY <1>4, <2>1, <2>2, <2>3, <2>4
  <1>7. CASE PreflightWaits(p)
    <2>1. PICK i \in DOMAIN g.queue, w \in WAIT_STATES, why \in VerdictReasons :
            IsActive(g, i) /\ Commit(p, FailedToWait(g, i, w, why), "loop")
      BY <1>2, <1>7 DEF PreflightWaits
    <2> DEFINE e == FailedToWait(g, i, w, why)
    <2>2. e \in Generation /\ Moves(g, e) /\ Rests(g, e)
      BY <1>3, <2>1, WaitWrite
    <2>3. Commit(p, e, "loop")
      BY <2>1
    <2> HIDE DEF e
    <2> QED
      BY <1>3, <1>4, <2>2, <2>3 DEF Rests
  <1>8. CASE PreflightBlocks(p)
    <2>1. PICK i \in DOMAIN g.queue, c \in FailureClasses :
            /\ IsActive(g, i)
            /\ Commit(p, [g EXCEPT !.queue[i].status = "BLOCKED", !.state = "BLOCKED",
                                   !.error = c, !.reason = "PREFLIGHT_BLOCKED"], "loop")
      BY <1>2, <1>8 DEF PreflightBlocks
    <2> DEFINE e == [g EXCEPT !.queue[i].status = "BLOCKED", !.state = "BLOCKED",
                              !.error = c, !.reason = "PREFLIGHT_BLOCKED"]
    <2>2. [g EXCEPT !.queue[i].status = "BLOCKED"] \in Generation
      BY StatusSet DEF QUEUE_STATES
    <2>3. e \in Generation
      BY <2>2 DEF Generation, ALL_STATES, TERMINAL_STATES, TerminalReasons
    <2>4. /\ e.queue = [g.queue EXCEPT ![i] = [g.queue[i] EXCEPT !.status = "BLOCKED"]]
          /\ e.completed = g.completed /\ e.current = g.current /\ e.owner = g.owner
          /\ e.state = "BLOCKED" /\ e.reason = "PREFLIGHT_BLOCKED"
      BY DEF Generation
    <2>5. Commit(p, e, "loop")
      BY <2>1
    <2> HIDE DEF e
    <2>6. Moves(g, e)
      <3>1. Restated(g, e, i, "BLOCKED")
        BY <2>4 DEF Restated
      <3> QED
        BY <1>3, <2>1, <2>3, <2>4, <3>1, ActiveAtFront, StatusWrite DEF DoneItem, Moves
    <2>7. Live(e) /\ ~Interrupted(e)
      BY <2>4, States DEF Live, Interrupted
    <2> QED
      BY <1>4, <2>3, <2>5, <2>6, <2>7
  <1>9. CASE Dispatch(p)
    <2>1. PICK i \in DOMAIN g.queue :
            /\ IsActive(g, i)
            /\ Commit(p, [g EXCEPT !.queue[i].status = "DISPATCHED",
                                   !.state = "DISPATCHED"], "dispatched")
      BY <1>2, <1>9 DEF Dispatch
    <2> DEFINE e == [g EXCEPT !.queue[i].status = "DISPATCHED", !.state = "DISPATCHED"]
    <2>2. [g EXCEPT !.queue[i].status = "DISPATCHED"] \in Generation
      BY StatusSet DEF QUEUE_STATES
    <2>3. e \in Generation
      BY <2>2 DEF Generation, ALL_STATES, ACTIVE_STATES
    <2>4. /\ e.queue = [g.queue EXCEPT ![i] = [g.queue[i] EXCEPT !.status = "DISPATCHED"]]
          /\ e.completed = g.completed /\ e.current = g.current /\ e.owner = g.owner
          /\ e.state = "DISPATCHED" /\ e.reason = g.reason
      BY DEF Generation
    <2>5. PICK h \in Generation : h = e
      BY <2>3
    <2>6. Commit(p, h, "dispatched")
      BY <2>1, <2>5
    <2> HIDE DEF e
    <2>7. /\ i = Front(g) /\ g.current = Front(g) /\ g.queue[i].status # "COMPLETED"
      BY <1>3, <2>1, ActiveAtFront DEF DoneItem
    <2>8. /\ Shape(h) /\ Follows(g, h) /\ Front(h) = Front(g)
          /\ h.completed < N /\ h.queue[Front(h)].status = "DISPATCHED"
          /\ h.queue[Front(h)].resume = g.queue[i].resume
      <3>1. Restated(g, h, i, "DISPATCHED")
        BY <2>4, <2>5 DEF Restated
      <3> QED
        BY <1>3, <2>7, <3>1, StatusWrite
    <2>9. AtGate(g, Front(h)) /\ AtGate(h, Front(h))
      BY <2>4, <2>5, <2>7, <2>8 DEF AtGate
    <2>10. ASSUME corruptions = 0
           PROVE  /\ Live(h) /\ LabelState("dispatched", h.state) /\ Counted(h.queue)'
                  /\ ~h.queue[Front(h)].resume => fresh'[Front(h)] = 0
                  /\ h.owner = primary.gen.owner /\ AtGate(primary.gen, Front(h))
      <3>1. Counted(g.queue) /\ DOMAIN g.queue \subseteq Gates /\ g = primary.gen
        BY <1>3, <2>10, Holding, Read
      <3>2. Counted(h.queue)'
        BY <1>1, <2>8, <3>1, CountedFollows DEF TypeOK, RecordsTyped
      <3>3. ~h.queue[Front(h)].resume => fresh'[Front(h)] = 0
        BY <1>1, <1>3, <2>7, <2>8, <2>10, <3>1 DEF Counted, history
      <3>4. Live(h) /\ LabelState("dispatched", h.state)
        BY <1>3, <2>4, <2>5, <2>8, <2>10 DEF Live, Interrupted, LabelState
      <3> QED
        BY <2>4, <2>5, <2>9, <3>1, <3>2, <3>3, <3>4
    <2>11. "dispatched" \in Labels \ {"idle", "start"}
      BY DEF Labels
    <2> QED
      BY <1>1, <1>3, <2>6, <2>8, <2>9, <2>10, <2>11, CommitKept
  <1> QED
    BY <1>5, <1>6, <1>7, <1>8, <1>9

\* The child is forked: the intent on file names it already.
LEMMA ForkKept ==
    ASSUME TypeOK, LockHeld, State, NEW p \in Supervisors, Fork(p)
    PROVE  State'
  <1>1. /\ pc[p] = "dispatched" /\ pc' = [pc EXCEPT ![p] = "forked"]
        /\ UNCHANGED <<files, lock, mem, observed, directive, tokens, transaction, retries,
                       corruptions>>
    BY DEF Fork, budgets
  <1>2. primary' = primary /\ previous' = previous
    BY <1>1 DEF files
  <1>3. PICK g \in Generation : g = mem[p]
    BY Read
  <1>4. PICK i \in DOMAIN g.queue :
          /\ IsActive(g, i)
          /\ worker' = [worker EXCEPT ![p] =
                [phase |-> "running", gate |-> g.queue[i].gate,
                 resume |-> g.queue[i].resume, result |-> "NONE"]]
          /\ fresh' = IF g.queue[i].resume THEN fresh
                      ELSE [fresh EXCEPT ![g.queue[i].gate] = @ + 1]
    BY <1>3 DEF Fork
  <1>5. /\ i = Front(g) /\ g.queue[i].gate = i /\ i \in Gates
    BY <1>3, <1>4, Read, ActiveAtFront
  <1>6. /\ pc'[p] = "forked" /\ worker'[p].phase = "running" /\ worker'[p].gate = Front(g)
        /\ \A q \in Supervisors : q # p => pc'[q] = pc[q] /\ worker'[q] = worker[q]
    BY <1>1, <1>4, <1>5 DEF TypeOK, ProcessesTyped
  <1>7. \A q \in Supervisors : q # p => pc[q] = "idle" /\ worker[q].phase # "running"
    BY <1>1, Alone DEF LockHeld
  <1>8. Shaped' /\ Witnessed'
    BY <1>1, <1>2 DEF State, Shaped, Witnessed
  <1>9. GateKept'
    <2>1. AtGate(g, Front(g)) /\ Guarded(Front(g))
      BY <1>1, <1>3 DEF State, GateKept
    <2>2. Guarded(Front(g))'
      BY <1>1, <1>2, <2>1 DEF Guarded
    <2>3. Guarded(Front(mem[p]))' /\ Guarded(worker[p].gate)'
      BY <1>1, <1>3, <1>6, <2>2 DEF Guarded
    <2> QED
      BY <1>1, <1>3, <1>6, <1>7, <2>1, <2>3 DEF GateKept
  <1>10. Undamaged'
    <2> SUFFICES ASSUME corruptions = 0
                 PROVE  /\ primary'.kind = "ok" /\ Live(primary'.gen)
                        /\ InStep' /\ Counted(primary.gen.queue)' /\ FirstFork'
                        /\ Fenced' /\ ClaimedOnce'
      BY <1>1 DEF Undamaged
    <2>1. /\ g = primary.gen /\ Live(g) /\ Counted(g.queue) /\ g.state = "DISPATCHED"
      BY <1>1, <1>3, Holding DEF LabelState
    <2>2. g.queue[i].status \in {"DISPATCHED", "RUNNING"}
      BY <1>5, <2>1, States DEF Live, Interrupted
    <2>3. ~g.queue[i].resume => fresh[i] = 0
      BY <1>1, <1>3, <1>5 DEF State, Undamaged, FirstFork
    <2>4. InStep'
      <3>1. Interrupted(g)
        BY <2>1 DEF Interrupted
      <3> QED
        BY <1>1, <1>2, <1>3, <1>6, <1>7, <2>1, <3>1 DEF InStep, LabelState
    <2>5. \A k \in Gates : fresh'[k] = IF k = i /\ ~g.queue[i].resume THEN 1 ELSE fresh[k]
      BY <1>4, <1>5, <2>3 DEF TypeOK, RecordsTyped
    <2>6. Counted(primary.gen.queue)'
      <3>1. DOMAIN g.queue \subseteq Gates
        BY <1>3, Read, QueueInPlan
      <3>2. Counted(g.queue)'
        BY <1>1, <1>5, <2>1, <2>2, <2>5, <3>1 DEF Counted
      <3> QED
        BY <1>2, <2>1, <3>2 DEF Counted
    <2>7. FirstFork'
      BY <1>6, <1>7 DEF FirstFork
    <2>8. Fenced' /\ ClaimedOnce'
      BY <1>1, <1>2 DEF State, Undamaged, Fenced, ClaimedOnce
    <2> QED
      BY <1>2, <2>1, <2>4, <2>6, <2>7, <2>8 DEF State, Undamaged
  <1> QED
    BY <1>8, <1>9, <1>10 DEF State

\* The lease and the heartbeats.
LEMMA LeaseKept ==
    ASSUME TypeOK, LockHeld, State, NEW p \in Supervisors, RecordRunning(p) \/ Heartbeat(p)
    PROVE  State'
  <1>1. /\ pc[p] \in {"forked", "running"}
        /\ UNCHANGED <<lock, worker, tokens, transaction, history, corruptions>>
    BY DEF RecordRunning, Heartbeat, budgets
  <1>2. PICK g \in Generation : g = mem[p]
    BY Read
  <1>3. Shape(g) /\ AtGate(g, Front(g))
        /\ (worker[p].phase = "running" => worker[p].gate = Front(g))
    BY <1>1, <1>2, Read DEF State, GateKept
  <1>4. corruptions = 0 => /\ g = primary.gen /\ Live(g) /\ Counted(g.queue)
                           /\ DOMAIN g.queue \subseteq Gates
                           /\ g.state = IF pc[p] = "forked" THEN "DISPATCHED" ELSE "RUNNING"
    BY <1>1, <1>2, Holding, Read DEF LabelState
  <1>5. "running" \in Labels \ {"idle", "start"}
    BY DEF Labels
  <1>6. ASSUME NEW h \in Generation, Commit(p, h, "running"), Shape(h), Follows(g, h),
               h.owner = g.owner, h.state = "RUNNING" \/ corruptions # 0,
               corruptions = 0 => Live(h)
        PROVE  State'
    <2>1. Front(h) = Front(g) /\ h.current = g.current
      BY <1>6 DEF Follows, Front
    <2>2. AtGate(h, Front(h)) /\ (worker'[p].phase = "running" => worker'[p].gate = Front(h))
      BY <1>1, <1>3, <2>1 DEF AtGate
    <2>3. ASSUME corruptions = 0
          PROVE  /\ LabelState("running", h.state) /\ Counted(h.queue)' /\ Interrupted(h)
                 /\ h.owner = primary.gen.owner /\ AtGate(primary.gen, Front(h))
      <3>1. Counted(h.queue)'
        BY <1>1, <1>4, <1>6, <2>3, CountedFollows DEF TypeOK, RecordsTyped
      <3>2. AtGate(primary.gen, Front(h))
        BY <1>3, <1>4, <2>1, <2>3
      <3> QED
        BY <1>4, <1>6, <2>3, <3>1, <3>2 DEF LabelState, Interrupted
    <2> QED
      BY <1>1, <1>5, <1>6, <2>2, <2>3, CommitKept
  <1>7. CASE Heartbeat(p)
    <2>1. pc[p] = "running" /\ Commit(p, g, "running")
      BY <1>2, <1>7 DEF Heartbeat
    <2>2. Follows(g, g)
      BY <1>3, PlainWrite
    <2> QED
      BY <1>3, <1>4, <1>6, <2>1, <2>2
  <1>8. CASE RecordRunning(p)
    <2>1. PICK i \in DOMAIN g.queue :
            /\ IsActive(g, i)
            /\ Commit(p, [g EXCEPT !.lease = g.epoch + 1, !.epoch = @ + 1,
                                   !.state = "RUNNING",
                                   !.queue[i].status = "RUNNING"], "running")
      BY <1>2, <1>8 DEF RecordRunning
    <2> DEFINE e == [g EXCEPT !.lease = g.epoch + 1, !.epoch = @ + 1,
                              !.state = "RUNNING", !.queue[i].status = "RUNNING"]
    <2>2. [g EXCEPT !.queue[i].status = "RUNNING"] \in Generation
      BY StatusSet DEF QUEUE_STATES
    <2>3. g.epoch + 1 \in Nat
      BY Parts
    <2>4. e \in Generation
      BY <2>2, <2>3 DEF Generation, ALL_STATES, ACTIVE_STATES
    <2>5. /\ e.queue = [g.queue EXCEPT ![i] = [g.queue[i] EXCEPT !.status = "RUNNING"]]
          /\ e.completed = g.completed /\ e.current = g.current /\ e.owner = g.owner
          /\ e.state = "RUNNING" /\ e.reason = g.reason
      BY DEF Generation
    <2>6. PICK h \in Generation : h = e
      BY <2>4
    <2>7. Commit(p, h, "running")
      BY <2>1, <2>6
    <2> HIDE DEF e
    <2>8. g.queue[i].status # "COMPLETED"
      BY <2>1 DEF IsActive, DoneItem
    <2>9. /\ h.queue = [g.queue EXCEPT ![i] = [g.queue[i] EXCEPT !.status = "RUNNING"]]
          /\ h.completed = g.completed /\ h.current = g.current /\ h.owner = g.owner
          /\ h.state = "RUNNING" /\ h.reason = g.reason
      BY <2>5, <2>6
    <2>10. /\ Shape(h) /\ Follows(g, h) /\ h.completed < N /\ h.queue[Front(h)].status = "RUNNING"
      <3>1. Restated(g, h, i, "RUNNING")
        BY <2>9 DEF Restated
      <3> QED
        BY <1>3, <2>8, <3>1, StatusWrite
    <2>11. corruptions = 0 => Live(h)
      BY <1>4, <2>9, <2>10 DEF Live, Interrupted
    <2> QED
      BY <1>6, <2>7, <2>9, <2>10, <2>11
  <1> QED
    BY <1>7, <1>8

\* The result is received and is to be verified.
LEMMA ReceivedKept ==
    ASSUME TypeOK, LockHeld, State, NEW p \in Supervisors, ResultReceived(p)
    PROVE  State'
  <1>1. /\ pc[p] = "running" /\ worker' = [worker EXCEPT ![p] = NoWorker]
        /\ UNCHANGED <<lock, tokens, transaction, history, corruptions>>
    BY DEF ResultReceived, budgets
  <1>2. /\ worker'[p].phase # "running"
        /\ \A q \in Supervisors : q # p => worker'[q] = worker[q]
    BY <1>1 DEF TypeOK, ProcessesTyped, NoWorker
  <1>3. PICK g \in Generation : g = mem[p]
    BY Read
  <1> DEFINE e == [g EXCEPT !.state = "VERIFYING"]
  <1>4. Commit(p, e, "verifying")
    BY <1>3 DEF ResultReceived
  <1>5. /\ e \in Generation /\ e.queue = g.queue /\ e.completed = g.completed
        /\ e.current = g.current /\ e.owner = g.owner /\ e.state = "VERIFYING"
        /\ e.reason = g.reason
    BY DEF Generation, ALL_STATES, ACTIVE_STATES
  <1>6. PICK h \in Generation : h = e
    BY <1>5
  <1> HIDE DEF e
  <1>7. Shape(h) /\ Follows(g, h) /\ Front(h) = Front(g)
    BY <1>3, <1>5, <1>6, Read, PlainWrite DEF Front
  <1>8. ASSUME corruptions = 0
        PROVE  /\ Live(h) /\ LabelState("verifying", h.state) /\ Counted(h.queue)'
               /\ h.owner = primary.gen.owner
    <2>1. /\ g = primary.gen /\ Live(g) /\ Counted(g.queue) /\ DOMAIN g.queue \subseteq Gates
          /\ g.state = "RUNNING"
      BY <1>1, <1>3, <1>8, Holding, Read DEF LabelState
    <2>2. Counted(h.queue)'
      BY <1>1, <1>7, <2>1, CountedFollows DEF TypeOK, RecordsTyped
    <2>3. Live(h)
      BY <1>5, <1>6, <1>7, <2>1, States DEF Live, Interrupted
    <2> QED
      BY <1>5, <1>6, <2>1, <2>2, <2>3 DEF LabelState
  <1>9. "verifying" \in Labels \ {"idle", "start"}
    BY DEF Labels
  <1>10. Commit(p, h, "verifying")
    BY <1>4, <1>6
  <1> QED
    BY <1>1, <1>2, <1>7, <1>8, <1>9, <1>10, CommitKept

\* A retry within the budget is counted together with its attempt.
LEMMA CountedRetry ==
    ASSUME NEW g \in Generation, NEW h \in Generation, Shape(g), Follows(g, h),
           retries \in [Gates -> Nat], Counted(g.queue), fresh' = fresh,
           NEW i \in DOMAIN g.queue, NEW c, CountRetry(g, i, c),
           c = "EXECUTION_FAILURE" /\ CanRetry(g, i) =>
             h.queue[i].attempt = g.queue[i].attempt + 1
    PROVE  Counted(h.queue)'
  <1>1. DOMAIN g.queue \subseteq Gates /\ g.queue[i].gate = i
    BY QueueInPlan DEF Shape
  <1>2. CASE c = "EXECUTION_FAILURE" /\ CanRetry(g, i)
    <2>1. retries' = [retries EXCEPT ![i] = @ + 1]
      BY <1>1, <1>2 DEF CountRetry
    <2>2. \A k \in Gates : retries'[k] = IF k = i THEN retries[k] + 1 ELSE retries[k]
      BY <1>1, <2>1
    <2>3. /\ \A k \in Gates : retries[k] \in Nat
          /\ \A k \in DOMAIN g.queue : g.queue[k].attempt \in Nat /\ h.queue[k].attempt \in Nat
          /\ RetryBudget \in Nat
      BY Parts, PlanAssumption DEF Follows
    <2>4. retries[i] < g.queue[i].attempt /\ g.queue[i].attempt <= RetryBudget
      BY <1>2 DEF Counted, CanRetry
    <2>5. \A k \in Gates : fresh[k] <= 1 /\ retries'[k] <= RetryBudget
      BY <1>1, <2>2, <2>3, <2>4 DEF Counted
    <2>6. \A k \in DOMAIN g.queue : retries'[k] < h.queue[k].attempt
      <3> TAKE k \in DOMAIN g.queue
      <3>1. k \in Gates /\ retries[k] < g.queue[k].attempt /\ h.queue[k].attempt >= g.queue[k].attempt
        BY <1>1 DEF Counted, Follows
      <3> QED
        BY <1>2, <2>2, <2>3, <3>1
    <2>7. \A k \in Gates : k \notin DOMAIN g.queue => fresh[k] = 0 /\ retries'[k] = 0
      BY <2>2 DEF Counted
    <2>8. \A k \in DOMAIN g.queue : h.queue[k].status = "READY" /\ ~h.queue[k].resume => fresh[k] = 0
      BY DEF Follows, Counted
    <2> QED
      BY <2>5, <2>6, <2>7, <2>8 DEF Follows, Counted
  <1>3. CASE ~(c = "EXECUTION_FAILURE" /\ CanRetry(g, i))
    <2>1. UNCHANGED history
      BY <1>3 DEF CountRetry, history
    <2> QED
      BY <1>1, <2>1, CountedFollows
  <1> QED
    BY <1>2, <1>3

\* A result, or a failure, that leaves the Gate uncompleted.
LEMMA FailureKept ==
    ASSUME TypeOK, LockHeld, State, NEW p \in Supervisors, pc[p] \in {"running", "verifying"},
           NEW c, NEW g \in Generation, g = mem[p], NEW i \in DOMAIN g.queue,
           NEW h \in Generation, Commit(p, h, "loop"), Moves(g, h), Rests(g, h),
           CountRetry(g, i, c),
           c = "EXECUTION_FAILURE" /\ CanRetry(g, i) =>
             h.queue[i].attempt = g.queue[i].attempt + 1,
           UNCHANGED <<lock, tokens, transaction, corruptions, fresh>>,
           worker'[p].phase # "running",
           \A q \in Supervisors : q # p => worker'[q] = worker[q]
    PROVE  State'
  <1>1. Shape(g)
    BY Read
  <1>2. ASSUME corruptions = 0
        PROVE  /\ Live(h) /\ ~Interrupted(h) /\ h.owner = primary.gen.owner
               /\ Counted(h.queue)'
    <2>1. /\ g = primary.gen /\ Live(g) /\ Counted(g.queue)
          /\ g.state \in {"RUNNING", "VERIFYING"}
      BY <1>2, Holding DEF LabelState
    <2>2. g.reason # "MIGRATED_TO_SUCCESSOR"
      BY <2>1 DEF Live
    <2>3. Counted(h.queue)'
      BY <1>1, <2>1, CountedRetry DEF Moves, TypeOK, RecordsTyped
    <2> QED
      BY <2>1, <2>2, <2>3 DEF Moves, Rests
  <1> QED
    BY <1>2, LoopWrite DEF Moves

\* A child that fails, or hangs.
LEMMA WorkerKept ==
    ASSUME TypeOK, LockHeld, State, NEW p \in Supervisors, WorkerFailed(p) \/ WorkerTimesOut(p)
    PROVE  State'
  <1>1. /\ pc[p] = "running" /\ worker' = [worker EXCEPT ![p] = NoWorker]
        /\ UNCHANGED <<lock, tokens, transaction, corruptions, fresh>>
    BY DEF WorkerFailed, WorkerTimesOut, budgets
  <1>2. /\ worker'[p].phase # "running"
        /\ \A q \in Supervisors : q # p => worker'[q] = worker[q]
    BY <1>1 DEF TypeOK, ProcessesTyped, NoWorker
  <1>3. PICK g \in Generation : g = mem[p]
    BY Read
  <1>4. \E c \in FailureClasses : \E i \in DOMAIN g.queue :
          IsActive(g, i) /\ Commit(p, Failed(g, i, c), "loop") /\ CountRetry(g, i, c)
    BY <1>3 DEF WorkerFailed, WorkerTimesOut, FailureClasses
  <1>5. PICK c \in FailureClasses : \E i \in DOMAIN g.queue :
          IsActive(g, i) /\ Commit(p, Failed(g, i, c), "loop") /\ CountRetry(g, i, c)
    BY <1>4
  <1>6. PICK i \in DOMAIN g.queue :
          IsActive(g, i) /\ Commit(p, Failed(g, i, c), "loop") /\ CountRetry(g, i, c)
    BY <1>5
  <1> DEFINE e == Failed(g, i, c)
  <1>7. /\ e \in Generation /\ Moves(g, e) /\ Rests(g, e)
        /\ c = "EXECUTION_FAILURE" /\ CanRetry(g, i) =>
             e.queue[i].attempt = g.queue[i].attempt + 1
    BY <1>3, <1>6, Read, FailedWrite
  <1>8. Commit(p, e, "loop")
    BY <1>6
  <1> HIDE DEF e
  <1> QED
    BY <1>1, <1>2, <1>3, <1>6, <1>7, <1>8, FailureKept

\* Executions and retries, when a Gate completes and the next one is queued.
LEMMA CountedCompleted ==
    ASSUME NEW g \in Generation, Shape(g), NEW i \in DOMAIN g.queue, IsActive(g, i),
           retries \in [Gates -> Nat], Counted(g.queue), UNCHANGED history,
           NEW h \in Generation, h = GateCompleted(g, i)
    PROVE  Counted(h.queue)'
  <1>1. /\ Shape(h) /\ DOMAIN h.queue \subseteq 1 .. (Front(g) + 1)
        /\ \A k \in 1 .. Front(g) :
             /\ k \in DOMAIN h.queue /\ k \in DOMAIN g.queue
             /\ h.queue[k].attempt = g.queue[k].attempt
             /\ h.queue[k].status = "READY" => g.queue[k].status = "READY"
             /\ h.queue[k].resume = g.queue[k].resume
        /\ \A k \in DOMAIN h.queue : k \notin DOMAIN g.queue => h.queue[k].attempt = 1
    BY CompletedWrite
  <1>2. DOMAIN g.queue = 1 .. Front(g) /\ DOMAIN h.queue \subseteq Gates
    BY <1>1, ActiveAtFront, QueueInPlan
  <1>3. fresh' = fresh /\ retries' = retries
    BY DEF history
  <1>4. \A k \in Gates : k \notin DOMAIN h.queue => fresh[k] = 0 /\ retries[k] = 0
    BY <1>1, <1>2 DEF Counted
  <1>5. \A k \in DOMAIN h.queue : retries[k] < h.queue[k].attempt
    BY <1>1, <1>2 DEF Counted
  <1>6. \A k \in DOMAIN h.queue : h.queue[k].status = "READY" /\ ~h.queue[k].resume => fresh[k] = 0
    BY <1>1, <1>2 DEF Counted
  <1> QED
    BY <1>3, <1>4, <1>5, <1>6 DEF Counted

\* A verified result is settled.
LEMMA SettleKept ==
    ASSUME TypeOK, ResultsKnown, LockHeld, State, NEW p \in Supervisors, Settle(p)
    PROVE  State'
  <1>1. /\ pc[p] = "verifying" /\ worker' = worker
        /\ UNCHANGED <<lock, tokens, transaction, corruptions, fresh>>
    BY DEF Settle, budgets
  <1>2. /\ worker'[p].phase # "running"
        /\ \A q \in Supervisors : q # p => worker'[q] = worker[q]
    BY <1>1 DEF LockHeld
  <1>3. PICK g \in Generation : g = mem[p]
    BY Read
  <1>4. Shape(g)
    BY <1>3, Read
  <1>5. PICK r \in Results : r = outcome[p]
    BY <1>1 DEF ResultsKnown
  <1>6. PICK i \in DOMAIN g.queue, why \in VerdictReasons :
          IsActive(g, i) /\ Commit(p, Settled(g, i, r, why), "loop") /\ CountRetry(g, i, r)
    BY <1>3, <1>5 DEF Settle
  <1>7. CASE r # "COMPLETED"
    <2> DEFINE e == Settled(g, i, r, why)
    <2>1. r \in Results \ {"COMPLETED"}
      BY <1>7
    <2>2. /\ e \in Generation /\ Moves(g, e) /\ Rests(g, e)
          /\ r = "EXECUTION_FAILURE" /\ CanRetry(g, i) =>
               e.queue[i].attempt = g.queue[i].attempt + 1
      BY <1>4, <1>6, <2>1, SettledWrite
    <2>3. Commit(p, e, "loop")
      BY <1>6
    <2> HIDE DEF e
    <2> QED
      BY <1>1, <1>2, <1>3, <1>6, <2>2, <2>3, FailureKept
  <1>8. CASE r = "COMPLETED"
    <2>1. Settled(g, i, r, why) = GateCompleted(g, i)
      BY <1>8 DEF Settled, WAIT_STATES
    <2>2. /\ GateCompleted(g, i) \in Generation /\ Shape(GateCompleted(g, i))
          /\ Rests(g, GateCompleted(g, i)) /\ GateCompleted(g, i).owner = g.owner
      BY <1>4, <1>6, CompletedWrite
    <2>3. PICK h \in Generation : h = GateCompleted(g, i)
      BY <2>2
    <2>4. UNCHANGED history
      BY <1>1, <1>6, <1>8 DEF CountRetry, history
    <2>5. ASSUME corruptions = 0
          PROVE  /\ Live(h) /\ ~Interrupted(h) /\ h.owner = primary.gen.owner
                 /\ Counted(h.queue)'
      <3>1. g = primary.gen /\ Live(g) /\ Counted(g.queue) /\ g.state = "VERIFYING"
        BY <1>1, <1>3, <2>5, Holding DEF LabelState
      <3>2. g.reason # "MIGRATED_TO_SUCCESSOR"
        BY <3>1 DEF Live
      <3>3. Counted(h.queue)'
        BY <1>4, <1>6, <2>3, <2>4, <3>1, CountedCompleted DEF TypeOK, RecordsTyped
      <3> QED
        BY <2>2, <2>3, <3>1, <3>2, <3>3 DEF Rests
    <2>6. Commit(p, h, "loop") /\ Shape(h)
      BY <1>6, <2>1, <2>2, <2>3
    <2> QED
      BY <1>1, <1>2, <2>5, <2>6, LoopWrite
  <1> QED
    BY <1>7, <1>8

\* As long as the owners, the durable generation and the tokens stay, so does fencing.
LEMMA FencedKept ==
    ASSUME State, corruptions = 0, primary' = primary, UNCHANGED <<tokens, transaction>>,
           lock # Transaction
    PROVE  Fenced'
  BY DEF State, Undamaged, Fenced

\* Supervisors that start, end, crash or lose their save, and children that exit.
LEMMA ProcessKept ==
    ASSUME TypeOK, LockHeld, State, NEW p \in Supervisors,
           \/ Acquire(p) \/ ReconcileRefused(p) \/ Return(p) \/ WorkerExits(p)
           \/ OrphanExits(p) \/ AbandonedExits(p) \/ Crash(p) \/ SaveFails(p)
    PROVE  State'
  <1>1. /\ TornSave \/ UNCHANGED <<files, observed, directive>>
        /\ UNCHANGED <<corruptions, history, tokens, transaction>>
    BY DEF Acquire, ReconcileRefused, Return, WorkerExits, OrphanExits, AbandonedExits,
       Crash, SaveFails, budgets
  <1>2. primary' = primary
    BY <1>1 DEF TornSave, files
  <1>3. Shape(Initial)
    BY InitialShape
  <1>4. ASSUME corruptions = 0 PROVE Fenced'
    <2>1. CASE AbandonedExits(p)
      BY <1>2, <1>4, <2>1 DEF AbandonedExits, State, Undamaged, Fenced
    <2>2. CASE ~AbandonedExits(p)
      <3>1. lock \in {p, NoOne}
        BY <2>2 DEF Acquire, ReconcileRefused, Return, WorkerExits, OrphanExits,
           Crash, SaveFails, LockHeld, LockFree
      <3> QED
        BY <1>1, <1>2, <1>4, <3>1, FencedKept, PlanAssumption
    <2> QED
      BY <2>1, <2>2
  <1>5. /\ \A q \in Supervisors : Shape(mem[q])
        /\ worker \in [Supervisors -> Worker] /\ pc \in [Supervisors -> Labels]
        /\ mem \in [Supervisors -> Generation]
    BY DEF State, Shaped, TypeOK, ProcessesTyped
  <1>6. ASSUME NEW q \in Supervisors
        PROVE  /\ \/ pc'[q] \in {"idle", "start"} /\ Shape(mem'[q])
                  \/ pc'[q] = pc[q] /\ mem'[q] = mem[q]
               /\ worker'[q].phase = "running" =>
                    /\ worker[q].phase = "running" /\ worker'[q].gate = worker[q].gate
                    /\ pc'[q] = "idle" \/ (pc'[q] = pc[q] /\ mem'[q] = mem[q])
    <2>1. CASE Acquire(p)
      BY <1>5, <2>1 DEF Acquire
    <2>2. CASE ReconcileRefused(p) \/ Return(p)
      BY <1>3, <1>5, <2>2 DEF ReconcileRefused, Return, Idle
    <2>3. CASE WorkerExits(p)
      <3>1. pc' = pc /\ mem' = mem
        BY <2>3 DEF WorkerExits
      <3>2. worker'[q] = worker[q] \/ worker'[q].phase = "exited"
        BY <1>5, <2>3 DEF WorkerExits, Worker
      <3> QED
        BY <3>1, <3>2
    <2>4. CASE OrphanExits(p) \/ AbandonedExits(p)
      BY <1>5, <2>4 DEF OrphanExits, AbandonedExits, NoWorker
    <2>5. CASE Crash(p)
      BY <1>3, <1>5, <2>5 DEF Crash, Idle, NoWorker
    <2>6. CASE SaveFails(p)
      <3>1. worker'[q] = worker[q] \/ worker'[q].phase = "abandoned"
        BY <1>5, <2>6 DEF SaveFails, Worker
      <3>2. (pc'[q] = "idle" /\ mem'[q] = Initial) \/ (pc'[q] = pc[q] /\ mem'[q] = mem[q])
        BY <1>5, <2>6 DEF SaveFails, Idle
      <3> QED
        BY <1>3, <3>1, <3>2
    <2> QED
      BY <2>1, <2>2, <2>3, <2>4, <2>5, <2>6
  <1> QED
    BY <1>1, <1>4, <1>6, QuietKept

\* Continuation transactions, and an operation that dies during its save.
LEMMA TransactionKept ==
    ASSUME TypeOK, LockHeld, State,
           OperationTorn \/ EndTransaction \/ \E h \in tokens : BeginTransaction(h)
    PROVE  State'
  <1>1. /\ TornSave \/ UNCHANGED <<files, observed, directive>>
        /\ UNCHANGED <<corruptions, history, pc, mem, worker>>
    BY DEF OperationTorn, EndTransaction, BeginTransaction, budgets
  <1>2. primary' = primary
    BY <1>1 DEF TornSave, files
  <1>3. ASSUME corruptions = 0 PROVE Fenced'
    <2>1. CASE OperationTorn
      BY <1>2, <1>3, <2>1 DEF OperationTorn, State, Undamaged, Fenced
    <2>2. CASE EndTransaction
      BY <1>2, <1>3, <2>2 DEF EndTransaction, State, Undamaged, Fenced
    <2>3. ASSUME NEW h \in tokens, BeginTransaction(h) PROVE Fenced'
      <3>1. /\ transaction' = h.token /\ lock' = Transaction /\ Loaded.owner = h.token
            /\ tokens' = (tokens \ {h}) \union {[h EXCEPT !.used = TRUE]}
        BY <2>3 DEF BeginTransaction, OwnerCurrent
      <3>2. Loaded = primary.gen
        BY <1>3 DEF State, Undamaged, Loaded
      <3>3. [h EXCEPT !.used = TRUE].token = h.token
        BY DEF TypeOK, RecordsTyped, HeldToken
      <3>4. \A k \in tokens' : k.token # NoToken /\ k.token.epoch <= primary.gen.owner.epoch
        BY <1>3, <3>1, <3>3 DEF State, Undamaged, Fenced
      <3> QED
        BY <1>2, <3>1, <3>2, <3>4 DEF Fenced
    <2> QED
      BY <2>1, <2>2, <2>3
  <1>4. ASSUME NEW q \in Supervisors
        PROVE  /\ \/ pc'[q] \in {"idle", "start"} /\ Shape(mem'[q])
                  \/ pc'[q] = pc[q] /\ mem'[q] = mem[q]
               /\ worker'[q].phase = "running" =>
                    /\ worker[q].phase = "running" /\ worker'[q].gate = worker[q].gate
                    /\ pc'[q] = "idle" \/ (pc'[q] = pc[q] /\ mem'[q] = mem[q])
    BY <1>1
  <1> QED
    BY <1>1, <1>3, <1>4, QuietKept

\* A damage of the primary file: the previous generation is there to be loaded.
LEMMA DamageKept ==
    ASSUME TypeOK, State, NEW k \in {"garbled", "drifted"}, Corrupt(k)
    PROVE  State'
  <1>1. /\ primary.kind = "ok" /\ primary'.kind = k /\ primary'.gen = Initial
        /\ previous' = previous /\ corruptions' = corruptions + 1 /\ corruptions \in Nat
        /\ pc' = pc /\ mem' = mem /\ worker' = worker
        /\ observed'.reason = observed.reason /\ observed'.at = observed.at \ {"primary"}
    BY DEF Corrupt, Damaged, TypeOK, FilesTyped, RecordsTyped, Observation
  <1>2. Shaped'
    BY <1>1, InitialShape DEF State, Shaped
  <1>3. Undamaged'
    BY <1>1 DEF Undamaged
  <1>4. Witnessed'
    BY <1>1 DEF State, Witnessed
  <1>5. ASSUME NEW j, Guarded(j) PROVE Guarded(j)'
    BY <1>1, <1>5 DEF Guarded
  <1>6. GateKept'
    <2> SUFFICES ASSUME NEW q \in Supervisors
                 PROVE  /\ pc'[q] \in {"dispatched", "forked", "running"} =>
                             AtGate(mem'[q], Front(mem'[q])) /\ Guarded(Front(mem[q]))'
                        /\ worker'[q].phase = "running" =>
                             /\ Guarded(worker[q].gate)'
                             /\ pc'[q] # "idle" => worker'[q].gate = Front(mem'[q])
      BY DEF GateKept
    <2>1. PICK j : j = Front(mem[q])
      OBVIOUS
    <2>2. Front(mem'[q]) = j
      BY <1>1, <2>1
    <2>3. PICK w : w = worker[q].gate
      OBVIOUS
    <2>4. pc[q] \in {"dispatched", "forked", "running"} =>
             AtGate(mem[q], Front(mem[q])) /\ Guarded(j)'
      BY <1>5, <2>1 DEF State, GateKept
    <2>5. worker[q].phase = "running" =>
             Guarded(w)' /\ (pc[q] # "idle" => worker[q].gate = Front(mem[q]))
      BY <1>5, <2>3 DEF State, GateKept
    <2> QED
      BY <1>1, <2>1, <2>2, <2>3, <2>4, <2>5 DEF Guarded
  <1> QED
    BY <1>2, <1>3, <1>4, <1>6 DEF State

\* The reconciler reads a wait; the remote operator binds a directive.
LEMMA ObservedKept ==
    ASSUME TypeOK, State, ObserveWait \/ IssueDirective
    PROVE  State'
  <1>1. /\ UNCHANGED <<primary, previous, lock, pc, mem, worker, tokens, transaction,
                        fresh, retries, corruptions>>
    BY DEF ObserveWait, IssueDirective, files, history, budgets
  <1>2. Shaped' /\ GateKept'
    BY <1>1 DEF State, Shaped, GateKept, Guarded
  <1>3. ClaimedOnce => ClaimedOnce'
    BY DEF ObserveWait, IssueDirective, ClaimedOnce
  <1>4. Undamaged'
    <2> SUFFICES ASSUME corruptions = 0
                 PROVE  /\ primary'.kind = "ok" /\ Live(primary'.gen)
                        /\ InStep' /\ Counted(primary.gen.queue)' /\ FirstFork'
                        /\ Fenced' /\ ClaimedOnce'
      BY <1>1 DEF Undamaged
    <2>1. InStep' /\ FirstFork'
      BY <1>1 DEF State, Undamaged, InStep, FirstFork
    <2>2. Counted(primary.gen.queue)' /\ Fenced'
      BY <1>1 DEF State, Undamaged, Counted, Fenced
    <2> QED
      BY <1>1, <1>3, <2>1, <2>2 DEF State, Undamaged
  <1>5. Witnessed'
    <2>1. CASE ObserveWait
      BY <1>1, <2>1 DEF ObserveWait, Witnessed, Loaded
    <2>2. CASE IssueDirective
      BY <1>1, <2>2 DEF IssueDirective, State, Witnessed
    <2> QED
      BY <2>1, <2>2
  <1> QED
    BY <1>2, <1>4, <1>5 DEF State

\* The epoch of a new owner is above those of all earlier ones.
LEMMA NewerOwner ==
    ASSUME NEW g \in Generation
    PROVE  NextOwnerEpoch(g) \in Nat /\ g.owner.epoch < NextOwnerEpoch(g)
  BY Parts DEF NextOwnerEpoch, Larger

\* A generation that only has a new owner.
LEMMA OwnerWrite ==
    ASSUME NEW g \in Generation, Shape(g), NEW t \in Token
    PROVE  LET h == [g EXCEPT !.owner = t] IN
           /\ h \in Generation /\ Shape(h) /\ Follows(g, h) /\ h.owner = t
           /\ Live(g) => Live(h)
  <1> DEFINE h == [g EXCEPT !.owner = t]
  <1>1. /\ h \in Generation /\ h.queue = g.queue /\ h.completed = g.completed
        /\ h.current = g.current /\ h.state = g.state /\ h.reason = g.reason /\ h.owner = t
    BY DEF Generation
  <1> HIDE DEF h
  <1>2. Shape(h) /\ Follows(g, h)
    BY <1>1, PlainWrite
  <1>3. Live(g) => Live(h)
    BY <1>1 DEF Live, Interrupted, Front
  <1> QED
    BY <1>1, <1>2, <1>3 DEF h

\* A directive claims the run and goes on under the same lock.
LEMMA DirectiveKept ==
    ASSUME TypeOK, LockHeld, State, NEW p \in Supervisors, ExecuteDirective(p)
    PROVE  State'
  <1> DEFINE t == [gate |-> directive.gate, epoch |-> directive.epoch]
  <1>1. Loaded \in Generation /\ Shape(Loaded) /\ primary.gen \in Generation
        /\ DOMAIN primary.gen.queue \subseteq Gates
    BY Read
  <1>2. /\ LockFree /\ pc[p] = "idle" /\ worker[p].phase = "none"
        /\ SameDigest(directive.at) /\ directive.epoch = NextOwnerEpoch(Loaded)
        /\ previous' = Rotated /\ primary' = Stored([Loaded EXCEPT !.owner = t])
        /\ observed' = [observed EXCEPT !.at = CopiesRotated(@)]
        /\ directive' = [directive EXCEPT !.at = CopiesRotated(@), !.claims = @ + 1]
        /\ lock' = p /\ pc' = [pc EXCEPT ![p] = "start"]
        /\ UNCHANGED <<mem, worker, tokens, transaction, history, corruptions>>
    BY DEF ExecuteDirective, DirectiveBound, budgets
  <1>3. t \in Token /\ t.epoch = directive.epoch
    BY DEF TypeOK, FilesTyped, Directive, Token
  <1>4. PICK h \in Generation : h = [Loaded EXCEPT !.owner = t]
    BY <1>1, <1>3, OwnerWrite
  <1>5. /\ Shape(h) /\ Follows(Loaded, h) /\ h.owner = t /\ (Live(Loaded) => Live(h))
    BY <1>1, <1>3, <1>4, OwnerWrite
  <1> HIDE DEF t
  <1>6. primary'.kind = "ok" /\ primary'.gen = h
    BY <1>2, <1>4 DEF Stored
  <1>7. /\ observed'.reason = observed.reason /\ observed'.at = CopiesRotated(observed.at)
        /\ directive'.at = CopiesRotated(directive.at)
        /\ directive'.claims = directive.claims + 1 /\ directive.claims \in Nat
    BY <1>2 DEF TypeOK, FilesTyped, Observation, Directive
  <1>8. /\ \A q \in Supervisors : pc'[q] \in {"idle", "start"} /\ worker'[q].phase # "running"
    BY <1>2, PlanAssumption DEF LockHeld, LockFree, TypeOK, ProcessesTyped
  <1>9. Shaped'
    BY <1>2, <1>5, <1>6 DEF State, Shaped, Rotated
  <1>10. GateKept'
    BY <1>8 DEF GateKept
  <1>11. Witnessed'
    <2>1. \A at : "primary" \notin CopiesRotated(at)
      BY DEF CopiesRotated
    <2>2. CASE primary.kind = "garbled"
      BY <1>2, <1>7, <2>1, <2>2 DEF CopiesRotated, Rotated, State, Witnessed
    <2>3. CASE primary.kind # "garbled"
      BY <1>2, <1>7, <2>1, <2>3 DEF CopiesRotated, Rotated, State, Witnessed
    <2> QED
      BY <2>2, <2>3
  <1>12. Undamaged'
    <2> SUFFICES ASSUME corruptions = 0
                 PROVE  /\ primary'.kind = "ok" /\ Live(primary'.gen)
                        /\ InStep' /\ Counted(primary.gen.queue)' /\ FirstFork'
                        /\ Fenced' /\ ClaimedOnce'
      BY <1>2 DEF Undamaged
    <2>1. Loaded = primary.gen /\ primary.kind = "ok" /\ Live(Loaded) /\ Counted(Loaded.queue)
          /\ Fenced /\ ClaimedOnce
      BY DEF State, Undamaged, Loaded
    <2>2. InStep' /\ FirstFork'
      BY <1>8 DEF InStep, LabelState, FirstFork
    <2>3. Counted(primary.gen.queue)'
      <3>1. PICK g \in Generation : g = Loaded
        BY <1>1
      <3>2. Counted(h.queue)'
        BY <1>1, <1>2, <1>5, <2>1, <3>1, CountedFollows DEF TypeOK, RecordsTyped
      <3> QED
        BY <1>6, <3>2 DEF Counted
    <2>4. Fenced'
      <3>1. transaction = NoToken
        BY <1>2, <2>1, PlanAssumption DEF Fenced, LockFree
      <3>2. Loaded.owner.epoch < h.owner.epoch /\ h.owner.epoch \in Nat
            /\ Loaded.owner.epoch \in Nat
        BY <1>1, <1>2, <1>3, <1>5, NewerOwner, Parts
      <3>3. \A k \in tokens : k.token.epoch \in Nat
        BY DEF TypeOK, RecordsTyped, HeldToken, Token
      <3> QED
        BY <1>2, <1>6, <2>1, <3>1, <3>2, <3>3 DEF Fenced
    <2>5. ClaimedOnce'
      <3>1. "primary" \in directive.at
        BY <1>2, <2>1 DEF SameDigest
      <3> QED
        BY <1>7, <2>1, <3>1 DEF ClaimedOnce, CopiesRotated
    <2> QED
      BY <1>5, <1>6, <2>1, <2>2, <2>3, <2>4, <2>5
  <1> QED
    BY <1>9, <1>10, <1>11, <1>12 DEF State

\* An owner is claimed.
LEMMA ClaimKept ==
    ASSUME TypeOK, LockHeld, State, ClaimOwner
    PROVE  State'
  <1> DEFINE t == [gate |-> Loaded.current, epoch |-> NextOwnerEpoch(Loaded)]
  <1>1. Loaded \in Generation /\ Shape(Loaded)
    BY LoadedType DEF TypeOK, State, Shaped, Loaded
  <1>2. /\ LockFree /\ Loaded.current # 0 /\ Intervene([Loaded EXCEPT !.owner = t])
        /\ tokens' = tokens \union {[token |-> t, used |-> FALSE]}
    BY DEF ClaimOwner, MayIntervene
  <1>3. t \in Token /\ t # NoToken /\ t.epoch \in Nat /\ Loaded.owner.epoch < t.epoch
        /\ Loaded.owner.epoch \in Nat
    BY <1>1, <1>2, NewerOwner, Parts DEF Token, NoToken
  <1> HIDE DEF t
  <1>4. PICK h \in Generation : h = [Loaded EXCEPT !.owner = t]
    BY <1>1, <1>3, OwnerWrite
  <1>5. /\ Shape(h) /\ Follows(Loaded, h) /\ h.owner = t /\ (Live(Loaded) => Live(h))
    BY <1>1, <1>3, <1>4, OwnerWrite
  <1>6. ASSUME corruptions = 0
        PROVE  /\ Live(h)
               /\ \A k \in tokens' : k.token # NoToken /\ k.token.epoch <= h.owner.epoch
    <2>1. Loaded = primary.gen /\ Live(Loaded) /\ Fenced
      BY <1>6 DEF State, Undamaged, Loaded
    <2>2. \A k \in tokens : k.token.epoch \in Nat
      BY DEF TypeOK, RecordsTyped, HeldToken, Token
    <2> QED
      BY <1>2, <1>3, <1>5, <2>1, <2>2 DEF Fenced
  <1>7. Intervene(h)
    BY <1>2, <1>4
  <1> QED
    BY <1>2, <1>5, <1>6, <1>7, InterveneKept

\* What an operation reads and, undamaged, knows of it.
LEMMA Operated ==
    ASSUME TypeOK, State
    PROVE  /\ Loaded \in Generation /\ Shape(Loaded) /\ (corruptions = 0 => Live(Loaded))
  BY LoadedType DEF TypeOK, State, Shaped, Undamaged, Loaded

\* A wait is reopened by an operator, a receipt or the reconciler.
LEMMA ResumeKept ==
    ASSUME TypeOK, LockHeld, State,
           ResumeWaitCas \/ \E w \in WAIT_STATES : ResumeWait(w)
    PROVE  State'
  <1>1. PICK g \in Generation : g = Loaded
    BY Operated
  <1>2. PICK i \in DOMAIN g.queue : IsActive(g, i) /\ Intervene(WaitResumed(g, i))
    BY <1>1 DEF ResumeWaitCas, ResumeWait
  <1>3. /\ Shape(g) /\ (corruptions = 0 => Live(g)) /\ g.state \in WAIT_STATES
        /\ LockFree /\ tokens' = tokens
    BY <1>1, Operated DEF ResumeWaitCas, ResumeWait, MayIntervene
  <1> DEFINE e == WaitResumed(g, i)
  <1>4. e \in Generation
    BY ResumableSet DEF WaitResumed, Generation, ALL_STATES, ACTIVE_STATES, FailureClasses,
       WaitReasons
  <1>5. /\ e.queue = [g.queue EXCEPT ![i] = Resumable(g.queue[i])]
        /\ e.completed = g.completed /\ e.current = g.current /\ e.owner = g.owner
        /\ e.state = "RECOVERING" /\ e.reason = g.reason
    BY DEF WaitResumed, Generation
  <1>6. Intervene(e)
    BY <1>2
  <1> HIDE DEF e
  <1>7. g.queue[i].status # "COMPLETED"
    BY <1>2 DEF IsActive, DoneItem
  <1>8. /\ Shape(e) /\ Follows(g, e) /\ e.completed < N /\ e.queue[Front(e)].status = "READY"
    BY <1>3, <1>4, <1>5, <1>7, ResumableWrite
  <1>9. corruptions = 0 => Live(e)
    BY <1>3, <1>5, <1>8, States DEF Live, Interrupted, WAIT_STATES
  <1>10. Moves(Loaded, e)
    BY <1>1, <1>5, <1>8 DEF Moves
  <1> QED
    BY <1>3, <1>4, <1>6, <1>9, <1>10, InterveneSame

\* A blocked Gate is put back, to wait for its provider or to be resumed.
LEMMA UnblockKept ==
    ASSUME TypeOK, LockHeld, State, ReclassifyProviderWait \/ ResumeRecoverableBlock
    PROVE  State'
  <1>1. PICK g \in Generation : g = Loaded
    BY Operated
  <1>2. /\ Shape(g) /\ LockFree /\ tokens' = tokens
    BY <1>1, Operated DEF ReclassifyProviderWait, ResumeRecoverableBlock, MayIntervene
  <1>3. ASSUME NEW i \in DOMAIN g.queue, OneBlocked(g, i), NEW h \in Generation, Intervene(h),
               \/ h.queue = [g.queue EXCEPT ![i] = Resumable(g.queue[i])]
               \/ h.queue = [g.queue EXCEPT ![i] = NextAttempt(g.queue[i])],
               h.completed = g.completed, h.current = g.current, h.owner = g.owner,
               h.state \in {"WAITING_PROVIDER", "RECOVERING"}, h.reason = "NONE"
        PROVE  State'
    <2>1. g.queue[i].status # "COMPLETED"
      BY <1>3 DEF OneBlocked
    <2>2. /\ Shape(h) /\ Follows(g, h) /\ h.completed < N /\ h.queue[Front(h)].status = "READY"
      BY <1>2, <1>3, <2>1, ResumableWrite
    <2>3. Live(h)
      BY <1>3, <2>2 DEF Live, Interrupted
    <2>4. Moves(Loaded, h)
      BY <1>1, <1>3, <2>2 DEF Moves
    <2> QED
      BY <1>2, <1>3, <2>3, <2>4, InterveneSame
  <1>4. CASE ReclassifyProviderWait
    <2>1. PICK i \in DOMAIN g.queue :
            /\ OneBlocked(g, i)
            /\ Intervene([g EXCEPT !.queue[i] = Resumable(@), !.state = "WAITING_PROVIDER",
                                   !.reason = "NONE", !.lease = 0])
      BY <1>1, <1>4 DEF ReclassifyProviderWait
    <2> DEFINE e == [g EXCEPT !.queue[i] = Resumable(@), !.state = "WAITING_PROVIDER",
                              !.reason = "NONE", !.lease = 0]
    <2>2. e \in Generation
      BY ResumableSet DEF Generation, ALL_STATES, WAIT_STATES, TerminalReasons
    <2>3. /\ e.queue = [g.queue EXCEPT ![i] = Resumable(g.queue[i])]
          /\ e.completed = g.completed /\ e.current = g.current /\ e.owner = g.owner
          /\ e.state = "WAITING_PROVIDER" /\ e.reason = "NONE"
      BY DEF Generation
    <2>4. Intervene(e)
      BY <2>1
    <2> HIDE DEF e
    <2> QED
      BY <1>3, <2>1, <2>2, <2>3, <2>4
  <1>5. CASE ResumeRecoverableBlock
    <2>1. PICK i \in DOMAIN g.queue :
            /\ OneBlocked(g, i)
            /\ Intervene([Requeued(g, i) EXCEPT !.reason = "NONE",
                                                !.error = "EXECUTION_FAILURE"])
      BY <1>1, <1>5 DEF ResumeRecoverableBlock
    <2> DEFINE r == Requeued(g, i)
    <2>2. r \in Generation
      BY ReconciledType
    <2>3. /\ r.queue = [g.queue EXCEPT ![i] = NextAttempt(g.queue[i])]
          /\ r.completed = g.completed /\ r.current = g.current /\ r.owner = g.owner
          /\ r.state = "RECOVERING"
      BY DEF Requeued, Generation
    <2> DEFINE e == [r EXCEPT !.reason = "NONE", !.error = "EXECUTION_FAILURE"]
    <2>4. Intervene(e)
      BY <2>1
    <2> HIDE DEF r
    <2>5. /\ e \in Generation /\ e.queue = r.queue /\ e.completed = r.completed
          /\ e.current = r.current /\ e.owner = r.owner /\ e.state = r.state
          /\ e.reason = "NONE"
      BY <2>2 DEF Generation, TerminalReasons, FailureClasses
    <2> HIDE DEF e
    <2>6. e.queue = [g.queue EXCEPT ![i] = NextAttempt(g.queue[i])]
      BY <2>3, <2>5
    <2> QED
      BY <1>3, <2>1, <2>3, <2>4, <2>5, <2>6
  <1> QED
    BY <1>4, <1>5

\* The run is cancelled, or closed in favour of a successor.
LEMMA CloseKept ==
    ASSUME TypeOK, LockHeld, State, Cancel \/ \E m \in Migrations : ClosePredecessor(m)
    PROVE  State'
  <1>1. PICK g \in Generation : g = Loaded
    BY Operated
  <1>2. /\ Shape(g) /\ LockFree /\ tokens' = tokens
    BY <1>1, Operated DEF Cancel, ClosePredecessor, MayIntervene
  <1>3. ASSUME NEW d \in Generation, d.queue = g.queue, d.completed = g.completed,
               d.current = g.current, d.owner = g.owner, d.state = "CANCELLED",
               \/ Intervene(d)
               \/ \E i \in DOMAIN g.queue :
                    IsActive(g, i) /\ Intervene([d EXCEPT !.queue[i].status = "CANCELLED"])
        PROVE  State'
    <2>1. CASE Intervene(d)
      <3>1. Moves(Loaded, d)
        BY <1>1, <1>2, <1>3, PlainWrite DEF Moves
      <3>2. Live(d)
        BY <1>3, States DEF Live
      <3> QED
        BY <1>2, <2>1, <3>1, <3>2, InterveneSame
    <2>2. ASSUME NEW i \in DOMAIN g.queue, IsActive(g, i),
                 Intervene([d EXCEPT !.queue[i].status = "CANCELLED"])
          PROVE  State'
      <3> DEFINE e == [d EXCEPT !.queue[i].status = "CANCELLED"]
      <3>1. e \in Generation
        BY <1>3, StatusSet DEF QUEUE_STATES
      <3>2. /\ e.queue = [g.queue EXCEPT ![i] = [g.queue[i] EXCEPT !.status = "CANCELLED"]]
            /\ e.completed = g.completed /\ e.current = g.current /\ e.owner = g.owner
            /\ e.state = "CANCELLED"
        BY <1>3 DEF Generation
      <3>3. Intervene(e)
        BY <2>2
      <3> HIDE DEF e
      <3>4. Restated(g, e, i, "CANCELLED")
        BY <3>2 DEF Restated
      <3>5. Shape(e) /\ Follows(g, e)
        BY <1>2, <2>2, <3>1, <3>4, ActiveAtFront, StatusWrite DEF DoneItem
      <3>6. Live(e) /\ Moves(Loaded, e)
        BY <1>1, <3>2, <3>5, States DEF Live, Moves
      <3> QED
        BY <1>2, <3>1, <3>3, <3>6, InterveneSame
    <2> QED
      BY <1>3, <2>1, <2>2
  <1>4. CASE Cancel
    <2> DEFINE d == [g EXCEPT !.state = "CANCELLED", !.reason = "CANCELLED", !.lease = 0]
    <2>1. /\ d \in Generation /\ d.queue = g.queue /\ d.completed = g.completed
          /\ d.current = g.current /\ d.owner = g.owner /\ d.state = "CANCELLED"
      BY DEF Generation, ALL_STATES, TERMINAL_STATES, TerminalReasons
    <2>2. \/ Intervene(d)
          \/ \E i \in DOMAIN g.queue :
               IsActive(g, i) /\ Intervene([d EXCEPT !.queue[i].status = "CANCELLED"])
      BY <1>1, <1>4 DEF Cancel
    <2> HIDE DEF d
    <2> QED
      BY <1>3, <2>1, <2>2
  <1>5. ASSUME NEW m \in Migrations, ClosePredecessor(m) PROVE State'
    <2> DEFINE d == [g EXCEPT !.state = "CANCELLED", !.error = "EXECUTION_FAILURE",
                              !.lease = 0, !.reason = "MIGRATED_TO_SUCCESSOR"]
    <2>1. /\ d \in Generation /\ d.queue = g.queue /\ d.completed = g.completed
          /\ d.current = g.current /\ d.owner = g.owner /\ d.state = "CANCELLED"
      BY DEF Generation, ALL_STATES, TERMINAL_STATES, TerminalReasons, FailureClasses
    <2>2. \/ Intervene(d)
          \/ \E i \in DOMAIN g.queue :
               IsActive(g, i) /\ Intervene([d EXCEPT !.queue[i].status = "CANCELLED"])
      BY <1>1, <1>5 DEF ClosePredecessor
    <2> HIDE DEF d
    <2> QED
      BY <1>3, <2>1, <2>2
  <1> QED
    BY <1>4, <1>5

\* The run is quiesced for a migration, whose successor is verified and qualified.
LEMMA MigrationKept ==
    ASSUME TypeOK, LockHeld, State, NEW m \in Migrations,
           Quiesce(m) \/ RecordVerifiedSuccessor(m) \/ RecordQualification(m)
    PROVE  State'
  <1>1. PICK g \in Generation : g = Loaded
    BY Operated
  <1>2. /\ Shape(g) /\ LockFree /\ tokens' = tokens /\ (corruptions = 0 => Live(g))
        /\ g.state \notin TERMINAL_STATES
    BY <1>1, Operated, States
       DEF Quiesce, RecordVerifiedSuccessor, RecordQualification, MayIntervene, TERMINAL_STATES
  <1>3. ASSUME NEW h \in Generation, Intervene(h), h.queue = g.queue,
               h.completed = g.completed, h.current = g.current, h.owner = g.owner,
               h.reason = g.reason, h.state = "WAITING_RESOURCE",
               corruptions = 0 => ~Interrupted(g)
        PROVE  State'
    <2>1. Moves(Loaded, h)
      BY <1>1, <1>2, <1>3, PlainWrite DEF Moves
    <2>2. corruptions = 0 => Live(h)
      BY <1>2, <1>3, States DEF Live, Interrupted, Front
    <2> QED
      BY <1>2, <1>3, <2>1, <2>2, InterveneSame
  <1>4. CASE Quiesce(m)
    <2>1. PICK q \in BOOLEAN :
            Intervene([g EXCEPT !.state = "WAITING_RESOURCE", !.lease = 0,
                                !.wait = "RUNTIME_MIGRATION_QUIESCED",
                                !.error = "EXECUTION_FAILURE", !.migration = m, !.qualify = q])
      BY <1>1, <1>4 DEF Quiesce
    <2> DEFINE e == [g EXCEPT !.state = "WAITING_RESOURCE", !.lease = 0,
                              !.wait = "RUNTIME_MIGRATION_QUIESCED",
                              !.error = "EXECUTION_FAILURE", !.migration = m, !.qualify = q]
    <2>2. /\ e \in Generation /\ e.queue = g.queue /\ e.completed = g.completed
          /\ e.current = g.current /\ e.owner = g.owner /\ e.reason = g.reason
          /\ e.state = "WAITING_RESOURCE"
      BY DEF Generation, ALL_STATES, WAIT_STATES, WaitReasons, FailureClasses, MigrationIds
    <2>3. Intervene(e)
      BY <2>1
    <2> HIDE DEF e
    <2>4. ASSUME corruptions = 0, Interrupted(g) PROVE FALSE
      <3>1. g.completed < N /\ g.queue[Front(g)].status \in {"DISPATCHED", "RUNNING"}
        BY <1>2, <2>4 DEF Live
      <3>2. Front(g) \in DOMAIN g.queue /\ IsActive(g, Front(g))
        BY <1>2, <3>1, FrontIsActive DEF DoneItem
      <3> QED
        BY <1>1, <1>4, <3>1, <3>2 DEF Quiesce
    <2> QED
      BY <1>3, <2>2, <2>3, <2>4
  <1>5. CASE RecordVerifiedSuccessor(m)
    <2> DEFINE e == [g EXCEPT !.successor = m, !.verified = TRUE]
    <2>1. Intervene(e) /\ g.state = "WAITING_RESOURCE"
      BY <1>1, <1>5 DEF RecordVerifiedSuccessor
    <2>2. /\ e \in Generation /\ e.queue = g.queue /\ e.completed = g.completed
          /\ e.current = g.current /\ e.owner = g.owner /\ e.reason = g.reason
          /\ e.state = g.state
      BY DEF Generation, MigrationIds
    <2> HIDE DEF e
    <2> QED
      BY <1>3, <2>1, <2>2 DEF Interrupted
  <1>6. CASE RecordQualification(m)
    <2> DEFINE e == [g EXCEPT !.qualified = m]
    <2>1. Intervene(e) /\ g.state = "WAITING_RESOURCE"
      BY <1>1, <1>6 DEF RecordQualification
    <2>2. /\ e \in Generation /\ e.queue = g.queue /\ e.completed = g.completed
          /\ e.current = g.current /\ e.owner = g.owner /\ e.reason = g.reason
          /\ e.state = g.state
      BY DEF Generation, MigrationIds
    <2> HIDE DEF e
    <2> QED
      BY <1>3, <2>1, <2>2 DEF Interrupted
  <1> QED
    BY <1>4, <1>5, <1>6

\* Every step keeps all of the invariant but the part about results.
LEMMA StateStep ==
    ASSUME TypeOK, ResultsKnown, LockHeld, State, Next
    PROVE  State'
  <1>1. ASSUME NEW p \in Supervisors, SupervisorStep(p) PROVE State'
    <2>1. CASE ReconcileStartup(p)
      BY <2>1, StartupKept
    <2>2. CASE ReconcileRefused(p) \/ Return(p) \/ WorkerExits(p) \/ OrphanExits(p)
      BY <2>2, ProcessKept
    <2>3. CASE NothingQueued(p) \/ LowResources(p) \/ PreflightWaits(p)
               \/ PreflightBlocks(p) \/ Dispatch(p)
      BY <2>3, DispatchLoopKept
    <2>4. CASE Fork(p)
      BY <2>4, ForkKept
    <2>5. CASE RecordRunning(p) \/ Heartbeat(p)
      BY <2>5, LeaseKept
    <2>6. CASE ResultReceived(p)
      BY <2>6, ReceivedKept
    <2>7. CASE WorkerFailed(p) \/ WorkerTimesOut(p)
      BY <2>7, WorkerKept
    <2>8. CASE Settle(p)
      BY <2>8, SettleKept
    <2> QED
      BY <1>1, <2>1, <2>2, <2>3, <2>4, <2>5, <2>6, <2>7, <2>8 DEF SupervisorStep
  <1>2. CASE Operation
    BY <1>2, ResumeKept, ObservedKept, CloseKept, UnblockKept, ClaimKept, TransactionKept,
       MigrationKept DEF Operation
  <1>3. ASSUME NEW p \in Supervisors,
               Acquire(p) \/ Crash(p) \/ SaveFails(p) \/ AbandonedExits(p)
        PROVE  State'
    BY <1>3, ProcessKept
  <1>4. ASSUME NEW p \in Supervisors, ExecuteDirective(p) PROVE State'
    BY <1>4, DirectiveKept
  <1>5. CASE EndTransaction \/ \E h \in tokens : BeginTransaction(h)
    BY <1>5, TransactionKept
  <1>6. ASSUME NEW k \in {"garbled", "drifted"}, Corrupt(k) PROVE State'
    BY <1>6, DamageKept
  <1> QED
    BY <1>1, <1>2, <1>3, <1>4, <1>5, <1>6 DEF Next

\* So does the part about results.
LEMMA ResultsHeldStep ==
    ASSUME TypeOK, LockHeld, ResultsHeld, Next
    PROVE  ResultsHeld'
  <1> USE DEF TypeOK, ProcessesTyped, LockHeld, ResultsHeld
  <1>1. ASSUME NEW p \in Supervisors, Acquire(p) \/ ExecuteDirective(p)
        PROVE  ResultsHeld'
    BY <1>1 DEF Acquire, ExecuteDirective
  <1>2. ASSUME NEW p \in Supervisors,
               \/ ReconcileStartup(p) \/ NothingQueued(p) \/ LowResources(p)
               \/ PreflightWaits(p) \/ PreflightBlocks(p) \/ Dispatch(p)
        PROVE  ResultsHeld'
    <2>1. /\ pc[p] \in {"start", "loop"}
          /\ \E l \in {"loop", "dispatched"} : pc' = [pc EXCEPT ![p] = l]
          /\ UNCHANGED <<worker, outcome>>
      BY <1>2 DEF ReconcileStartup, NothingQueued, LowResources, PreflightWaits,
         PreflightBlocks, Dispatch, Commit, InLoop
    <2> QED
      BY <2>1
  <1>3. ASSUME NEW p \in Supervisors, RecordRunning(p) \/ Heartbeat(p)
        PROVE  ResultsHeld'
    <2>1. /\ pc[p] \in {"forked", "running"} /\ pc' = [pc EXCEPT ![p] = "running"]
          /\ UNCHANGED <<worker, outcome>>
      BY <1>3 DEF RecordRunning, Heartbeat, Commit
    <2> QED
      BY <2>1
  <1>4. ASSUME NEW p \in Supervisors, Return(p) \/ ReconcileRefused(p)
        PROVE  ResultsHeld'
    BY <1>4 DEF Return, ReconcileRefused, Idle
  <1>5. ASSUME NEW p \in Supervisors, Fork(p) PROVE ResultsHeld'
    BY <1>5 DEF Fork
  <1>6. ASSUME NEW p \in Supervisors, WorkerExits(p) PROVE ResultsHeld'
    BY <1>6 DEF WorkerExits
  <1>7. ASSUME NEW p \in Supervisors, ResultReceived(p) PROVE ResultsHeld'
    BY <1>7 DEF ResultReceived, Commit, NoWorker
  <1>8. ASSUME NEW p \in Supervisors, WorkerFailed(p) \/ WorkerTimesOut(p)
        PROVE  ResultsHeld'
    <2>1. /\ pc[p] = "running" /\ pc' = [pc EXCEPT ![p] = "loop"]
          /\ worker' = [worker EXCEPT ![p] = NoWorker] /\ UNCHANGED outcome
      BY <1>8 DEF WorkerFailed, WorkerTimesOut, Commit
    <2> QED
      BY <2>1 DEF NoWorker
  <1>9. ASSUME NEW p \in Supervisors, Settle(p) PROVE ResultsHeld'
    BY <1>9 DEF Settle, Commit
  <1>10. ASSUME NEW p \in Supervisors, Crash(p) PROVE ResultsHeld'
    BY <1>10 DEF Crash, Idle, NoWorker
  <1>11. ASSUME NEW p \in Supervisors, SaveFails(p) PROVE ResultsHeld'
    BY <1>11 DEF SaveFails, Idle, Worker
  <1>12. ASSUME NEW p \in Supervisors, OrphanExits(p) \/ AbandonedExits(p)
         PROVE  ResultsHeld'
    BY <1>12 DEF OrphanExits, AbandonedExits, NoWorker
  <1>13. CASE Operation
    <2>1. \/ \E g : Intervene(g)
          \/ ObserveWait \/ IssueDirective \/ OperationTorn
      BY <1>13 DEF Operation, ResumeWait, ResumeWaitCas, Cancel,
         ReclassifyProviderWait, ResumeRecoverableBlock, ClaimOwner, Quiesce,
         RecordVerifiedSuccessor, RecordQualification, ClosePredecessor
    <2>2. UNCHANGED <<pc, worker, outcome>>
      BY <2>1 DEF Intervene, ObserveWait, IssueDirective, OperationTorn
    <2> QED
      BY <2>2
  <1>14. CASE EndTransaction \/ (\E h \in tokens : BeginTransaction(h))
              \/ \E k \in {"garbled", "drifted"} : Corrupt(k)
    BY <1>14 DEF EndTransaction, BeginTransaction, Corrupt
  <1> QED
    BY <1>1, <1>2, <1>3, <1>4, <1>5, <1>6, <1>7, <1>8, <1>9, <1>10, <1>11, <1>12, <1>13,
       <1>14 DEF Next, SupervisorStep

-----------------------------------------------------------------------------
(* The theorems. *)

\* The invariant of the durable run: what the two files, the memory of the
\* supervisors, the live child and the counts of its executions have to do with
\* one another.
THEOREM Continuity == Spec => []IInv
  <1>1. Init => IInv
    <2> SUFFICES ASSUME Init PROVE IInv
      OBVIOUS
    <2>1. /\ primary = Stored(Initial) /\ primary.kind = "ok" /\ primary.gen = Initial
          /\ previous.gen = Initial /\ corruptions = 0
          /\ \A p \in Supervisors : /\ pc[p] = "idle" /\ mem[p] = Initial
                                     /\ worker[p].phase = "none" /\ outcome[p] = "NONE"
      BY DEF Init, Stored, Damaged, NoWorker
    <2>2. Shape(Initial) /\ Live(Initial)
      BY InitialShape
    <2>3. Shaped /\ ResultsHeld /\ GateKept /\ Witnessed
      BY <2>1, <2>2 DEF Init, Shaped, ResultsHeld, GateKept, Witnessed
    <2>4. InStep /\ FirstFork
      BY <2>1 DEF InStep, FirstFork, LabelState
    <2>5. Counted(primary.gen.queue)
      <3> DEFINE q == <<QueueItem(1)>>
      <3>1. Initial.queue = q
        BY DEF Initial
      <3>2. DOMAIN q = {1} /\ q[1].attempt = 1 /\ 1 \in Gates /\ RetryBudget \in Nat
        BY PlanAssumption DEF QueueItem, Gates
      <3>3. \A k \in Gates : fresh[k] = 0 /\ retries[k] = 0
        BY DEF Init
      <3> HIDE DEF q
      <3> QED
        BY <2>1, <3>1, <3>2, <3>3 DEF Counted
    <2>6. Fenced /\ ClaimedOnce
      BY DEF Init, Fenced, ClaimedOnce
    <2> QED
      BY <2>1, <2>2, <2>3, <2>4, <2>5, <2>6 DEF IInv, Undamaged
  <1>2. TypeOK /\ ResultsKnown /\ LockHeld /\ IInv /\ [Next]_vars => IInv'
    <2> SUFFICES ASSUME TypeOK, ResultsKnown, LockHeld, IInv, [Next]_vars PROVE IInv'
      OBVIOUS
    <2>1. CASE UNCHANGED vars
      <3>1. Shaped' /\ ResultsHeld' /\ GateKept' /\ Witnessed'
        BY <2>1 DEF vars, IInv, Shaped, ResultsHeld, GateKept, Guarded, Witnessed
      <3>2. Undamaged'
        BY <2>1 DEF vars, IInv, Undamaged, InStep, Counted, FirstFork, Fenced, ClaimedOnce
      <3> QED
        BY <3>1, <3>2 DEF IInv
    <2>2. CASE Next
      BY <2>2, StateStep, ResultsHeldStep DEF IInv, State
    <2> QED
      BY <2>1, <2>2
  <1> QED
    BY <1>1, <1>2, TypeCorrect, LockFollowsProcesses, PTL DEF Spec

\* No crash between a Gate's completion and its successor's dispatch loses the
\* successor: the durable queue of a nonterminal run has the next Gate in it.
THEOREM SuccessorIsQueued == Spec => []SuccessorDurable
  <1>1. TypeOK /\ IInv => SuccessorDurable
    <2> SUFFICES ASSUME TypeOK, IInv, corruptions = 0, Loaded.state \notin TERMINAL_STATES
                 PROVE  /\ Loaded.current = Loaded.completed + 1
                        /\ \E i \in DOMAIN Loaded.queue :
                              IsActive(Loaded, i) /\ Loaded.queue[i].gate = Loaded.current
      BY DEF SuccessorDurable
    <2>1. Loaded \in Generation /\ Shape(Loaded) /\ Live(Loaded)
      BY Operated DEF IInv, State
    <2>2. Loaded.completed < N /\ Loaded.queue[Front(Loaded)].status \notin DoneItem
      BY <2>1 DEF Live, DoneItem
    <2>3. /\ Front(Loaded) \in DOMAIN Loaded.queue /\ IsActive(Loaded, Front(Loaded))
          /\ Loaded.queue[Front(Loaded)].gate = Front(Loaded)
      BY <2>1, <2>2, FrontIsActive
    <2>4. Loaded.current = Front(Loaded)
      BY <2>1, <2>3, ActiveAtFront
    <2> QED
      BY <2>3, <2>4 DEF Front
  <1> QED
    BY <1>1, Continuity, TypeCorrect, PTL

\* While a Gate process is alive, what a restart would load names its Gate as
\* dispatched or running: the intent is written before the process exists, and no
\* crash, orphan or operation takes it back while the process lives.
THEOREM DispatchIntentIsDurable == Spec => []DispatchIntentDurable
  <1>1. TypeOK /\ IInv => DispatchIntentDurable
    <2> SUFFICES ASSUME TypeOK, IInv, corruptions = 0, NEW p \in Supervisors,
                        worker[p].phase = "running"
                 PROVE  /\ Interrupted(Loaded)
                        /\ \E i \in DOMAIN Loaded.queue :
                              IsActive(Loaded, i) /\ Loaded.queue[i].gate = worker[p].gate
      BY DEF DispatchIntentDurable
    <2>1. /\ Loaded \in Generation /\ Shape(Loaded) /\ Live(Loaded)
          /\ Interrupted(Loaded) /\ worker[p].gate = Front(Loaded)
      BY Operated DEF IInv, State, Undamaged, InStep, Loaded
    <2>2. Loaded.completed < N /\ Loaded.queue[Front(Loaded)].status \notin DoneItem
      BY <2>1, States DEF Live, DoneItem, Interrupted
    <2> QED
      BY <2>1, <2>2, FrontIsActive
  <1> QED
    BY <1>1, Continuity, TypeCorrect, PTL

\* A Gate is executed from scratch at most once, through any number of crashes,
\* waits, resumptions and redelivered directives.
THEOREM FirstExecutionIsOnly == Spec => []FirstExecutionOnce
  <1>1. IInv => FirstExecutionOnce
    BY DEF IInv, Undamaged, Counted, FirstExecutionOnce
  <1> QED
    BY <1>1, Continuity, PTL

\* The retry budget of a Gate survives crashes and resumptions.
THEOREM RetriesAreBounded == Spec => []RetriesBounded
  <1>1. IInv => RetriesBounded
    BY DEF IInv, Undamaged, Counted, RetriesBounded
  <1> QED
    BY <1>1, Continuity, PTL

\* A continuation transaction runs under the newest owner ever claimed: a token
\* fenced by a later claim never gets in, whoever asks in whatever order.
THEOREM TransactionsAreFenced == Spec => []FencedTransaction
  <1>1. IInv => FencedTransaction
    BY DEF IInv, Undamaged, Fenced, FencedTransaction, Loaded
  <1> QED
    BY <1>1, Continuity, PTL

\* A remote directive claims the run at most once, however often it is executed.
THEOREM DirectivesClaimOnce == Spec => []DirectiveClaimsOnce
  <1>1. IInv => DirectiveClaimsOnce
    BY DEF IInv, Undamaged, ClaimedOnce, DirectiveClaimsOnce
  <1> QED
    BY <1>1, Continuity, PTL

\* One damage of the state file during an execution leaves a generation that
\* still names the Gate of the live process.
THEOREM DamageLosesNoGate == Spec => []DamageKeepsGate
  <1>1. TypeOK /\ IInv => DamageKeepsGate
    <2> SUFFICES ASSUME TypeOK, IInv, corruptions <= 1,
                        "drifted" \notin {primary.kind, previous.kind},
                        NEW p \in Supervisors, worker[p].phase = "running"
                 PROVE  /\ Loadable /\ Loaded.current = worker[p].gate
                        /\ Loaded.completed + 1 = worker[p].gate
      BY DEF DamageKeepsGate
    <2>1. Guarded(worker[p].gate)
      BY DEF IInv, GateKept
    <2>2. CASE primary.kind = "ok"
      BY <2>1, <2>2 DEF Guarded, AtGate, Front, Loaded, Loadable
    <2>3. CASE primary.kind # "ok"
      BY <2>1, <2>3 DEF Guarded, AtGate, Front, Loaded, Loadable
    <2> QED
      BY <2>2, <2>3
  <1> QED
    BY <1>1, Continuity, TypeCorrect, PTL

\* The reconciler reopens only the wait it evaluated: whatever was written between
\* its unlocked read and its compare-and-swap changes the digest it compares.
THEOREM ObservedWaitIsResumed == Spec => AutoResumeIsObserved
  <1>1. IInv /\ [Next]_vars => [ResumeWaitCas => Loaded.wait = observed.reason]_vars
    BY DEF IInv, Witnessed, ResumeWaitCas, ObservationHolds, SameDigest, Loaded
  <1> QED
    BY <1>1, Continuity, PTL DEF Spec, AutoResumeIsObserved

\* No save, complete or torn, makes the last valid generation unreadable, unless the
\* primary parses and fails its seal.
THEOREM GoodGenerationStays == Spec => PreviousGoodRetained
  <1>1. TypeOK /\ IInv /\ [Next]_vars =>
          [Loadable /\ corruptions' = corruptions /\ primary.kind # "drifted" => Loadable']_vars
    <2> SUFFICES ASSUME TypeOK, IInv, Next, Loadable, corruptions' = corruptions,
                        primary.kind # "drifted"
                 PROVE  Loadable'
      OBVIOUS
    <2>1. primary.kind \in {"ok", "garbled"} /\ corruptions \in Nat
      BY DEF TypeOK, FilesTyped, File, RecordsTyped, IInv, Shaped
    <2>2. ASSUME NEW g, Persist(g) PROVE Loadable'
      BY <2>2 DEF Persist, Stored, Loadable
    <2>3. ASSUME TornSave \/ UNCHANGED files PROVE Loadable'
      BY <2>1, <2>3 DEF TornSave, Rotated, Loadable, files
    <2>4. ASSUME NEW p \in Supervisors, SupervisorStep(p) PROVE Loadable'
      <3>1. (\E g : Persist(g)) \/ UNCHANGED files
        BY <2>4 DEF SupervisorStep, ReconcileStartup, ReconcileRefused, Return, NothingQueued,
           LowResources, PreflightWaits, PreflightBlocks, Dispatch, Fork, RecordRunning,
           Heartbeat, ResultReceived, WorkerFailed, WorkerTimesOut, Settle, WorkerExits,
           OrphanExits, Commit
      <3> QED
        BY <2>2, <2>3, <3>1
    <2>5. CASE Operation
      <3>1. (\E g : Intervene(g)) \/ ObserveWait \/ IssueDirective \/ OperationTorn
        BY <2>5 DEF Operation, ResumeWait, ResumeWaitCas, Cancel, ReclassifyProviderWait,
           ResumeRecoverableBlock, ClaimOwner, Quiesce, RecordVerifiedSuccessor,
           RecordQualification, ClosePredecessor
      <3> QED
        BY <2>2, <2>3, <3>1 DEF Intervene, ObserveWait, IssueDirective, OperationTorn
    <2>6. ASSUME NEW p \in Supervisors,
                 Acquire(p) \/ Crash(p) \/ SaveFails(p) \/ AbandonedExits(p)
          PROVE  Loadable'
      BY <2>3, <2>6 DEF Acquire, Crash, SaveFails, AbandonedExits
    <2>7. ASSUME NEW p \in Supervisors, ExecuteDirective(p) PROVE Loadable'
      BY <2>7 DEF ExecuteDirective, Stored, Loadable
    <2>8. CASE EndTransaction \/ \E h \in tokens : BeginTransaction(h)
      BY <2>3, <2>8 DEF EndTransaction, BeginTransaction
    <2>9. ASSUME NEW k \in {"garbled", "drifted"}, Corrupt(k) PROVE FALSE
      BY <2>1, <2>9 DEF Corrupt
    <2> QED
      BY <2>4, <2>5, <2>6, <2>7, <2>8, <2>9 DEF Next
  <1> QED
    BY <1>1, Continuity, TypeCorrect, PTL DEF Spec, PreviousGoodRetained

-----------------------------------------------------------------------------
(* The end of a migration *)

\* A predecessor is closed for the migration whose successor was verified.
ClosedWell(g) ==
    g.reason = "MIGRATED_TO_SUCCESSOR" => g.verified /\ g.successor = g.migration

\* The state file holds no predecessor closed otherwise.
FileClosedWell == ClosedWell(primary.gen)

\* A write that is not the closing of a predecessor, and that leaves the migration of
\* a closed one alone.
KeepsMigration(g, h) ==
    h.reason = "MIGRATED_TO_SUCCESSOR" =>
        /\ g.reason = "MIGRATED_TO_SUCCESSOR"
        /\ h.verified = g.verified /\ h.successor = g.successor /\ h.migration = g.migration

\* What the supervisor makes of a generation keeps its migration.
LEMMA SupervisorWrites ==
    ASSUME NEW g \in Generation, NEW i \in DOMAIN g.queue
    PROVE  /\ KeepsMigration(g, Requeued(g, i)) /\ KeepsMigration(g, QueueMissing(g))
           /\ \A w \in WAIT_STATES, why \in VerdictReasons :
                KeepsMigration(g, FailedToWait(g, i, w, why))
           /\ \A c \in FailureClasses : KeepsMigration(g, Failed(g, i, c))
           /\ KeepsMigration(g, GateCompleted(g, i))
           /\ \A r \in Results, why \in VerdictReasons : KeepsMigration(g, Settled(g, i, r, why))
  <1>1. KeepsMigration(g, Requeued(g, i)) /\ KeepsMigration(g, QueueMissing(g))
    BY DEF Requeued, QueueMissing, KeepsMigration, Generation
  <1>2. ASSUME NEW w \in WAIT_STATES, NEW why \in VerdictReasons
        PROVE  KeepsMigration(g, FailedToWait(g, i, w, why))
    BY DEF FailedToWait, KeepsMigration, Generation
  <1>3. ASSUME NEW c \in FailureClasses
        PROVE  KeepsMigration(g, Failed(g, i, c))
    <2>1. KeepsMigration(g, ProviderWait(g, i)) /\ KeepsMigration(g, Retried(g, i))
      BY DEF ProviderWait, Retried, KeepsMigration, Generation
    <2>2. /\ KeepsMigration(g, Quarantined(g, i, c, "ARTIFACT_CONTRACT_RECOVERY_REQUIRED"))
          /\ KeepsMigration(g, Quarantined(g, i, c, "RETRY_BUDGET_EXHAUSTED"))
      BY DEF Quarantined, KeepsMigration, Generation
    <2> QED
      BY <2>1, <2>2 DEF Failed
  <1>4. KeepsMigration(g, GateCompleted(g, i))
    <2> DEFINE d == [g EXCEPT !.queue[i].status = "COMPLETED", !.lease = 0,
                              !.error = "EXECUTION_FAILURE",
                              !.completed = IF g.queue[i].gate <= g.completed THEN @ ELSE @ + 1]
    <2>1. /\ DOMAIN d = DOMAIN g /\ d.reason = g.reason /\ d.verified = g.verified
          /\ d.successor = g.successor /\ d.migration = g.migration
      BY DEF Generation
    <2>2. \/ GateCompleted(g, i).reason = "ALL_GATES_COMPLETED"
          \/ GateCompleted(g, i) = [d EXCEPT !.current = d.completed + 1, !.state = "READY",
                                             !.queue = Append(@, QueueItem(d.completed + 1))]
      BY DEF GateCompleted, Generation
    <2> QED
      BY <2>1, <2>2 DEF KeepsMigration, Generation
  <1>5. ASSUME NEW r \in Results, NEW why \in VerdictReasons
        PROVE  KeepsMigration(g, Settled(g, i, r, why))
    <2>1. CASE r = "CANCELLED"
      BY <2>1 DEF Settled, WAIT_STATES, KeepsMigration, Generation
    <2>2. CASE r # "CANCELLED"
      BY <1>2, <1>3, <1>4, <2>2 DEF Settled, Results
    <2> QED
      BY <2>1, <2>2
  <1> QED
    BY <1>1, <1>2, <1>3, <1>4, <1>5

\* A supervisor never closes a predecessor.
LEMMA SupervisorKeepsMigration ==
    ASSUME TypeOK, ResultsKnown, LockHeld, IInv, corruptions = 0, NEW p \in Supervisors,
           SupervisorStep(p)
    PROVE  KeepsMigration(primary.gen, primary'.gen)
  <1>1. PICK g \in Generation : g = mem[p]
    BY DEF TypeOK, ProcessesTyped
  <1>2. primary.kind = "ok" /\ Loaded = primary.gen /\ primary.gen \in Generation
    BY DEF IInv, Undamaged, Loaded, TypeOK, FilesTyped, File
  <1>3. pc[p] \notin {"idle", "start"} => g = primary.gen
    BY <1>1 DEF IInv, Undamaged, InStep
  <1>4. ASSUME pc[p] \notin {"idle", "start"},
               NEW h, NEW l, Commit(p, h, l), KeepsMigration(g, h)
        PROVE  KeepsMigration(primary.gen, primary'.gen)
    BY <1>3, <1>4 DEF Commit, Persist, Stored
  <1>5. ASSUME UNCHANGED files PROVE KeepsMigration(primary.gen, primary'.gen)
    BY <1>5 DEF files, KeepsMigration
  <1>6. KeepsMigration(g, g)
    BY DEF KeepsMigration
  <1>7. CASE ReconcileStartup(p)
    <2>1. PICK r \in Generation : r = Loaded
      BY <1>2
    <2>2. Restored(Loaded) = r
      BY <1>2, <2>1 DEF Restored, Recovered
    <2>3. ASSUME NEW h, Commit(p, h, "loop"), KeepsMigration(r, h)
          PROVE  KeepsMigration(primary.gen, primary'.gen)
      BY <1>2, <2>1, <2>3 DEF Commit, Persist, Stored
    <2>4. \/ \E i \in DOMAIN r.queue : Commit(p, Requeued(r, i), "loop")
          \/ Commit(p, QueueMissing(r), "loop") \/ Commit(p, r, "loop")
          \/ UNCHANGED files
      BY <1>7, <2>2 DEF ReconcileStartup
    <2>5. KeepsMigration(r, r) /\ KeepsMigration(r, QueueMissing(r))
      BY DEF QueueMissing, KeepsMigration, Generation
    <2> QED
      BY <1>5, <2>3, <2>4, <2>5, SupervisorWrites
  <1>8. CASE NothingQueued(p) \/ LowResources(p)
    <2> DEFINE a == [g EXCEPT !.state = "COMPLETED", !.reason = "ALL_GATES_COMPLETED"]
               b == [g EXCEPT !.state = "BLOCKED", !.error = "EXECUTION_FAILURE",
                              !.reason = "DURABLE_SUCCESSOR_MISSING"]
               c == [g EXCEPT !.state = "WAITING_RESOURCE", !.error = "EXECUTION_FAILURE",
                              !.wait = "LOW_RESOURCE_BACKPRESSURE"]
    <2>1. KeepsMigration(g, a) /\ KeepsMigration(g, b) /\ KeepsMigration(g, c)
      BY DEF KeepsMigration, Generation
    <2>2. /\ pc[p] = "loop"
          /\ Commit(p, a, "loop") \/ Commit(p, b, "loop") \/ Commit(p, c, "loop")
      BY <1>1, <1>8 DEF NothingQueued, LowResources, InLoop
    <2> HIDE DEF a, b, c
    <2> QED
      BY <1>4, <2>1, <2>2
  <1>9. CASE PreflightWaits(p)
    <2>1. PICK i \in DOMAIN g.queue, w \in WAIT_STATES, why \in VerdictReasons :
            pc[p] = "loop" /\ Commit(p, FailedToWait(g, i, w, why), "loop")
      BY <1>1, <1>9 DEF PreflightWaits, InLoop
    <2> QED
      BY <1>4, <2>1, SupervisorWrites
  <1>10. CASE PreflightBlocks(p)
    <2>1. PICK i \in DOMAIN g.queue, c \in FailureClasses :
            Commit(p, [g EXCEPT !.queue[i].status = "BLOCKED", !.state = "BLOCKED",
                                !.error = c, !.reason = "PREFLIGHT_BLOCKED"], "loop")
      BY <1>1, <1>10 DEF PreflightBlocks
    <2> DEFINE a == [g EXCEPT !.queue[i].status = "BLOCKED", !.state = "BLOCKED",
                              !.error = c, !.reason = "PREFLIGHT_BLOCKED"]
    <2>2. pc[p] = "loop" /\ KeepsMigration(g, a) /\ Commit(p, a, "loop")
      BY <1>10, <2>1 DEF PreflightBlocks, InLoop, KeepsMigration, Generation
    <2> HIDE DEF a
    <2> QED
      BY <1>4, <2>2
  <1>11. CASE Dispatch(p)
    <2>1. PICK i \in DOMAIN g.queue :
            Commit(p, [g EXCEPT !.queue[i].status = "DISPATCHED",
                                !.state = "DISPATCHED"], "dispatched")
      BY <1>1, <1>11 DEF Dispatch
    <2> DEFINE a == [g EXCEPT !.queue[i].status = "DISPATCHED", !.state = "DISPATCHED"]
    <2>2. pc[p] = "loop" /\ KeepsMigration(g, a) /\ Commit(p, a, "dispatched")
      BY <1>11, <2>1 DEF Dispatch, InLoop, KeepsMigration, Generation
    <2> HIDE DEF a
    <2> QED
      BY <1>4, <2>2
  <1>12. CASE RecordRunning(p)
    <2>1. PICK i \in DOMAIN g.queue :
            Commit(p, [g EXCEPT !.lease = g.epoch + 1, !.epoch = @ + 1, !.state = "RUNNING",
                                !.queue[i].status = "RUNNING"], "running")
      BY <1>1, <1>12 DEF RecordRunning
    <2> DEFINE a == [g EXCEPT !.lease = g.epoch + 1, !.epoch = @ + 1, !.state = "RUNNING",
                              !.queue[i].status = "RUNNING"]
    <2>2. pc[p] = "forked" /\ KeepsMigration(g, a) /\ Commit(p, a, "running")
      BY <1>12, <2>1 DEF RecordRunning, KeepsMigration, Generation
    <2> HIDE DEF a
    <2> QED
      BY <1>4, <2>2
  <1>13. CASE Heartbeat(p) \/ ResultReceived(p)
    <2> DEFINE a == [g EXCEPT !.state = "VERIFYING"]
    <2>1. KeepsMigration(g, a)
      BY DEF KeepsMigration, Generation
    <2>2. /\ pc[p] = "running"
          /\ Commit(p, g, "running") \/ Commit(p, a, "verifying")
      BY <1>1, <1>13 DEF Heartbeat, ResultReceived
    <2> HIDE DEF a
    <2> QED
      BY <1>4, <1>6, <2>1, <2>2
  <1>14. CASE WorkerFailed(p) \/ WorkerTimesOut(p)
    <2>1. PICK i \in DOMAIN g.queue, c \in FailureClasses :
            pc[p] = "running" /\ Commit(p, Failed(g, i, c), "loop")
      BY <1>1, <1>14 DEF WorkerFailed, WorkerTimesOut, FailureClasses
    <2> QED
      BY <1>4, <2>1, SupervisorWrites
  <1>15. CASE Settle(p)
    <2>1. PICK r \in Results : r = outcome[p]
      BY <1>15 DEF Settle, ResultsKnown
    <2>2. PICK i \in DOMAIN g.queue, why \in VerdictReasons :
            pc[p] = "verifying" /\ Commit(p, Settled(g, i, r, why), "loop")
      BY <1>1, <1>15, <2>1 DEF Settle
    <2> QED
      BY <1>4, <2>2, SupervisorWrites
  <1>16. CASE \/ ReconcileRefused(p) \/ Return(p) \/ Fork(p) \/ WorkerExits(p) \/ OrphanExits(p)
    <2>1. UNCHANGED files
      BY <1>16 DEF ReconcileRefused, Return, Fork, WorkerExits, OrphanExits
    <2> QED
      BY <1>5, <2>1
  <1> QED
    BY <1>7, <1>8, <1>9, <1>10, <1>11, <1>13, <1>14, <1>15, <1>16, <1>12
       DEF SupervisorStep

\* An operation closes a predecessor only for the migration of the verified successor,
\* and no migration begins or goes on once one is closed.
LEMMA OperationClosesWell ==
    ASSUME TypeOK, IInv, corruptions = 0, Operation, FileClosedWell
    PROVE  FileClosedWell'
  <1>1. PICK g \in Generation : g = Loaded
    BY DEF IInv, Undamaged, Loaded, TypeOK, FilesTyped, File
  <1>2. g = primary.gen /\ (g.reason = "MIGRATED_TO_SUCCESSOR" => g.state = "CANCELLED")
    BY <1>1 DEF IInv, Undamaged, Loaded, Live
  <1>3. ASSUME NEW h, Intervene(h), KeepsMigration(g, h) \/ ClosedWell(h)
        PROVE  FileClosedWell'
    BY <1>2, <1>3 DEF Intervene, Persist, Stored, KeepsMigration, ClosedWell, FileClosedWell
  <1>4. ASSUME NEW d \in Generation, ClosedWell(d),
                \/ Intervene(d)
                \/ \E i \in DOMAIN g.queue : Intervene([d EXCEPT !.queue[i].status = "CANCELLED"])
         PROVE  FileClosedWell'
    <2>1. CASE Intervene(d)
      BY <1>3, <1>4, <2>1
    <2>2. ASSUME NEW i \in DOMAIN g.queue, Intervene([d EXCEPT !.queue[i].status = "CANCELLED"])
          PROVE  FileClosedWell'
      <3> DEFINE a == [d EXCEPT !.queue[i].status = "CANCELLED"]
      <3>1. ClosedWell(a) /\ Intervene(a)
        BY <1>4, <2>2 DEF Generation, ClosedWell
      <3> HIDE DEF a
      <3> QED
        BY <1>3, <3>1
    <2> QED
      BY <1>4, <2>1, <2>2
  <1>5. CASE ObserveWait \/ IssueDirective \/ OperationTorn
    BY <1>5 DEF ObserveWait, IssueDirective, OperationTorn, TornSave, files, FileClosedWell
  <1>6. CASE ResumeWaitCas \/ \E w \in WAIT_STATES : ResumeWait(w)
    <2>1. PICK i \in DOMAIN g.queue : Intervene(WaitResumed(g, i))
      BY <1>1, <1>6 DEF ResumeWaitCas, ResumeWait
    <2>2. KeepsMigration(g, WaitResumed(g, i))
      BY DEF WaitResumed, KeepsMigration, Generation
    <2> QED
      BY <1>3, <2>1, <2>2
  <1>7. CASE Cancel
    <2> DEFINE d == [g EXCEPT !.state = "CANCELLED", !.reason = "CANCELLED", !.lease = 0]
    <2>1. d \in Generation /\ ClosedWell(d)
      BY DEF Generation, ALL_STATES, TERMINAL_STATES, TerminalReasons, ClosedWell
    <2>2. \/ Intervene(d)
          \/ \E i \in DOMAIN g.queue : Intervene([d EXCEPT !.queue[i].status = "CANCELLED"])
      BY <1>1, <1>7 DEF Cancel
    <2> HIDE DEF d
    <2> QED
      BY <1>4, <2>1, <2>2
  <1>8. CASE ReclassifyProviderWait
    <2>1. PICK i \in DOMAIN g.queue :
            Intervene([g EXCEPT !.queue[i] = Resumable(@), !.state = "WAITING_PROVIDER",
                                !.reason = "NONE", !.lease = 0])
      BY <1>1, <1>8 DEF ReclassifyProviderWait
    <2> DEFINE a == [g EXCEPT !.queue[i] = Resumable(@), !.state = "WAITING_PROVIDER",
                              !.reason = "NONE", !.lease = 0]
    <2>2. a.reason = "NONE" /\ Intervene(a)
      BY <2>1 DEF Generation
    <2> HIDE DEF a
    <2> QED
      BY <1>3, <2>2 DEF ClosedWell
  <1>9. CASE ResumeRecoverableBlock
    <2>1. PICK i \in DOMAIN g.queue :
            Intervene([Requeued(g, i) EXCEPT !.reason = "NONE", !.error = "EXECUTION_FAILURE"])
      BY <1>1, <1>9 DEF ResumeRecoverableBlock
    <2> DEFINE r == Requeued(g, i)
               a == [r EXCEPT !.reason = "NONE", !.error = "EXECUTION_FAILURE"]
    <2>2. r \in Generation
      BY ReconciledType
    <2>3. Intervene(a)
      BY <2>1
    <2> HIDE DEF r
    <2>4. a.reason = "NONE"
      BY <2>2 DEF Generation
    <2> HIDE DEF a
    <2> QED
      BY <1>3, <2>3, <2>4 DEF ClosedWell
  <1>10. CASE ClaimOwner
    <2> DEFINE t == [gate |-> g.current, epoch |-> NextOwnerEpoch(g)]
               a == [g EXCEPT !.owner = t]
    <2>1. KeepsMigration(g, a)
      BY DEF KeepsMigration, Generation
    <2>2. Intervene(a)
      BY <1>1, <1>10 DEF ClaimOwner
    <2> HIDE DEF a, t
    <2> QED
      BY <1>3, <2>1, <2>2
  <1>11. ASSUME NEW m \in Migrations, Quiesce(m) PROVE FileClosedWell'
    <2>1. g.reason # "MIGRATED_TO_SUCCESSOR"
      BY <1>1, <1>2, <1>11 DEF Quiesce, TERMINAL_STATES
    <2>2. PICK q \in BOOLEAN :
            Intervene([g EXCEPT !.state = "WAITING_RESOURCE", !.lease = 0,
                                !.wait = "RUNTIME_MIGRATION_QUIESCED",
                                !.error = "EXECUTION_FAILURE",
                                !.migration = m, !.qualify = q])
      BY <1>1, <1>11 DEF Quiesce
    <2> DEFINE a == [g EXCEPT !.state = "WAITING_RESOURCE", !.lease = 0,
                              !.wait = "RUNTIME_MIGRATION_QUIESCED",
                              !.error = "EXECUTION_FAILURE",
                              !.migration = m, !.qualify = q]
    <2>3. a.reason = g.reason /\ Intervene(a)
      BY <2>2 DEF Generation
    <2> HIDE DEF a
    <2> QED
      BY <1>3, <2>1, <2>3 DEF ClosedWell
  <1>12. ASSUME NEW m \in Migrations, RecordVerifiedSuccessor(m) \/ RecordQualification(m)
         PROVE  FileClosedWell'
    <2>1. g.reason # "MIGRATED_TO_SUCCESSOR"
      BY <1>1, <1>2, <1>12 DEF RecordVerifiedSuccessor, RecordQualification
    <2> DEFINE a == [g EXCEPT !.successor = m, !.verified = TRUE]
               b == [g EXCEPT !.qualified = m]
    <2>2. a.reason = g.reason /\ b.reason = g.reason
      BY DEF Generation
    <2>3. Intervene(a) \/ Intervene(b)
      BY <1>1, <1>12 DEF RecordVerifiedSuccessor, RecordQualification
    <2> HIDE DEF a, b
    <2> QED
      BY <1>3, <2>1, <2>2, <2>3 DEF ClosedWell
  <1>13. ASSUME NEW m \in Migrations, ClosePredecessor(m) PROVE FileClosedWell'
    <2> DEFINE d == [g EXCEPT !.state = "CANCELLED", !.error = "EXECUTION_FAILURE",
                              !.lease = 0, !.reason = "MIGRATED_TO_SUCCESSOR"]
    <2>1. Loaded.migration = m /\ SuccessorBound(m)
      BY <1>13 DEF ClosePredecessor
    <2>2. g.verified /\ g.successor = g.migration
      BY <1>1, <2>1 DEF SuccessorBound
    <2>3. d \in Generation /\ ClosedWell(d)
      BY <2>2 DEF Generation, ALL_STATES, TERMINAL_STATES, TerminalReasons, FailureClasses,
         ClosedWell
    <2>4. \/ Intervene(d)
          \/ \E i \in DOMAIN g.queue : Intervene([d EXCEPT !.queue[i].status = "CANCELLED"])
      BY <1>1, <1>13 DEF ClosePredecessor
    <2> HIDE DEF d
    <2> QED
      BY <1>4, <2>3, <2>4
  <1> QED
    BY <1>5, <1>6, <1>7, <1>8, <1>9, <1>10, <1>11, <1>12, <1>13 DEF Operation

\* A predecessor closed in favour of a migration's successor has no Gate process that
\* is supervised or orphaned, and its successor is the one verified for the migration
\* that closed it, however many migrations it was quiesced for.
THEOREM MigratedIsQuiet == Spec => []MigratedNeverRuns
  <1> DEFINE Inv == corruptions = 0 => FileClosedWell
  <1>1. Init => Inv
    BY DEF Init, Stored, Initial, ClosedWell, FileClosedWell
  <1>2. TypeOK /\ ResultsKnown /\ LockHeld /\ IInv /\ Inv /\ [Next]_vars => Inv'
    <2> SUFFICES ASSUME TypeOK, ResultsKnown, LockHeld, IInv, Inv, [Next]_vars,
                        corruptions' = 0
                 PROVE  FileClosedWell'
      OBVIOUS
    <2>1. CASE UNCHANGED vars
      BY <2>1 DEF vars, FileClosedWell
    <2>2. ASSUME NEW k \in {"garbled", "drifted"}, Corrupt(k) PROVE FALSE
      BY <2>2 DEF Corrupt, TypeOK, RecordsTyped
    <2>3. ASSUME NEW p \in Supervisors, SupervisorStep(p) PROVE FileClosedWell'
      <3>1. UNCHANGED budgets
        <4>1. CASE ReconcileStartup(p) \/ ReconcileRefused(p) \/ Return(p)
          BY <4>1 DEF ReconcileStartup, ReconcileRefused, Return
        <4>2. CASE NothingQueued(p) \/ LowResources(p) \/ PreflightWaits(p)
          BY <4>2 DEF NothingQueued, LowResources, PreflightWaits
        <4>3. CASE PreflightBlocks(p) \/ Dispatch(p) \/ Fork(p) \/ RecordRunning(p)
          BY <4>3 DEF PreflightBlocks, Dispatch, Fork, RecordRunning
        <4>4. CASE Heartbeat(p) \/ ResultReceived(p) \/ WorkerFailed(p) \/ WorkerTimesOut(p)
          BY <4>4 DEF Heartbeat, ResultReceived, WorkerFailed, WorkerTimesOut
        <4>5. CASE Settle(p) \/ WorkerExits(p) \/ OrphanExits(p)
          BY <4>5 DEF Settle, WorkerExits, OrphanExits
        <4> QED
          BY <2>3, <4>1, <4>2, <4>3, <4>4, <4>5 DEF SupervisorStep
      <3>2. corruptions = 0
        BY <3>1 DEF budgets
      <3> QED
        BY <2>3, <3>2, SupervisorKeepsMigration DEF KeepsMigration, ClosedWell, FileClosedWell
    <2>4. CASE Operation
      <3>1. (\E g : Intervene(g)) \/ ObserveWait \/ IssueDirective \/ OperationTorn
        BY <2>4 DEF Operation, ResumeWait, ResumeWaitCas, Cancel, ReclassifyProviderWait,
           ResumeRecoverableBlock, ClaimOwner, Quiesce, RecordVerifiedSuccessor,
           RecordQualification, ClosePredecessor
      <3>2. corruptions = 0
        BY <3>1 DEF Intervene, ObserveWait, IssueDirective, OperationTorn, budgets
      <3> QED
        BY <2>4, <3>2, OperationClosesWell
    <2>5. ASSUME NEW p \in Supervisors,
                 Acquire(p) \/ Crash(p) \/ SaveFails(p) \/ AbandonedExits(p)
          PROVE  FileClosedWell'
      <3>1. corruptions = 0 /\ primary' = primary
        BY <2>5 DEF Acquire, Crash, SaveFails, AbandonedExits, TornSave, files, budgets
      <3> QED
        BY <3>1 DEF FileClosedWell
    <2>6. ASSUME NEW p \in Supervisors, ExecuteDirective(p) PROVE FileClosedWell'
      <3>1. PICK g \in Generation : g = primary.gen
        BY DEF TypeOK, FilesTyped, File
      <3>2. corruptions = 0
        BY <2>6 DEF ExecuteDirective, budgets
      <3>3. Loaded = g /\ ClosedWell(g)
        BY <3>1, <3>2 DEF IInv, Undamaged, Loaded, FileClosedWell
      <3> DEFINE t == [gate |-> directive.gate, epoch |-> directive.epoch]
      <3>4. primary'.gen = [g EXCEPT !.owner = t]
        BY <2>6, <3>3 DEF ExecuteDirective, Stored
      <3> HIDE DEF t
      <3> QED
        BY <3>3, <3>4 DEF ClosedWell, FileClosedWell, Generation
    <2>7. CASE EndTransaction \/ \E h \in tokens : BeginTransaction(h)
      <3>1. corruptions = 0 /\ primary' = primary
        BY <2>7 DEF EndTransaction, BeginTransaction, files, budgets
      <3> QED
        BY <3>1 DEF FileClosedWell
    <2> QED
      BY <2>1, <2>2, <2>3, <2>4, <2>5, <2>6, <2>7 DEF Next
  <1>3. IInv /\ Inv => MigratedNeverRuns
    <2> SUFFICES ASSUME IInv, Inv, corruptions = 0, Loaded.reason = "MIGRATED_TO_SUCCESSOR"
                 PROVE  /\ \A p \in Supervisors : worker[p].phase # "running"
                        /\ Loaded.verified /\ Loaded.successor = Loaded.migration
      BY DEF MigratedNeverRuns
    <2>1. Loaded = primary.gen /\ Live(primary.gen) /\ InStep
      BY DEF IInv, Undamaged, Loaded
    <2>2. primary.gen.state = "CANCELLED"
      BY <2>1 DEF Live
    <2>3. \A p \in Supervisors : worker[p].phase # "running"
      BY <2>1, <2>2 DEF InStep, Interrupted
    <2>4. Loaded.verified /\ Loaded.successor = Loaded.migration
      BY <2>1 DEF ClosedWell, FileClosedWell
    <2> QED
      BY <2>3, <2>4
  <1> HIDE DEF Inv
  <1> QED
    BY <1>1, <1>2, <1>3, Continuity, TypeCorrect, LockFollowsProcesses, PTL DEF Spec

-----------------------------------------------------------------------------
(* The plan contract *)

\* The Gates that processes w execute, and whether a success of theirs, or one among
\* the results o being settled, is still to be recorded.
Alive(w) == {w[p].gate : p \in {q \in Supervisors : w[q].phase = "running"}}

Passing(w, o) ==
    \E p \in Supervisors :
        \/ w[p].phase = "exited" /\ w[p].result = "COMPLETED"
        \/ o[p] = "COMPLETED"

\* Only one supervisor counts: the others have neither a process nor a result.
Apart(w, o, p) ==
    \A q \in Supervisors : q # p =>
        w[q].phase # "running" /\ w[q].phase # "exited" /\ o[q] # "COMPLETED"

\* Then the abstract state is that of its process and its result.
LEMMA OnlyOne ==
    ASSUME NEW w, NEW o, NEW p \in Supervisors, Apart(w, o, p)
    PROVE  /\ w[p].phase = "running" => Alive(w) = {w[p].gate}
           /\ w[p].phase # "running" => Alive(w) = {}
           /\ Passing(w, o) <=> \/ w[p].phase = "exited" /\ w[p].result = "COMPLETED"
                                \/ o[p] = "COMPLETED"
  BY DEF Alive, Passing, Apart

\* Whoever has the lock, or may take it, is the only one that counts.
LEMMA Others ==
    ASSUME LockHeld, ResultsHeld, NEW p \in Supervisors, lock = p \/ lock \notin Supervisors
    PROVE  Apart(worker, outcome, p)
  BY DEF LockHeld, ResultsHeld, Apart

\* The abstract state, with nothing damaged.
LEMMA PlanState ==
    ASSUME TypeOK, IInv, corruptions = 0
    PROVE  Loaded = primary.gen /\ Loaded \in Generation /\ primary.kind = "ok"
  BY LoadedType DEF IInv, Undamaged, Loaded, TypeOK

\* A step that neither starts nor ends a process, nor moves a result.
LEMMA PlanStutter ==
    ASSUME UNCHANGED <<worker, outcome>>, Loaded'.completed = Loaded.completed
    PROVE  UNCHANGED Plan!planVars
  BY DEF Plan!planVars, RunningGates, ResultPassed

\* A supervisor's save in which the completed Gates stay.
LEMMA CommitDone ==
    ASSUME TypeOK, IInv, corruptions = 0, NEW p \in Supervisors, pc[p] \notin {"idle", "start"},
           NEW h, NEW l, Commit(p, h, l), h.completed = mem[p].completed
    PROVE  Loaded'.completed = Loaded.completed
  <1>1. mem[p] = Loaded
    BY Holding DEF IInv, State
  <1>2. Loaded' = h
    BY DEF Commit, Persist, Stored, Loaded
  <1> QED
    BY <1>1, <1>2

\* The supervisor's steps that the plan does not see.
LEMMA HiddenStep ==
    ASSUME TypeOK, IInv, corruptions = 0, NEW p \in Supervisors,
           \/ ReconcileStartup(p) \/ NothingQueued(p) \/ LowResources(p)
           \/ PreflightWaits(p) \/ PreflightBlocks(p) \/ Dispatch(p)
           \/ RecordRunning(p) \/ Heartbeat(p)
    PROVE  UNCHANGED Plan!planVars
  <1>1. UNCHANGED <<worker, outcome>>
    BY DEF ReconcileStartup, NothingQueued, LowResources, PreflightWaits, PreflightBlocks,
       Dispatch, RecordRunning, Heartbeat
  <1>2. PICK g \in Generation : g = mem[p]
    BY DEF TypeOK, ProcessesTyped
  <1>3. ASSUME pc[p] \notin {"idle", "start"}, NEW h, NEW l, Commit(p, h, l),
               h.completed = g.completed
        PROVE  UNCHANGED Plan!planVars
    BY <1>1, <1>2, <1>3, CommitDone, PlanStutter
  <1>4. CASE ReconcileStartup(p)
    <2>1. PICK r \in Generation : r = Loaded
      BY PlanState
    <2>2. Restored(Loaded) = r
      BY <2>1, PlanState DEF Restored, Recovered
    <2>3. /\ \A i \in DOMAIN r.queue : Requeued(r, i).completed = r.completed
          /\ QueueMissing(r).completed = r.completed
      BY DEF Requeued, QueueMissing, Generation
    <2>4. (\E h : h.completed = r.completed /\ Commit(p, h, "loop")) \/ UNCHANGED files
      BY <1>4, <2>2, <2>3 DEF ReconcileStartup
    <2>5. Loaded'.completed = Loaded.completed
      BY <2>1, <2>4 DEF Commit, Persist, Stored, Loaded, files
    <2> QED
      BY <1>1, <2>5, PlanStutter
  <1>5. CASE NothingQueued(p)
    <2> DEFINE a == [g EXCEPT !.state = "COMPLETED", !.reason = "ALL_GATES_COMPLETED"]
               b == [g EXCEPT !.state = "BLOCKED", !.error = "EXECUTION_FAILURE",
                              !.reason = "DURABLE_SUCCESSOR_MISSING"]
    <2>1. a.completed = g.completed /\ b.completed = g.completed
      BY DEF Generation
    <2>2. pc[p] = "loop" /\ (Commit(p, a, "loop") \/ Commit(p, b, "loop"))
      BY <1>2, <1>5 DEF NothingQueued, InLoop
    <2> HIDE DEF a, b
    <2> QED
      BY <1>3, <2>1, <2>2
  <1>6. CASE LowResources(p)
    <2> DEFINE a == [g EXCEPT !.state = "WAITING_RESOURCE", !.error = "EXECUTION_FAILURE",
                              !.wait = "LOW_RESOURCE_BACKPRESSURE"]
    <2>1. a.completed = g.completed
      BY DEF Generation
    <2>2. pc[p] = "loop" /\ Commit(p, a, "loop")
      BY <1>2, <1>6 DEF LowResources, InLoop
    <2> HIDE DEF a
    <2> QED
      BY <1>3, <2>1, <2>2
  <1>7. CASE PreflightWaits(p)
    <2>1. PICK i \in DOMAIN g.queue, w \in WAIT_STATES, why \in VerdictReasons :
            Commit(p, FailedToWait(g, i, w, why), "loop")
      BY <1>2, <1>7 DEF PreflightWaits
    <2>2. pc[p] = "loop" /\ FailedToWait(g, i, w, why).completed = g.completed
      BY <1>7 DEF PreflightWaits, InLoop, FailedToWait, Generation
    <2> QED
      BY <1>3, <2>1, <2>2
  <1>8. CASE PreflightBlocks(p)
    <2>1. PICK i \in DOMAIN g.queue, c \in FailureClasses :
            Commit(p, [g EXCEPT !.queue[i].status = "BLOCKED", !.state = "BLOCKED",
                                !.error = c, !.reason = "PREFLIGHT_BLOCKED"], "loop")
      BY <1>2, <1>8 DEF PreflightBlocks
    <2> DEFINE a == [g EXCEPT !.queue[i].status = "BLOCKED", !.state = "BLOCKED",
                              !.error = c, !.reason = "PREFLIGHT_BLOCKED"]
    <2>2. pc[p] = "loop" /\ a.completed = g.completed /\ Commit(p, a, "loop")
      BY <1>8, <2>1 DEF PreflightBlocks, InLoop, Generation
    <2> HIDE DEF a
    <2> QED
      BY <1>3, <2>2
  <1>9. CASE Dispatch(p)
    <2>1. PICK i \in DOMAIN g.queue :
            Commit(p, [g EXCEPT !.queue[i].status = "DISPATCHED",
                                !.state = "DISPATCHED"], "dispatched")
      BY <1>2, <1>9 DEF Dispatch
    <2> DEFINE a == [g EXCEPT !.queue[i].status = "DISPATCHED", !.state = "DISPATCHED"]
    <2>2. pc[p] = "loop" /\ a.completed = g.completed /\ Commit(p, a, "dispatched")
      BY <1>9, <2>1 DEF Dispatch, InLoop, Generation
    <2> HIDE DEF a
    <2> QED
      BY <1>3, <2>2
  <1>10. CASE RecordRunning(p)
    <2>1. PICK i \in DOMAIN g.queue :
            Commit(p, [g EXCEPT !.lease = g.epoch + 1, !.epoch = @ + 1, !.state = "RUNNING",
                                !.queue[i].status = "RUNNING"], "running")
      BY <1>2, <1>10 DEF RecordRunning
    <2> DEFINE a == [g EXCEPT !.lease = g.epoch + 1, !.epoch = @ + 1, !.state = "RUNNING",
                              !.queue[i].status = "RUNNING"]
    <2>2. pc[p] = "forked" /\ a.completed = g.completed /\ Commit(p, a, "running")
      BY <1>10, <2>1 DEF RecordRunning, Generation
    <2> HIDE DEF a
    <2> QED
      BY <1>3, <2>2
  <1>11. CASE Heartbeat(p)
    BY <1>2, <1>3, <1>11 DEF Heartbeat
  <1> QED
    BY <1>4, <1>5, <1>6, <1>7, <1>8, <1>9, <1>10, <1>11

\* Operations, and starts, that the plan does not see.
LEMMA HiddenOperation ==
    ASSUME TypeOK, IInv, corruptions = 0,
           \/ Operation \/ EndTransaction \/ (\E h \in tokens : BeginTransaction(h))
           \/ \E p \in Supervisors : Acquire(p) \/ ExecuteDirective(p)
    PROVE  UNCHANGED Plan!planVars
  <1>1. PICK g \in Generation : g = Loaded
    BY PlanState
  <1>2. primary.kind = "ok" /\ Loaded = primary.gen
    BY PlanState
  <1>3. ASSUME NEW h, h.completed = g.completed, Intervene(h)
        PROVE  UNCHANGED Plan!planVars
    <2>1. Loaded'.completed = Loaded.completed
      BY <1>1, <1>3 DEF Intervene, Persist, Stored, Loaded
    <2>2. UNCHANGED <<worker, outcome>>
      BY <1>3 DEF Intervene
    <2> QED
      BY <2>1, <2>2, PlanStutter
  <1>4. ASSUME primary' = primary, UNCHANGED <<worker, outcome>>
        PROVE  UNCHANGED Plan!planVars
    BY <1>2, <1>4, PlanStutter DEF Loaded
  <1>5. CASE EndTransaction \/ (\E h \in tokens : BeginTransaction(h))
             \/ (\E p \in Supervisors : Acquire(p))
             \/ ObserveWait \/ IssueDirective \/ OperationTorn
    BY <1>4, <1>5 DEF EndTransaction, BeginTransaction, Acquire, ObserveWait, IssueDirective,
       OperationTorn, TornSave, files
  <1>6. ASSUME NEW p \in Supervisors, ExecuteDirective(p)
        PROVE  UNCHANGED Plan!planVars
    <2> DEFINE t == [gate |-> directive.gate, epoch |-> directive.epoch]
    <2>1. primary' = Stored([g EXCEPT !.owner = t]) /\ UNCHANGED <<worker, outcome>>
      BY <1>1, <1>6 DEF ExecuteDirective
    <2> HIDE DEF t
    <2>2. [g EXCEPT !.owner = t].completed = g.completed
      BY DEF Generation
    <2>3. Loaded'.completed = Loaded.completed
      BY <1>1, <2>1, <2>2 DEF Stored, Loaded
    <2> QED
      BY <2>1, <2>3, PlanStutter
  <1>7. CASE ResumeWaitCas \/ \E w \in WAIT_STATES : ResumeWait(w)
    <2>1. PICK i \in DOMAIN g.queue : Intervene(WaitResumed(g, i))
      BY <1>1, <1>7 DEF ResumeWaitCas, ResumeWait
    <2>2. WaitResumed(g, i).completed = g.completed
      BY DEF WaitResumed, Generation
    <2> QED
      BY <1>3, <2>1, <2>2
  <1>8. CASE ReclassifyProviderWait
    <2>1. PICK i \in DOMAIN g.queue :
            Intervene([g EXCEPT !.queue[i] = Resumable(@), !.state = "WAITING_PROVIDER",
                                !.reason = "NONE", !.lease = 0])
      BY <1>1, <1>8 DEF ReclassifyProviderWait
    <2> DEFINE a == [g EXCEPT !.queue[i] = Resumable(@), !.state = "WAITING_PROVIDER",
                              !.reason = "NONE", !.lease = 0]
    <2>2. a.completed = g.completed /\ Intervene(a)
      BY <2>1 DEF Generation
    <2> HIDE DEF a
    <2> QED
      BY <1>3, <2>2
  <1>9. CASE ResumeRecoverableBlock
    <2>1. PICK i \in DOMAIN g.queue :
            Intervene([Requeued(g, i) EXCEPT !.reason = "NONE", !.error = "EXECUTION_FAILURE"])
      BY <1>1, <1>9 DEF ResumeRecoverableBlock
    <2> DEFINE r == Requeued(g, i)
               a == [r EXCEPT !.reason = "NONE", !.error = "EXECUTION_FAILURE"]
    <2>2. r \in Generation /\ r.completed = g.completed
      BY ReconciledType DEF Requeued, Generation
    <2>3. Intervene(a)
      BY <2>1
    <2> HIDE DEF r
    <2>4. a.completed = r.completed
      BY <2>2 DEF Generation
    <2> HIDE DEF a
    <2> QED
      BY <1>3, <2>2, <2>3, <2>4
  <1>10. ASSUME NEW d \in Generation, d.completed = g.completed,
                \/ Intervene(d)
                \/ \E i \in DOMAIN g.queue : Intervene([d EXCEPT !.queue[i].status = "CANCELLED"])
         PROVE  UNCHANGED Plan!planVars
    <2>1. CASE Intervene(d)
      BY <1>3, <1>10, <2>1
    <2>2. ASSUME NEW i \in DOMAIN g.queue, Intervene([d EXCEPT !.queue[i].status = "CANCELLED"])
          PROVE  UNCHANGED Plan!planVars
      <3> DEFINE a == [d EXCEPT !.queue[i].status = "CANCELLED"]
      <3>1. a.completed = g.completed /\ Intervene(a)
        BY <1>10, <2>2 DEF Generation
      <3> HIDE DEF a
      <3> QED
        BY <1>3, <3>1
    <2> QED
      BY <1>10, <2>1, <2>2
  <1>11. CASE Cancel
    <2> DEFINE d == [g EXCEPT !.state = "CANCELLED", !.reason = "CANCELLED", !.lease = 0]
    <2>1. d \in Generation /\ d.completed = g.completed
      BY DEF Generation, ALL_STATES, TERMINAL_STATES, TerminalReasons
    <2>2. \/ Intervene(d)
          \/ \E i \in DOMAIN g.queue : Intervene([d EXCEPT !.queue[i].status = "CANCELLED"])
      BY <1>1, <1>11 DEF Cancel
    <2> HIDE DEF d
    <2> QED
      BY <1>10, <2>1, <2>2
  <1>12. CASE ClaimOwner
    <2> DEFINE t == [gate |-> Loaded.current, epoch |-> NextOwnerEpoch(Loaded)]
    <2>1. Intervene([g EXCEPT !.owner = t])
      BY <1>1, <1>12 DEF ClaimOwner
    <2> HIDE DEF t
    <2>2. [g EXCEPT !.owner = t].completed = g.completed
      BY DEF Generation
    <2> QED
      BY <1>3, <2>1, <2>2
  <1>13. ASSUME NEW m \in Migrations, Quiesce(m)
         PROVE  UNCHANGED Plan!planVars
    <2>1. PICK q \in BOOLEAN :
            Intervene([g EXCEPT !.state = "WAITING_RESOURCE", !.lease = 0,
                                !.wait = "RUNTIME_MIGRATION_QUIESCED",
                                !.error = "EXECUTION_FAILURE", !.migration = m, !.qualify = q])
      BY <1>1, <1>13 DEF Quiesce
    <2> DEFINE a == [g EXCEPT !.state = "WAITING_RESOURCE", !.lease = 0,
                              !.wait = "RUNTIME_MIGRATION_QUIESCED",
                              !.error = "EXECUTION_FAILURE", !.migration = m, !.qualify = q]
    <2>2. a.completed = g.completed /\ Intervene(a)
      BY <2>1 DEF Generation
    <2> HIDE DEF a
    <2> QED
      BY <1>3, <2>2
  <1>14. ASSUME NEW m \in Migrations, RecordVerifiedSuccessor(m) \/ RecordQualification(m)
         PROVE  UNCHANGED Plan!planVars
    <2> DEFINE a == [g EXCEPT !.successor = m, !.verified = TRUE]
               b == [g EXCEPT !.qualified = m]
    <2>1. a.completed = g.completed /\ b.completed = g.completed
      BY DEF Generation
    <2>2. Intervene(a) \/ Intervene(b)
      BY <1>1, <1>14 DEF RecordVerifiedSuccessor, RecordQualification
    <2> HIDE DEF a, b
    <2> QED
      BY <1>3, <2>1, <2>2
  <1>15. ASSUME NEW m \in Migrations, ClosePredecessor(m)
         PROVE  UNCHANGED Plan!planVars
    <2> DEFINE d == [g EXCEPT !.state = "CANCELLED", !.error = "EXECUTION_FAILURE",
                              !.lease = 0, !.reason = "MIGRATED_TO_SUCCESSOR"]
    <2>1. d \in Generation /\ d.completed = g.completed
      BY DEF Generation, ALL_STATES, TERMINAL_STATES, TerminalReasons, FailureClasses
    <2>2. \/ Intervene(d)
          \/ \E i \in DOMAIN g.queue : Intervene([d EXCEPT !.queue[i].status = "CANCELLED"])
      BY <1>1, <1>15 DEF ClosePredecessor
    <2> HIDE DEF d
    <2> QED
      BY <1>10, <2>1, <2>2
  <1> QED
    BY <1>5, <1>6, <1>7, <1>8, <1>9, <1>11, <1>12, <1>13, <1>14, <1>15 DEF Operation

\* The steps that the plan sees: a process starts or ends, its result moves on, is
\* recorded or is lost.
LEMMA VisibleStep ==
    ASSUME TypeOK, ResultsKnown, LockHeld, IInv, corruptions = 0, NEW p \in Supervisors,
           \/ Fork(p) \/ WorkerExits(p) \/ WorkerTimesOut(p) \/ OrphanExits(p)
           \/ SaveFails(p) \/ Crash(p) \/ ResultReceived(p) \/ WorkerFailed(p)
           \/ Settle(p) \/ ReconcileRefused(p) \/ Return(p)
    PROVE  [Plan!Next]_(Plan!planVars)
  <1> DEFINE pass == \/ worker[p].phase = "exited" /\ worker[p].result = "COMPLETED"
                     \/ outcome[p] = "COMPLETED"
             pass1 == \/ worker'[p].phase = "exited" /\ worker'[p].result = "COMPLETED"
                      \/ outcome'[p] = "COMPLETED"
  <1>1. lock = p
    BY DEF Fork, WorkerExits, WorkerTimesOut, OrphanExits, SaveFails, Crash, ResultReceived,
       WorkerFailed, Settle, ReconcileRefused, Return, LockHeld
  <1>2. \A q \in Supervisors : q # p => worker'[q] = worker[q] /\ outcome'[q] = outcome[q]
    BY DEF Fork, WorkerExits, WorkerTimesOut, OrphanExits, SaveFails, Crash, ResultReceived,
       WorkerFailed, Settle, ReconcileRefused, Return, Idle, TypeOK, ProcessesTyped
  <1>3. Apart(worker, outcome, p)
    BY <1>1, Others DEF IInv
  <1>4. /\ RunningGates = Alive(worker) /\ RunningGates' = Alive(worker')
        /\ ResultPassed <=> Passing(worker, outcome)
        /\ ResultPassed' <=> Passing(worker', outcome')
    BY DEF RunningGates, ResultPassed, Alive, Passing
  <1>5. /\ worker[p].phase = "running" => RunningGates = {worker[p].gate}
        /\ worker[p].phase # "running" => RunningGates = {}
        /\ ResultPassed <=> pass
    <2>1. /\ worker[p].phase = "running" => Alive(worker) = {worker[p].gate}
          /\ worker[p].phase # "running" => Alive(worker) = {}
          /\ Passing(worker, outcome) <=>
               \/ worker[p].phase = "exited" /\ worker[p].result = "COMPLETED"
               \/ outcome[p] = "COMPLETED"
      BY <1>3, OnlyOne
    <2> QED
      BY <1>4, <2>1
  <1>6. /\ worker'[p].phase = "running" => RunningGates' = {worker'[p].gate}
        /\ worker'[p].phase # "running" => RunningGates' = {}
        /\ ResultPassed' <=> pass1
    <2>1. Apart(worker', outcome', p)
      BY <1>2, <1>3 DEF Apart
    <2>2. /\ worker'[p].phase = "running" => Alive(worker') = {worker'[p].gate}
          /\ worker'[p].phase # "running" => Alive(worker') = {}
          /\ Passing(worker', outcome') <=>
               \/ worker'[p].phase = "exited" /\ worker'[p].result = "COMPLETED"
               \/ outcome'[p] = "COMPLETED"
      BY <2>1, OnlyOne
    <2> QED
      BY <1>4, <2>2
  <1>7. ResultPassed \in BOOLEAN /\ ResultPassed' \in BOOLEAN
    BY DEF ResultPassed
  <1>8. worker \in [Supervisors -> Worker] /\ outcome \in [Supervisors -> Results \union {"NONE"}]
        /\ pc[p] \in Labels
    BY DEF TypeOK, ProcessesTyped
  <1>9. /\ worker[p].phase = "exited" => pc[p] \in {"forked", "running"}
        /\ pc[p] \in {"start", "loop", "dispatched", "verifying"} => worker[p].phase = "none"
        /\ outcome[p] # "NONE" => pc[p] = "verifying"
    BY DEF IInv, ResultsHeld
  <1>10. PICK g \in Generation : g = mem[p]
    BY DEF TypeOK, ProcessesTyped
  <1>11. Shape(g)
    BY <1>10 DEF IInv, Shaped
  <1>12. ASSUME primary' = primary PROVE Loaded'.completed = Loaded.completed
    BY <1>12, PlanState DEF Loaded
  <1> HIDE DEF pass, pass1
  <1>13. CASE Fork(p)
    <2>1. PICK i \in DOMAIN g.queue :
            /\ IsActive(g, i)
            /\ worker' = [worker EXCEPT ![p] =
                  [phase |-> "running", gate |-> g.queue[i].gate,
                   resume |-> g.queue[i].resume, result |-> "NONE"]]
      BY <1>10, <1>13 DEF Fork
    <2>2. /\ i = Front(g) /\ g.queue[i].gate = i /\ g.completed < N
      BY <1>11, <2>1, ActiveAtFront
    <2>3. g = Loaded
      BY <1>10, <1>13, Holding DEF Fork, IInv, State
    <2>4. /\ worker[p].phase = "none" /\ outcome[p] = "NONE" /\ outcome' = outcome
          /\ primary' = primary
      BY <1>9, <1>13 DEF Fork, files
    <2>5. worker'[p].phase = "running" /\ worker'[p].gate = Front(g)
      BY <1>8, <2>1, <2>2
    <2>6. ~pass1
      BY <2>4, <2>5 DEF pass1
    <2>7. Plan!Begin
      BY <1>5, <1>6, <1>7, <1>12, <2>2, <2>3, <2>4, <2>5, <2>6 DEF Plan!Begin, Front
    <2> QED
      BY <2>7 DEF Plan!Next
  <1>14. CASE WorkerExits(p) \/ OrphanExits(p) \/ SaveFails(p) \/ WorkerTimesOut(p)
    <2>1. worker[p].phase = "running"
      BY <1>14 DEF WorkerExits, OrphanExits, SaveFails, WorkerTimesOut
    <2>2. worker'[p].phase # "running"
      <3>1. CASE WorkerExits(p)
        BY <1>8, <3>1 DEF WorkerExits, Worker
      <3>2. CASE SaveFails(p)
        BY <1>8, <3>2 DEF SaveFails, Worker
      <3>3. CASE OrphanExits(p) \/ WorkerTimesOut(p)
        BY <1>8, <3>3 DEF OrphanExits, WorkerTimesOut, NoWorker
      <3> QED
        BY <1>14, <3>1, <3>2, <3>3
    <2>3. Loaded'.completed = Loaded.completed
      <3>1. CASE ~WorkerTimesOut(p)
        <4>1. primary' = primary
          BY <1>14, <3>1 DEF WorkerExits, OrphanExits, SaveFails, TornSave, files
        <4> QED
          BY <1>12, <4>1
      <3>2. CASE WorkerTimesOut(p)
        <4>1. PICK i \in DOMAIN g.queue :
                IsActive(g, i) /\ Commit(p, Failed(g, i, "EXECUTION_FAILURE"), "loop")
          BY <1>10, <3>2 DEF WorkerTimesOut
        <4>2. Failed(g, i, "EXECUTION_FAILURE").completed = g.completed
          BY <1>11, <4>1, FailedWrite DEF FailureClasses, Moves, Follows
        <4> QED
          BY <1>10, <3>2, <4>1, <4>2, CommitDone DEF WorkerTimesOut
      <3> QED
        BY <3>1, <3>2
    <2>4. Plan!End
      BY <1>5, <1>6, <1>7, <2>1, <2>2, <2>3 DEF Plan!End
    <2> QED
      BY <2>4 DEF Plan!Next
  <1>15. CASE Crash(p)
    <2>1. primary' = primary /\ outcome'[p] = "NONE"
          /\ worker' = IF worker[p].phase = "running" THEN worker
                       ELSE [worker EXCEPT ![p] = NoWorker]
      BY <1>8, <1>15 DEF Crash, Idle, TornSave, files
    <2>2. CASE worker[p].phase = "running"
      <3>1. worker'[p] = worker[p] /\ outcome[p] = "NONE"
        BY <1>9, <2>1, <2>2 DEF LockHeld
      <3>2. ~pass /\ ~pass1
        BY <2>1, <2>2, <3>1 DEF pass, pass1
      <3> QED
        BY <1>5, <1>6, <1>7, <1>12, <2>1, <2>2, <3>1, <3>2 DEF Plan!planVars
    <2>3. CASE worker[p].phase # "running"
      <3>1. worker'[p].phase = "none"
        BY <1>8, <2>1, <2>3 DEF NoWorker
      <3>2. ~pass1
        BY <2>1, <3>1 DEF pass1
      <3>3. RunningGates' = RunningGates /\ ResultPassed' = FALSE
            /\ Loaded'.completed = Loaded.completed
        BY <1>5, <1>6, <1>7, <1>12, <2>1, <2>3, <3>1, <3>2
      <3> QED
        BY <1>7, <3>3 DEF Plan!Next, Plan!Lose, Plan!planVars
    <2> QED
      BY <2>2, <2>3
  <1>16. CASE ResultReceived(p)
    <2>1. /\ worker[p].phase = "exited" /\ outcome[p] = "NONE"
          /\ worker'[p].phase = "none" /\ outcome'[p] = worker[p].result
      BY <1>8, <1>9, <1>16 DEF ResultReceived, NoWorker
    <2>2. pass <=> pass1
      BY <2>1 DEF pass, pass1
    <2> DEFINE e == [g EXCEPT !.state = "VERIFYING"]
    <2>3. e.completed = g.completed /\ pc[p] = "running" /\ Commit(p, e, "verifying")
      BY <1>10, <1>16 DEF ResultReceived, Generation
    <2> HIDE DEF e
    <2>4. Loaded'.completed = Loaded.completed
      BY <1>10, <2>3, CommitDone
    <2> QED
      BY <1>5, <1>6, <1>7, <2>1, <2>2, <2>4 DEF Plan!planVars
  <1>17. CASE WorkerFailed(p)
    <2>1. /\ worker[p].phase = "exited" /\ worker[p].result # "COMPLETED"
          /\ outcome[p] = "NONE" /\ worker'[p].phase = "none" /\ outcome' = outcome
      BY <1>8, <1>9, <1>17 DEF WorkerFailed, NoWorker, FailureClasses
    <2>2. ~pass /\ ~pass1
      BY <2>1 DEF pass, pass1
    <2>3. PICK c \in FailureClasses, i \in DOMAIN g.queue :
            IsActive(g, i) /\ Commit(p, Failed(g, i, c), "loop")
      BY <1>10, <1>17 DEF WorkerFailed
    <2>4. Failed(g, i, c).completed = g.completed
      BY <1>11, <2>3, FailedWrite DEF Moves, Follows
    <2>5. Loaded'.completed = Loaded.completed
      BY <1>10, <1>17, <2>3, <2>4, CommitDone DEF WorkerFailed
    <2> QED
      BY <1>5, <1>6, <1>7, <2>1, <2>2, <2>5 DEF Plan!planVars
  <1>18. CASE Settle(p)
    <2>1. /\ pc[p] = "verifying" /\ worker[p].phase = "none" /\ worker' = worker
          /\ outcome'[p] = "NONE"
      BY <1>8, <1>9, <1>18 DEF Settle
    <2>2. ~pass1 /\ (pass <=> outcome[p] = "COMPLETED")
      BY <2>1 DEF pass, pass1
    <2>3. PICK r \in Results : r = outcome[p]
      BY <2>1 DEF ResultsKnown
    <2>4. PICK i \in DOMAIN g.queue, why \in VerdictReasons :
            IsActive(g, i) /\ Commit(p, Settled(g, i, r, why), "loop")
      BY <1>10, <1>18, <2>3 DEF Settle
    <2>5. CASE r # "COMPLETED"
      <3>1. Settled(g, i, r, why).completed = g.completed
        BY <1>11, <2>4, <2>5, SettledWrite DEF Moves, Follows
      <3>2. Loaded'.completed = Loaded.completed
        BY <1>10, <2>1, <2>4, <3>1, CommitDone
      <3> QED
        BY <1>5, <1>6, <1>7, <2>1, <2>2, <2>3, <2>5, <3>2 DEF Plan!planVars
    <2>6. CASE r = "COMPLETED"
      <3>1. Settled(g, i, r, why) = GateCompleted(g, i)
        BY <2>6 DEF Settled, WAIT_STATES
      <3>2. GateCompleted(g, i).completed = g.completed + 1
        BY <1>11, <2>4, CompletedWrite
      <3>3. Loaded' = GateCompleted(g, i)
        BY <2>4, <3>1 DEF Commit, Persist, Stored, Loaded
      <3>4. g = Loaded
        BY <1>10, <2>1, Holding DEF IInv, State
      <3>5. Plan!Complete
        BY <1>5, <1>6, <1>7, <2>1, <2>2, <2>3, <2>6, <3>2, <3>3, <3>4 DEF Plan!Complete
      <3> QED
        BY <3>5 DEF Plan!Next
    <2> QED
      BY <2>5, <2>6
  <1>19. CASE ReconcileRefused(p) \/ Return(p)
    <2>1. /\ worker[p].phase = "none" /\ outcome[p] = "NONE" /\ worker' = worker
          /\ outcome'[p] = "NONE" /\ primary' = primary
      BY <1>8, <1>9, <1>19 DEF ReconcileRefused, Return, Idle, files
    <2>2. ~pass /\ ~pass1
      BY <2>1 DEF pass, pass1
    <2> QED
      BY <1>5, <1>6, <1>7, <1>12, <2>1, <2>2 DEF Plan!planVars
  <1> QED
    BY <1>13, <1>14, <1>15, <1>16, <1>17, <1>18, <1>19

\* An abandoned process is none of the plan's.
LEMMA AbandonedStep ==
    ASSUME TypeOK, IInv, corruptions = 0, NEW p \in Supervisors, AbandonedExits(p)
    PROVE  UNCHANGED Plan!planVars
  <1>1. /\ worker[p].phase = "abandoned" /\ worker'[p].phase = "none"
        /\ \A q \in Supervisors : q # p => worker'[q] = worker[q]
        /\ outcome' = outcome /\ primary' = primary
    BY DEF AbandonedExits, NoWorker, TypeOK, ProcessesTyped, files
  <1>2. Loaded'.completed = Loaded.completed
    BY <1>1, PlanState DEF Loaded
  <1>3. RunningGates' = RunningGates
    BY <1>1 DEF RunningGates
  <1>4. ResultPassed' = ResultPassed
    BY <1>1 DEF ResultPassed
  <1> QED
    BY <1>2, <1>3, <1>4 DEF Plan!planVars

\* The supervisor implements the plan contract for as long as the state file is not
\* damaged: one process at a time, Gates in plan order, and a Gate is complete only
\* on the result of its own process, whatever crashes, waits or is retried.
THEOREM RunImplementsPlan == Spec /\ [](corruptions = 0) => ImplementsGatePlan
  <1>1. Init => Plan!Init
    <2> SUFFICES ASSUME Init PROVE Plan!Init
      OBVIOUS
    <2>1. Loaded.completed = 0
      BY DEF Init, Loaded, Stored, Initial
    <2>2. RunningGates = {} /\ ResultPassed = FALSE
      BY DEF Init, RunningGates, ResultPassed, NoWorker
    <2> QED
      BY <2>1, <2>2 DEF Plan!Init
  <1>2. TypeOK /\ ResultsKnown /\ LockHeld /\ IInv /\ corruptions = 0 /\ (corruptions = 0)'
        /\ [Next]_vars => [Plan!Next]_(Plan!planVars)
    <2> SUFFICES ASSUME TypeOK, ResultsKnown, LockHeld, IInv, corruptions = 0, corruptions' = 0,
                        [Next]_vars
                 PROVE  [Plan!Next]_(Plan!planVars)
      OBVIOUS
    <2>1. CASE UNCHANGED vars
      <3>1. UNCHANGED <<worker, outcome>> /\ Loaded'.completed = Loaded.completed
        BY <2>1 DEF vars, Loaded
      <3> QED
        BY <3>1, PlanStutter
    <2>2. ASSUME NEW p \in Supervisors,
                 \/ ReconcileStartup(p) \/ NothingQueued(p) \/ LowResources(p)
                 \/ PreflightWaits(p) \/ PreflightBlocks(p) \/ Dispatch(p)
                 \/ RecordRunning(p) \/ Heartbeat(p)
          PROVE  [Plan!Next]_(Plan!planVars)
      BY <2>2, HiddenStep
    <2>3. ASSUME NEW p \in Supervisors,
                 \/ Fork(p) \/ WorkerExits(p) \/ WorkerTimesOut(p) \/ OrphanExits(p)
                 \/ SaveFails(p) \/ Crash(p) \/ ResultReceived(p) \/ WorkerFailed(p)
                 \/ Settle(p) \/ ReconcileRefused(p) \/ Return(p)
          PROVE  [Plan!Next]_(Plan!planVars)
      BY <2>3, VisibleStep
    <2>4. CASE \/ Operation \/ EndTransaction \/ (\E h \in tokens : BeginTransaction(h))
               \/ \E p \in Supervisors : Acquire(p) \/ ExecuteDirective(p)
      BY <2>4, HiddenOperation
    <2>5. ASSUME NEW p \in Supervisors, AbandonedExits(p)
          PROVE  [Plan!Next]_(Plan!planVars)
      BY <2>5, AbandonedStep
    <2>6. ASSUME NEW k \in {"garbled", "drifted"}, Corrupt(k) PROVE FALSE
      BY <2>6 DEF Corrupt
    <2> QED
      BY <2>1, <2>2, <2>3, <2>4, <2>5, <2>6 DEF Next, SupervisorStep
  <1> QED
    BY <1>1, <1>2, TypeCorrect, LockFollowsProcesses, Continuity, PTL
       DEF Spec, ImplementsGatePlan, Plan!Spec
=============================================================================
