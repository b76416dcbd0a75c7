--------------------- MODULE RemoteOperatorAnswerProofs ---------------------
(***************************************************************************)
(* What the service tells the pull request: nothing is acknowledged that   *)
(* has not been answered, and the recovery of an executed mutation is not  *)
(* given up before its result is posted, as long as no comment is edited.  *)
(* With them, the type invariant, the bounds of the two ledgers included.  *)
(*                                                                         *)
(* A binding is closed at five places, long after the answer was chosen.   *)
(* The invariant therefore follows an answer from the classification of a  *)
(* control to the closing of its binding: a message that was answered at   *)
(* all cannot become new again (Final), one that is being answered is      *)
(* answered with its result if it was executed (Publishing), and a result  *)
(* in the outbox belongs to an execution (Caused).                         *)
(***************************************************************************)
EXTENDS RemoteOperatorProofs, SequenceTheorems, WellFoundedInduction

Mutation(m) == Kind[m] = "mutation"
Replied(m) == \E a \in Answers : posted[m][a] > 0
Unedited(m) == channel[m] <= 1
Used(m) == ReceiptReaches(Sequence[m])

\* No list has an entry twice, and the acknowledgements have one per comment.
Once(s) == \A i, j \in DOMAIN s : s[i] = s[j] => i = j
OncePerComment(s) == \A i, j \in DOMAIN s : s[i].msg = s[j].msg => i = j
SingleEntries == Once(ledger) /\ Once(pendFile) /\ OncePerComment(acks)

\* A binding that exists names a version.
Named ==
  \A m \in Message :
    /\ binding[m].status = "NONE" <=> binding[m].ver = 0
    /\ binding[m].proj => binding[m].ver # 0

\* Only mutations execute; what speaks of a result has an execution behind it.
Caused ==
  /\ watermark # 0 => receipts[watermark] # 0
  /\ \A m \in Message : execs[m] > 0 => Mutation(m)
  /\ owner # 0 => execs[owner] > 0
  /\ \A m \in completed : execs[m] > 0
  /\ \A m \in Message : Mutation(m) /\ InOutbox(m) => execs[m] > 0

\* No version is known that has not been on the pull request.
Read ==
  /\ \A m \in Message : receipts[m] <= channel[m]
  /\ svc.stage = "poll" => \A d \in svc.todo \cup svc.batch : d.ver <= channel[d.msg]

ResolvePlaces == {"resolve", "close", "enqueued", "recorded"}
PublishPlaces == {"deliver", "publish", "posted", "acked", "finish", "project"}
RepliedPlaces == {"close", "posted", "acked", "finish", "project"}

\* What each loop works on.
Loops ==
  /\ svc.pc \in ResolvePlaces => svc.stage = "none" /\ \A d \in svc.todo : Unresolved(d.msg)
  /\ svc.pc \in PublishPlaces => svc.stage # "none"
  /\ svc.stage \in {"mutation", "control", "diagnostic"} =>
       \A d \in svc.todo : Kind[d.msg] = svc.stage /\ InOutbox(d.msg)

\* The answer to an executed mutation that nobody edited is its result.
Truthful(m, a) ==
  Unedited(m) /\ execs[m] > 0 => a \in {"RESULT", "COMPLETED"} \/ Answered(m)

\* What is known of the message the loop is at.
Known(pc, answer, m) ==
  /\ pc = "publish" => /\ answer \in Answers
                       /\ Mutation(m) => Used(m) /\ Truthful(m, answer)
  /\ pc \in RepliedPlaces => Replied(m)
  /\ pc = "activated" => ~Mutation(m)
  /\ pc \in {"received", "accepted"} => ~(Mutation(m) /\ Replied(m))
  /\ pc = "executing" => receipts[m] # 0

Publishing == \A d \in svc.todo : At(svc.pc, d) => Known(svc.pc, svc.answer, d.msg)

Final ==
  /\ AckedIsAnswered
  /\ \A m \in Message : binding[m].status = "PROJECTED" => Replied(m)
  /\ \A m \in Message : Mutation(m) /\ Replied(m) => Used(m)
  /\ \A m \in Message : Unedited(m) /\ execs[m] > 0 /\ Replied(m) => Answered(m)

AInv ==
  /\ LedgersTyped /\ StoresTyped /\ WorldTyped
  /\ SingleEntries /\ Named /\ Caused /\ Read /\ Loops /\ Publishing /\ Final

----------------------------------------------------------------------------
(* Lists *)

Below == {p \in Nat \X Nat : p[1] < p[2]}

\* A set of numbers that is not empty has a least element.
LEMMA LeastExists ==
  ASSUME NEW I \in SUBSET Nat, I # {}
  PROVE  \E i \in I : \A j \in I : i <= j
<1>1. OpToRel(<, Nat) = Below
  BY Zenon DEF OpToRel, Below
<1>2. IsWellFoundedOn(Below, Nat)
  BY <1>1, NatLessThanWellFounded
<1>3. PICK i \in I : \A j \in I : ~(<<j, i>> \in Below)
  BY <1>2, WFMin
<1>4. ASSUME NEW j \in I
      PROVE  i <= j
  <2>1. <<j, i>> \in Nat \X Nat /\ <<j, i>>[1] = j /\ <<j, i>>[2] = i
    OBVIOUS
  <2>2. ~(j < i)
    BY <1>3, <2>1 DEF Below
  <2> QED
    BY <2>2
<1> QED
  BY <1>4

\* So a set of places of a list has a last one.
LEMMA GreatestExists ==
  ASSUME NEW n \in Nat, NEW I \in SUBSET (1..n), I # {}
  PROVE  \E i \in I : \A j \in I : j <= i
<1> DEFINE J == {n - i : i \in I}
<1>1. J \in SUBSET Nat /\ J # {}
  <2>1. \A i \in I : i \in 1..n
    OBVIOUS
  <2>2. \A i \in I : n - i \in Nat
    BY <2>1
  <2>3. PICK i \in I : TRUE
    OBVIOUS
  <2>4. n - i \in J
    BY <2>3
  <2> QED
    BY <2>2, <2>4
<1>2. PICK k \in J : \A j \in J : k <= j
  BY <1>1, LeastExists
<1>3. PICK i \in I : k = n - i
  OBVIOUS
<1>4. ASSUME NEW j \in I
      PROVE  j <= i
  <2>1. n - i <= n - j
    BY <1>2, <1>3
  <2> QED
    BY <2>1
<1> QED
  BY <1>4

\* The last entries of a list.
LEMMA LastOfProperties ==
  ASSUME NEW S, NEW s \in Seq(S), NEW n \in Nat \ {0}
  PROVE  /\ LastOf(s, n) \in Seq(S)
         /\ Len(LastOf(s, n)) <= n
         /\ \E k \in Nat : \A i \in DOMAIN LastOf(s, n) :
              i + k \in DOMAIN s /\ LastOf(s, n)[i] = s[i + k]
<1>0. Len(s) \in Nat /\ DOMAIN s = 1..Len(s) /\ \A i \in 1..Len(s) : s[i] \in S
  BY LenProperties, ElementOfSeq
<1>1. CASE Len(s) <= n
  <2>1. LastOf(s, n) = s
    BY <1>1 DEF LastOf
  <2>2. 0 \in Nat /\ \A i \in DOMAIN s : i + 0 \in DOMAIN s /\ s[i] = s[i + 0]
    BY <1>0
  <2> QED
    BY <2>1, <2>2, <1>1
<1>2. CASE ~(Len(s) <= n)
  <2> DEFINE m == Len(s) - n + 1
             t == SubSeq(s, m, Len(s))
  <2>1. LastOf(s, n) = t
    BY <1>2 DEF LastOf
  <2>2. m \in 1..Len(s) /\ \A i \in m..Len(s) : s[i] \in S
    BY <1>0, <1>2
  <2>3. /\ t \in Seq(S)
        /\ Len(t) = IF m <= Len(s) THEN Len(s) - m + 1 ELSE 0
        /\ \A i \in 1..(Len(s) - m + 1) : t[i] = s[m + i - 1]
    BY <2>2, <1>0, SubSeqProperties
  <2>4. Len(t) = n /\ DOMAIN t = 1..n /\ m - 1 = Len(s) - n
    BY <2>2, <2>3, <1>0, LenProperties
  <2>5. \A i \in DOMAIN t : i + (m - 1) \in DOMAIN s /\ t[i] = s[i + (m - 1)]
    <3> SUFFICES ASSUME NEW i \in 1..n PROVE i + (m - 1) \in 1..Len(s) /\ t[i] = s[i + (m - 1)]
      BY <2>4, <1>0
    <3>1. i \in 1..(Len(s) - m + 1) /\ m + i - 1 = i + (m - 1) /\ i + (m - 1) \in 1..Len(s)
      BY <1>0, <1>2, <2>4
    <3> QED
      BY <3>1, <2>3
  <2>6. m - 1 \in Nat
    BY <1>0, <1>2
  <2> HIDE DEF m, t
  <2> QED
    BY <2>1, <2>3, <2>4, <2>5, <2>6
<1> QED
  BY <1>1, <1>2

\* A list that loses an entry keeps the others in their order.
LEMMA DroppedProperties ==
  ASSUME NEW S, NEW s \in Seq(S), NEW I \in SUBSET (DOMAIN s)
  PROVE  /\ Dropped(s, I) \in Seq(S)
         /\ I = {} => Dropped(s, I) = s
         /\ I # {} => \E i \in I :
              /\ DOMAIN Dropped(s, I) = 1..(Len(s) - 1)
              /\ \A k \in 1..(Len(s) - 1) :
                   Dropped(s, I)[k] = IF k < i THEN s[k] ELSE s[k + 1]
<1>0. Len(s) \in Nat /\ DOMAIN s = 1..Len(s) /\ \A i \in 1..Len(s) : s[i] \in S
  BY LenProperties, ElementOfSeq
<1>1. CASE I = {}
  BY <1>1 DEF Dropped
<1>2. CASE I # {}
  <2> DEFINE i == CHOOSE j \in I : TRUE
             a == SubSeq(s, 1, i - 1)
             b == SubSeq(s, i + 1, Len(s))
  <2>1. Dropped(s, I) = a \o b
    BY <1>2 DEF Dropped
  <2>2. i \in I /\ i \in 1..Len(s)
    BY <1>2, <1>0
  <2> HIDE DEF i
  <2>3. /\ a \in Seq(S) /\ Len(a) = i - 1
        /\ \A k \in 1..(i - 1) : a[k] = s[k]
    <3>1. \A k \in 1..(i - 1) : s[k] \in S
      BY <2>2, <1>0
    <3>2. /\ a \in Seq(S)
          /\ Len(a) = IF 1 <= i - 1 THEN (i - 1) - 1 + 1 ELSE 0
          /\ \A k \in 1..((i - 1) - 1 + 1) : a[k] = s[1 + k - 1]
      BY <3>1, <2>2, SubSeqProperties
    <3> HIDE DEF a
    <3> QED
      BY <3>2, <2>2
  <2>4. /\ b \in Seq(S) /\ Len(b) = Len(s) - i
        /\ \A k \in 1..(Len(s) - i) : b[k] = s[i + k]
    <3>1. \A k \in (i + 1)..Len(s) : s[k] \in S
      BY <2>2, <1>0
    <3>2. /\ b \in Seq(S)
          /\ Len(b) = IF i + 1 <= Len(s) THEN Len(s) - (i + 1) + 1 ELSE 0
          /\ \A k \in 1..(Len(s) - (i + 1) + 1) : b[k] = s[(i + 1) + k - 1]
      BY <3>1, <2>2, <1>0, SubSeqProperties
    <3> HIDE DEF b
    <3>3. \A k \in 1..(Len(s) - i) : (i + 1) + k - 1 = i + k /\ k \in 1..(Len(s) - (i + 1) + 1)
      BY <2>2, <1>0
    <3>4. Len(b) = Len(s) - i
      BY <3>2, <2>2, <1>0
    <3> QED
      BY <3>2, <3>3, <3>4
  <2> HIDE DEF a, b
  <2>5. /\ a \o b \in Seq(S)
        /\ Len(a \o b) = Len(a) + Len(b)
        /\ \A k \in 1..(Len(a) + Len(b)) :
             (a \o b)[k] = IF k <= Len(a) THEN a[k] ELSE b[k - Len(a)]
    BY <2>3, <2>4, ConcatProperties
  <2>6. Len(a) + Len(b) = Len(s) - 1 /\ DOMAIN (a \o b) = 1..(Len(s) - 1)
    <3>1. Len(a) + Len(b) = Len(s) - 1
      BY <2>2, <2>3, <2>4, <1>0
    <3>2. DOMAIN (a \o b) = 1..Len(a \o b)
      BY <2>5, LenProperties
    <3> QED
      BY <3>1, <3>2, <2>5
  <2>7. ASSUME NEW k \in 1..(Len(s) - 1)
        PROVE  (a \o b)[k] = IF k < i THEN s[k] ELSE s[k + 1]
    <3>1. CASE k < i
      <4>1. k <= Len(a) /\ k \in 1..(i - 1)
        BY <3>1, <2>2, <2>3
      <4> QED
        BY <4>1, <3>1, <2>3, <2>5, <2>6
    <3>2. CASE ~(k < i)
      <4>1. ~(k <= Len(a)) /\ k - Len(a) \in 1..(Len(s) - i) /\ i + (k - Len(a)) = k + 1
        BY <3>2, <2>2, <2>3, <1>0
      <4> QED
        BY <4>1, <3>2, <2>4, <2>5, <2>6
    <3> QED
      BY <3>1, <3>2
  <2> QED
    BY <2>1, <2>2, <2>5, <2>6, <2>7, <1>2
<1> QED
  BY <1>1, <1>2

\* A delivery that is remembered is put after the queue of its message.
LEMMA RememberedProperties ==
  ASSUME NEW S, NEW s \in Seq(S), NEW e \in S
  PROVE  /\ Remembered(s, e) \in Seq(S)
         /\ Listed(s, e) => Remembered(s, e) = s
         /\ ~Listed(s, e) => \E at \in 0..Len(s) :
              /\ DOMAIN Remembered(s, e) = 1..(Len(s) + 1)
              /\ \A k \in 1..(Len(s) + 1) :
                   Remembered(s, e)[k] =
                     IF k <= at THEN s[k] ELSE IF k = at + 1 THEN e ELSE s[k - 1]
<1>0. Len(s) \in Nat /\ DOMAIN s = 1..Len(s) /\ \A i \in 1..Len(s) : s[i] \in S
  BY LenProperties, ElementOfSeq
<1>1. CASE Listed(s, e)
  BY <1>1 DEF Remembered
<1>2. CASE ~Listed(s, e)
  <2> DEFINE queue == QueueOf(s, e.msg)
             last == CHOOSE i \in queue : \A j \in queue : j <= i
             at == IF queue = {} THEN Len(s) ELSE last
             a == SubSeq(s, 1, at)
             b == SubSeq(s, at + 1, Len(s))
             c == <<e>>
  <2>1. Remembered(s, e) = (a \o c) \o b
    BY <1>2 DEF Remembered
  <2>2. at \in 0..Len(s)
    <3>1. CASE queue = {}
      BY <3>1, <1>0
    <3>2. CASE queue # {}
      <4>1. queue \in SUBSET (1..Len(s))
        BY <1>0 DEF QueueOf
      <4>2. \E i \in queue : \A j \in queue : j <= i
        BY <4>1, <3>2, <1>0, GreatestExists
      <4> HIDE DEF queue
      <4>3. last \in queue
        BY <4>2, Zenon
      <4>4. at = last
        BY <3>2
      <4> HIDE DEF last, at
      <4>5. last \in 1..Len(s)
        BY <4>1, <4>3
      <4> QED
        BY <4>4, <4>5
    <3> QED
      BY <3>1, <3>2
  <2> HIDE DEF at
  <2>3. /\ a \in Seq(S) /\ Len(a) = at
        /\ \A k \in 1..at : a[k] = s[k]
    <3>1. \A k \in 1..at : s[k] \in S
      BY <2>2, <1>0
    <3>2. /\ a \in Seq(S)
          /\ Len(a) = IF 1 <= at THEN at - 1 + 1 ELSE 0
          /\ \A k \in 1..(at - 1 + 1) : a[k] = s[1 + k - 1]
      BY <3>1, <2>2, SubSeqProperties
    <3> HIDE DEF a
    <3> QED
      BY <3>2, <2>2
  <2>4. /\ b \in Seq(S) /\ Len(b) = Len(s) - at
        /\ \A k \in 1..(Len(s) - at) : b[k] = s[at + k]
    <3>1. \A k \in (at + 1)..Len(s) : s[k] \in S
      BY <2>2, <1>0
    <3>2. /\ b \in Seq(S)
          /\ Len(b) = IF at + 1 <= Len(s) THEN Len(s) - (at + 1) + 1 ELSE 0
          /\ \A k \in 1..(Len(s) - (at + 1) + 1) : b[k] = s[(at + 1) + k - 1]
      BY <3>1, <2>2, <1>0, SubSeqProperties
    <3> HIDE DEF b
    <3>3. \A k \in 1..(Len(s) - at) : (at + 1) + k - 1 = at + k /\ k \in 1..(Len(s) - (at + 1) + 1)
      BY <2>2, <1>0
    <3>4. Len(b) = Len(s) - at
      <4>1. CASE at = Len(s)
        BY <4>1, <3>2, <1>0
      <4>2. CASE at # Len(s)
        <5>1. at \in Nat /\ at <= Len(s) /\ Len(s) \in Nat
          BY <2>2, <1>0
        <5>2. at + 1 <= Len(s)
          BY <4>2, <5>1
        <5>3. Len(s) - (at + 1) + 1 = Len(s) - at
          BY <5>1
        <5> QED
          BY <5>2, <5>3, <3>2
      <4> QED
        BY <4>1, <4>2
    <3> QED
      BY <3>2, <3>3, <3>4
  <2>c. c \in Seq(S) /\ Len(c) = 1 /\ c[1] = e
    OBVIOUS
  <2> HIDE DEF a, b, c
  <2>5. /\ a \o c \in Seq(S) /\ Len(a \o c) = at + 1
        /\ \A k \in 1..(at + 1) : (a \o c)[k] = IF k <= at THEN s[k] ELSE e
    <3>1. /\ a \o c \in Seq(S)
          /\ Len(a \o c) = Len(a) + Len(c)
          /\ \A k \in 1..(Len(a) + Len(c)) :
               (a \o c)[k] = IF k <= Len(a) THEN a[k] ELSE c[k - Len(a)]
      BY <2>3, <2>c, ConcatProperties
    <3>2. \A k \in 1..(at + 1) : ~(k <= at) => k - at = 1
      BY <2>2, <1>0
    <3>3. \A k \in 1..(at + 1) : k <= at => k \in 1..at
      BY <2>2, <1>0
    <3> QED
      BY <3>1, <3>2, <3>3, <2>3, <2>c
  <2>6. /\ (a \o c) \o b \in Seq(S)
        /\ Len((a \o c) \o b) = Len(a \o c) + Len(b)
        /\ \A k \in 1..(Len(a \o c) + Len(b)) :
             ((a \o c) \o b)[k] = IF k <= Len(a \o c) THEN (a \o c)[k] ELSE b[k - Len(a \o c)]
    BY <2>5, <2>4, ConcatProperties
  <2>7. Len(a \o c) + Len(b) = Len(s) + 1 /\ DOMAIN ((a \o c) \o b) = 1..(Len(s) + 1)
    BY <2>2, <2>4, <2>5, <2>6, <1>0, LenProperties
  <2>8. ASSUME NEW k \in 1..(Len(s) + 1)
        PROVE  ((a \o c) \o b)[k] =
                 IF k <= at THEN s[k] ELSE IF k = at + 1 THEN e ELSE s[k - 1]
    <3>1. CASE k <= at + 1
      <4>1. k \in 1..(at + 1) /\ (k <= at \/ k = at + 1)
        BY <3>1, <2>2, <1>0
      <4>2. ((a \o c) \o b)[k] = (a \o c)[k]
        BY <3>1, <2>5, <2>6, <2>7
      <4> QED
        BY <4>1, <4>2, <2>5
    <3>2. CASE ~(k <= at + 1)
      <4>1. k - (at + 1) \in 1..(Len(s) - at) /\ at + (k - (at + 1)) = k - 1
            /\ ~(k <= at) /\ k # at + 1
        BY <3>2, <2>2, <1>0
      <4>2. ((a \o c) \o b)[k] = b[k - (at + 1)]
        BY <3>2, <2>5, <2>6, <2>7
      <4> QED
        BY <4>1, <4>2, <2>4
    <3> QED
      BY <3>1, <3>2
  <2> QED
    BY <2>1, <2>2, <2>6, <2>7, <2>8, <1>2
<1> QED
  BY <1>1, <1>2

\* Cutting a list, dropping an entry and remembering a delivery that is not in
\* it make no entry appear twice.
LEMMA LastOnce ==
  ASSUME NEW S, NEW s \in Seq(S), NEW n \in Nat \ {0}
  PROVE  /\ Once(s) => Once(LastOf(s, n))
         /\ OncePerComment(s) => OncePerComment(LastOf(s, n))
         /\ \A i \in DOMAIN LastOf(s, n) : \E j \in DOMAIN s : LastOf(s, n)[i] = s[j]
<1>1. PICK k \in Nat : \A i \in DOMAIN LastOf(s, n) :
        i + k \in DOMAIN s /\ LastOf(s, n)[i] = s[i + k]
  BY LastOfProperties
<1>2. DOMAIN LastOf(s, n) \subseteq Nat
  <2>1. LastOf(s, n) \in Seq(S)
    BY LastOfProperties
  <2>2. DOMAIN LastOf(s, n) = 1..Len(LastOf(s, n))
    BY <2>1, LenProperties
  <2> QED
    BY <2>2
<1>3. \A i, j \in DOMAIN LastOf(s, n) : i + k = j + k => i = j
  BY <1>2
<1> QED
  BY <1>1, <1>3 DEF Once, OncePerComment

\* Taking entries out of a list repeats none.
LEMMA DroppedOnce ==
  ASSUME NEW S, NEW s \in Seq(S), NEW I \in SUBSET (DOMAIN s)
  PROVE  /\ Once(s) => Once(Dropped(s, I))
         /\ OncePerComment(s) => OncePerComment(Dropped(s, I))
         /\ \A k \in DOMAIN Dropped(s, I) : \E j \in DOMAIN s : Dropped(s, I)[k] = s[j]
<1>0. Len(s) \in Nat /\ DOMAIN s = 1..Len(s)
  BY LenProperties
<1>1. CASE I = {}
  BY <1>1, DroppedProperties
<1>2. CASE I # {}
  <2>1. PICK i \in I : /\ DOMAIN Dropped(s, I) = 1..(Len(s) - 1)
                       /\ \A k \in 1..(Len(s) - 1) :
                            Dropped(s, I)[k] = IF k < i THEN s[k] ELSE s[k + 1]
    BY <1>2, DroppedProperties
  <2>2. i \in 1..Len(s)
    BY <1>0
  <2> DEFINE f(k) == IF k < i THEN k ELSE k + 1
  <2>3. ASSUME NEW k \in 1..(Len(s) - 1)
        PROVE  f(k) \in 1..Len(s) /\ Dropped(s, I)[k] = s[f(k)]
    BY <2>1, <2>2, <1>0
  <2>4. ASSUME NEW k \in 1..(Len(s) - 1), NEW l \in 1..(Len(s) - 1), f(k) = f(l)
        PROVE  k = l
    BY <2>4, <2>2, <1>0
  <2> HIDE DEF f
  <2> DEFINE t == Dropped(s, I)
  <2>5. \A k \in DOMAIN t : f(k) \in DOMAIN s /\ t[k] = s[f(k)]
    BY <2>1, <2>3, <1>0
  <2>6. \A k, l \in DOMAIN t : f(k) = f(l) => k = l
    BY <2>1, <2>4
  <2> HIDE DEF t
  <2>7. (Once(s) => Once(t)) /\ (OncePerComment(s) => OncePerComment(t))
    BY <2>5, <2>6 DEF Once, OncePerComment
  <2>8. \A k \in DOMAIN t : \E j \in DOMAIN s : t[k] = s[j]
    BY <2>5
  <2> QED
    BY <2>7, <2>8 DEF t
<1> QED
  BY <1>1, <1>2

\* _remember_pending appends a delivery only where the list has none like it.
LEMMA RememberedOnce ==
  ASSUME NEW S, NEW s \in Seq(S), NEW e \in S, Once(s)
  PROVE  Once(Remembered(s, e))
<1>0. Len(s) \in Nat /\ DOMAIN s = 1..Len(s)
  BY LenProperties
<1>1. CASE Listed(s, e)
  BY <1>1, RememberedProperties
<1>2. CASE ~Listed(s, e)
  <2> DEFINE t == Remembered(s, e)
  <2>1. PICK at \in 0..Len(s) :
          /\ DOMAIN t = 1..(Len(s) + 1)
          /\ \A k \in 1..(Len(s) + 1) :
               t[k] = IF k <= at THEN s[k] ELSE IF k = at + 1 THEN e ELSE s[k - 1]
    BY <1>2, RememberedProperties
  <2> HIDE DEF t
  <2> DEFINE f(k) == IF k <= at THEN k ELSE k - 1
  <2>2. ASSUME NEW k \in 1..(Len(s) + 1), k # at + 1
        PROVE  f(k) \in DOMAIN s /\ t[k] = s[f(k)] /\ t[k] # e
    <3>1. f(k) \in DOMAIN s
      BY <2>2, <1>0
    <3>2. t[k] = s[f(k)]
      BY <2>1, <2>2
    <3> QED
      BY <3>1, <3>2, <1>2 DEF Listed
  <2>3. at + 1 \in 1..(Len(s) + 1) /\ t[at + 1] = e
    BY <2>1, <1>0
  <2>4. ASSUME NEW k \in 1..(Len(s) + 1), NEW l \in 1..(Len(s) + 1),
               k # at + 1, l # at + 1, f(k) = f(l)
        PROVE  k = l
    BY <2>4, <1>0
  <2> HIDE DEF f
  <2>5. ASSUME NEW k \in 1..(Len(s) + 1), NEW l \in 1..(Len(s) + 1), t[k] = t[l]
        PROVE  k = l
    <3>1. CASE k = at + 1 \/ l = at + 1
      BY <3>1, <2>2, <2>3, <2>5
    <3>2. CASE k # at + 1 /\ l # at + 1
      BY <3>2, <2>2, <2>4, <2>5 DEF Once
    <3> QED
      BY <3>1, <3>2
  <2> QED
    BY <2>1, <2>5 DEF Once, t
<1> QED
  BY <1>1, <1>2

\* A message's queue consists of places of the list.
LEMMA QueueInList ==
  ASSUME NEW s, NEW m
  PROVE  QueueOf(s, m) \in SUBSET (DOMAIN s)
  BY DEF QueueOf

\* The list a pending ledger becomes when a delivery is discarded.
LEMMA WithoutProperties ==
  ASSUME NEW s \in Seq(Delivery), NEW e
  PROVE  Without(s, e) \in Seq(Delivery) /\ (Once(s) => Once(Without(s, e)))
<1>1. {i \in DOMAIN s : s[i] = e} \in SUBSET (DOMAIN s)
  OBVIOUS
<1> QED
  BY <1>1, DroppedProperties, DroppedOnce DEF Without

\* The head of a queue is a delivery of the message.
LEMMA HeadOfProperties ==
  ASSUME ledger \in Seq(Delivery), NEW m, QueueOf(ledger, m) # {}
  PROVE  HeadOf(m) \in Delivery /\ HeadOf(m).msg = m
<1> DEFINE Q == QueueOf(ledger, m)
           i == CHOOSE i \in Q : \A j \in Q : i <= j
<1>1. Q \in SUBSET (DOMAIN ledger) /\ DOMAIN ledger = 1..Len(ledger)
  BY LenProperties, QueueInList
<1>2. Q \in SUBSET Nat
  BY <1>1
<1>3. \E j \in Q : \A k \in Q : j <= k
  BY <1>2, LeastExists
<1>4. \A j \in Q : j \in 1..Len(ledger) /\ ledger[j].msg = m
  BY <1>1 DEF QueueOf
<1> HIDE DEF Q
<1>5. i \in Q
  BY <1>3, Zenon
<1>6. HeadOf(m) = ledger[i]
  BY DEF HeadOf, Q
<1> HIDE DEF i
<1>7. ledger[i] \in Delivery
  BY <1>4, <1>5, ElementOfSeq
<1> QED
  BY <1>4, <1>5, <1>6, <1>7

\* The acknowledgement of a delivery joins those of other comments.
LEMMA AckSavedProperties ==
  ASSUME acks \in Seq(Delivery), OncePerComment(acks), NEW e \in Delivery
  PROVE  /\ AckSaved(e) \in Seq(Delivery)
         /\ Len(AckSaved(e)) <= AckLimit
         /\ OncePerComment(AckSaved(e))
         /\ \A i \in DOMAIN AckSaved(e) :
              AckSaved(e)[i] = e \/ \E j \in DOMAIN acks : AckSaved(e)[i] = acks[j]
<1> DEFINE Q == QueueOf(acks, e.msg)
           t == Dropped(acks, Q)
           u == Append(t, e)
<1>0. Len(acks) \in Nat /\ DOMAIN acks = 1..Len(acks) /\ Q \in SUBSET (DOMAIN acks)
  BY LenProperties, QueueInList
<1>1. /\ t \in Seq(Delivery) /\ OncePerComment(t)
      /\ \A k \in DOMAIN t : \E j \in DOMAIN acks : t[k] = acks[j]
  BY <1>0, DroppedProperties, DroppedOnce
<1>2. \A k \in DOMAIN t : t[k].msg # e.msg
  <2>1. CASE Q = {}
    <3>1. t = acks
      BY <2>1, <1>0, DroppedProperties
    <3> QED
      BY <2>1, <3>1 DEF QueueOf
  <2>2. CASE Q # {}
    <3>1. PICK i \in Q : /\ DOMAIN t = 1..(Len(acks) - 1)
                         /\ \A k \in 1..(Len(acks) - 1) :
                              t[k] = IF k < i THEN acks[k] ELSE acks[k + 1]
      BY <2>2, <1>0, DroppedProperties
    <3>2. i \in 1..Len(acks) /\ acks[i].msg = e.msg
      BY <1>0 DEF QueueOf
    <3> HIDE DEF t
    <3>3. ASSUME NEW k \in DOMAIN t
          PROVE  \E j \in DOMAIN acks : j # i /\ t[k] = acks[j]
      <4>1. CASE k < i
        <5>1. k \in DOMAIN acks /\ k # i /\ t[k] = acks[k]
          BY <4>1, <3>1, <3>2, <1>0
        <5> QED
          BY <5>1
      <4>2. CASE ~(k < i)
        <5>1. k + 1 \in DOMAIN acks /\ k + 1 # i /\ t[k] = acks[k + 1]
          BY <4>2, <3>1, <3>2, <1>0
        <5> QED
          BY <5>1
      <4> QED
        BY <4>1, <4>2
    <3> QED
      BY <3>2, <3>3, <1>0 DEF OncePerComment
  <2> QED
    BY <2>1, <2>2
<1> HIDE DEF t
<1>3. /\ u \in Seq(Delivery) /\ Len(u) = Len(t) + 1
      /\ \A i \in 1..Len(t) : u[i] = t[i]
      /\ u[Len(t) + 1] = e
  BY <1>1, AppendProperties
<1>4. Len(t) \in Nat /\ DOMAIN t = 1..Len(t) /\ DOMAIN u = 1..(Len(t) + 1)
  BY <1>1, <1>3, LenProperties
<1> HIDE DEF u
<1>5. \A i \in DOMAIN u : (i \in DOMAIN t /\ u[i] = t[i]) \/ (i = Len(t) + 1 /\ u[i] = e)
  BY <1>3, <1>4
<1>6. OncePerComment(u)
  BY <1>1, <1>2, <1>5 DEF OncePerComment
<1>7. AckSaved(e) = LastOf(u, AckLimit) /\ AckLimit \in Nat \ {0}
  BY ServiceAssumption DEF AckSaved, u, t
<1>8. /\ AckSaved(e) \in Seq(Delivery) /\ Len(AckSaved(e)) <= AckLimit
      /\ OncePerComment(AckSaved(e))
  BY <1>3, <1>6, <1>7, LastOfProperties, LastOnce
<1>9. \A i \in DOMAIN AckSaved(e) : \E j \in DOMAIN u : AckSaved(e)[i] = u[j]
  BY <1>3, <1>7, LastOnce
<1> QED
  BY <1>1, <1>5, <1>8, <1>9

----------------------------------------------------------------------------
(* Which steps write what *)

\* Each part of the state is written by few actions.
Written ==
  /\ channel' = channel \/ PostComment \/ EditComment
  /\ expired' = expired \/ Expire
  /\ stops' = stops \/ Stop
  /\ posted' = posted \/ \E d \in svc.todo : PublishComment(d)
  /\ terminal' = terminal \/ \E d \in svc.todo : RecordTerminalProjection(d)
  /\ activated' = activated \/ \E d \in svc.todo : Activate(d)
  /\ receipts' = receipts \/ \E d \in svc.todo : SaveReceipt(d)
  /\ watermark' = watermark \/ \E d \in svc.todo : HandleReplay(d) \/ SaveWatermark(d)
  /\ owner' = owner \/ OwnerDrifts \/ \E d \in svc.todo : Execute(d)
  /\ completed' = completed \/ GateCompletes
  /\ execs' = execs \/ \E d \in svc.todo : Execute(d)
  /\ binding' = binding \/ \E d \in svc.todo :
       \/ ResolveAcked(d) \/ CloseResolved(d) \/ MarkOutboxed(d)
       \/ MarkProjected(d) \/ AfterProjectionPublished(d) \/ BindBeforeReceipt(d)
  /\ \/ outbox' = outbox \/ outbox' = StateSaved(outbox)
     \/ \E d \in svc.todo :
          \/ ResolveAcked(d) \/ EnqueueRecovered(d) \/ MarkPublished(d)
          \/ AfterProjectionPublished(d) \/ EnqueueActivation(d) \/ Diagnose(d)
  /\ \/ UNCHANGED ledgers \/ Start
     \/ \E d \in svc.todo :
          \/ DeliverCanonical(d) \/ SuppressPublish(d) \/ SaveDeliveryAck(d)
          \/ DiscardPending(d) \/ ScanAcked(d) \/ ScanControl(d)

\* The next-state relation touches each variable in the actions named here only.
LEMMA Writers ==
  ASSUME [Next]_vars
  PROVE  Written
<1> USE DEF remote, ledgers, ingress, canonical, Written
<1>1. CASE Environment
  BY <1>1 DEF Environment, PostComment, EditComment, Expire, GateCompletes, PlanAdvances,
              OwnerDrifts, Stop
<1>2. CASE Start \/ NextStage \/ EndScan \/ PollDone
  BY <1>2 DEF Start, NextStage, EndScan, PollDone
<1>3. ASSUME NEW d \in svc.todo, Recovery(d)
      PROVE  Written
  <2>1. CASE ResolveAcked(d)
    BY <2>1 DEF ResolveAcked
  <2>2. CASE CloseResolved(d)
    BY <2>2 DEF CloseResolved
  <2>3. CASE LeaveUnresolved(d)
    BY <2>3 DEF LeaveUnresolved
  <2>4. CASE EnqueueRecovered(d)
    BY <2>4 DEF EnqueueRecovered
  <2>5. CASE RecordTerminalProjection(d)
    BY <2>5 DEF RecordTerminalProjection
  <2>6. CASE MarkOutboxed(d)
    BY <2>6 DEF MarkOutboxed
  <2>7. CASE DeliverCanonical(d)
    BY <2>7 DEF DeliverCanonical
  <2>8. CASE DeliverOther(d)
    BY <2>8 DEF DeliverOther
  <2> QED
    BY <1>3, <2>1, <2>2, <2>3, <2>4, <2>5, <2>6, <2>7, <2>8 DEF Recovery
<1>4. ASSUME NEW d \in svc.todo, Publication(d)
      PROVE  Written
  <2>1. CASE SuppressPublish(d)
    BY <2>1 DEF SuppressPublish
  <2>2. CASE PublishComment(d)
    BY <2>2 DEF PublishComment
  <2>3. CASE SaveDeliveryAck(d)
    BY <2>3 DEF SaveDeliveryAck
  <2>4. CASE DiscardPending(d)
    BY <2>4 DEF DiscardPending
  <2>5. CASE MarkPublished(d)
    BY <2>5 DEF MarkPublished
  <2>6. CASE MarkProjected(d)
    BY <2>6 DEF MarkProjected
  <2>7. CASE AfterProjectionPublished(d)
    BY <2>7 DEF AfterProjectionPublished
  <2> QED
    BY <1>4, <2>1, <2>2, <2>3, <2>4, <2>5, <2>6, <2>7 DEF Publication
<1>5. ASSUME NEW d \in svc.todo, Poll(d)
      PROVE  Written
  <2>1. CASE ScanAcked(d)
    BY <2>1 DEF ScanAcked
  <2>2. CASE ScanControl(d)
    BY <2>2 DEF ScanControl
  <2>3. CASE HandleExpired(d) \/ RefuseActivation(d) \/ Activate(d) \/ ActivationReportFails(d)
    BY <2>3 DEF HandleExpired, RefuseActivation, Activate, ActivationReportFails
  <2>4. CASE EnqueueActivation(d)
    BY <2>4 DEF EnqueueActivation
  <2>5. CASE HandleReplay(d)
    BY <2>5 DEF HandleReplay
  <2>6. CASE HandleRejected(d) \/ AnswerByMode(d) \/ StaleDirective(d) \/ ExecutionReturns(d)
    BY <2>6 DEF HandleRejected, AnswerByMode, StaleDirective, ExecutionReturns
  <2>7. CASE BindBeforeReceipt(d)
    BY <2>7 DEF BindBeforeReceipt
  <2>8. CASE SaveReceipt(d)
    BY <2>8 DEF SaveReceipt
  <2>9. CASE SaveWatermark(d)
    BY <2>9 DEF SaveWatermark
  <2>10. CASE Diagnose(d)
    BY <2>10 DEF Diagnose
  <2>11. CASE Execute(d)
    BY <2>11 DEF Execute
  <2> QED
    BY <1>5, <2>1, <2>2, <2>3, <2>4, <2>5, <2>6, <2>7, <2>8, <2>9, <2>10, <2>11 DEF Poll
<1>6. CASE UNCHANGED vars
  BY <1>6 DEF vars
<1> QED
  BY <1>1, <1>2, <1>3, <1>4, <1>5, <1>6 DEF Next, Service

\* What was posted, received or executed stays so.
Grown ==
  \A m \in Message :
    /\ channel[m] <= channel'[m]
    /\ receipts[m] # 0 => receipts'[m] # 0
    /\ execs[m] > 0 => execs'[m] > 0
    /\ Used(m) => Used(m)'
    /\ Replied(m) => Replied(m)'
    /\ Answered(m) => Answered(m)'

\* A published comment counts for its message and answer only.
LEMMA PublishedComment ==
  ASSUME IInv, AInv, NEW d \in svc.todo, PublishComment(d)
  PROVE  /\ d.msg \in Message /\ svc.answer \in Answers
         /\ posted' \in [Message -> [Answers -> Many]]
         /\ posted'[d.msg][svc.answer] > 0
         /\ \A m \in Message, a \in Answers :
              (m # d.msg \/ a # svc.answer) => posted'[m][a] = posted[m][a]
         /\ \A m \in Message, a \in Answers : posted[m][a] > 0 => posted'[m][a] > 0
<1>1. d.msg \in Message
  BY MessageOf
<1>2. svc.pc = "publish" /\ posted' = [posted EXCEPT ![d.msg][svc.answer] = OneMore(@)]
      /\ At(svc.pc, d)
  BY DEF PublishComment, At
<1>3. svc.answer \in Answers
  BY <1>2 DEF AInv, Publishing, Known
<1>4. posted \in [Message -> [Answers -> Many]]
  BY DEF AInv, WorldTyped
<1>5. \A n \in Many : OneMore(n) \in Many /\ OneMore(n) > 0
  BY DEF Many, OneMore
<1>6. posted[d.msg][svc.answer] \in Many
  BY <1>1, <1>3, <1>4
<1>7. posted' \in [Message -> [Answers -> Many]]
  BY <1>1, <1>2, <1>3, <1>4, <1>5, <1>6
<1>8. posted'[d.msg][svc.answer] > 0
  BY <1>1, <1>2, <1>3, <1>4, <1>5, <1>6
<1>9. \A m \in Message, a \in Answers :
        (m # d.msg \/ a # svc.answer) => posted'[m][a] = posted[m][a]
  BY <1>1, <1>2, <1>3, <1>4
<1> QED
  BY <1>1, <1>3, <1>7, <1>8, <1>9

\* Every step lets the history grow, and edits only enlarge a version.
LEMMA Growing ==
  ASSUME IInv, AInv, [Next]_vars
  PROVE  Grown
<1>w. Written
  BY Writers
<1>1. \A m \in Message : channel[m] <= channel'[m]
  <2>0. channel \in [Message -> 0..MaxVersion] /\ MaxVersion \in Nat
    BY ServiceAssumption DEF IInv, Typed
  <2>1. CASE channel' = channel
    BY <2>0, <2>1
  <2>2. CASE PostComment
    BY <2>0, <2>2 DEF PostComment
  <2>3. CASE EditComment
    BY <2>0, <2>3 DEF EditComment
  <2> QED
    BY <1>w, <2>1, <2>2, <2>3 DEF Written
<1>2. \A m \in Message : receipts[m] # 0 => receipts'[m] # 0
  <2>1. CASE receipts' = receipts
    BY <2>1
  <2>2. ASSUME NEW d \in svc.todo, SaveReceipt(d)
        PROVE  \A m \in Message : receipts[m] # 0 => receipts'[m] # 0
    <3>1. svc.stage = "poll" /\ d.msg \in Message
      BY <2>2, MessageOf DEF SaveReceipt, At, IInv, Working, PollPlaces
    <3>2. d.ver # 0
      BY <3>1, ServiceAssumption DEF IInv, Working, Delivery, Version
    <3> QED
      BY <2>2, <3>1, <3>2 DEF SaveReceipt, IInv, Typed
  <2> QED
    BY <1>w, <2>1, <2>2 DEF Written
<1>3. \A m \in Message : execs[m] > 0 => execs'[m] > 0
  <2>0. execs \in [Message -> Many]
    BY DEF IInv, Typed
  <2>1. CASE execs' = execs
    BY <2>1
  <2>2. ASSUME NEW d \in svc.todo, Execute(d)
        PROVE  \A m \in Message : execs[m] > 0 => execs'[m] > 0
    <3>1. d.msg \in Message /\ execs' = [execs EXCEPT ![d.msg] = OneMore(@)]
      BY <2>2, MessageOf DEF Execute
    <3>2. \A n \in Many : OneMore(n) > 0
      BY DEF Many, OneMore
    <3> QED
      BY <2>0, <3>1, <3>2
  <2> QED
    BY <1>w, <2>1, <2>2 DEF Written
<1>4. \A m \in Message : Used(m) => Used(m)'
  BY <1>2 DEF Used, ReceiptReaches
<1>5. \A m \in Message, a \in Answers : posted[m][a] > 0 => posted'[m][a] > 0
  BY <1>w, PublishedComment DEF Written
<1>6. \A m \in Message : Replied(m) => Replied(m)'
  BY <1>5 DEF Replied
<1>7. \A m \in Message : Answered(m) => Answered(m)'
  <2> SUFFICES ASSUME NEW m \in Message, Answered(m) PROVE Answered(m)'
    OBVIOUS
  <2>1. posted[m]["RESULT"] \in Many /\ posted[m]["COMPLETED"] \in Many
    BY DEF AInv, WorldTyped, Answers
  <2>2. posted' \in [Message -> [Answers -> Many]]
    BY <1>w, PublishedComment DEF Written, AInv, WorldTyped
  <2>3. posted'[m]["RESULT"] \in Many /\ posted'[m]["COMPLETED"] \in Many
    BY <2>2 DEF Answers
  <2>4. posted[m]["RESULT"] > 0 \/ posted[m]["COMPLETED"] > 0
    BY <2>1 DEF Answered, Many
  <2>5. posted'[m]["RESULT"] > 0 \/ posted'[m]["COMPLETED"] > 0
    BY <1>5, <2>4 DEF Answers
  <2> QED
    BY <2>3, <2>5 DEF Answered, Many
<1> QED
  BY <1>1, <1>2, <1>3, <1>4, <1>6, <1>7 DEF Grown

----------------------------------------------------------------------------
(* The ledgers *)

\* What a message of a loop is bound to, as a delivery.
LEMMA BoundDelivery ==
  ASSUME IInv, AInv, NEW m \in Message, binding[m].proj
  PROVE  [msg |-> m, ver |-> binding[m].ver] \in Delivery
<1>1. binding[m].ver \in 0..MaxVersion /\ binding[m].ver # 0
  BY DEF IInv, Typed, Bindings, AInv, Named
<1> QED
  BY <1>1, ServiceAssumption DEF Delivery, Version

\* The pending ledger as _save_delivery_pending cuts it.
LEMMA PendingSavedProperties ==
  ASSUME NEW s \in Seq(Delivery), Once(s)
  PROVE  PendingSaved(s) \in Seq(Delivery) /\ Len(PendingSaved(s)) <= AckLimit
         /\ Once(PendingSaved(s))
  BY LastOfProperties, LastOnce, ServiceAssumption DEF PendingSaved

\* Every save of a ledger keeps its type, its length and its entries single.
LEMMA LedgerStep ==
  ASSUME IInv, AInv, [Next]_vars
  PROVE  LedgersTyped' /\ SingleEntries'
<1> USE DEF ledgers
<1>w. Written
  BY Writers
<1>0. /\ acks \in Seq(Delivery) /\ Len(acks) <= AckLimit /\ OncePerComment(acks)
      /\ pendFile \in Seq(Delivery) /\ Len(pendFile) <= AckLimit /\ Once(pendFile)
      /\ ledger \in Seq(Delivery) /\ Once(ledger)
  BY DEF AInv, LedgersTyped, SingleEntries
<1>1. CASE UNCHANGED ledgers
  BY <1>0, <1>1 DEF LedgersTyped, SingleEntries, Once, OncePerComment
<1>2. CASE ledger' = pendFile /\ UNCHANGED <<acks, pendFile>>
  BY <1>0, <1>2 DEF LedgersTyped, SingleEntries, Once, OncePerComment
<1>3. ASSUME NEW e, ledger' = Without(ledger, e), acks' = acks,
             pendFile' = pendFile \/ pendFile' = PendingSaved(ledger')
      PROVE  LedgersTyped' /\ SingleEntries'
  <2>1. ledger' \in Seq(Delivery) /\ Once(ledger')
    BY <1>0, <1>3, WithoutProperties
  <2>2. pendFile' \in Seq(Delivery) /\ Len(pendFile') <= AckLimit /\ Once(pendFile')
    BY <1>0, <1>3, <2>1, PendingSavedProperties
  <2> QED
    BY <1>0, <1>3, <2>1, <2>2 DEF LedgersTyped, SingleEntries, Once, OncePerComment
<1>4. ASSUME NEW e \in Delivery, ledger' = Remembered(ledger, e), acks' = acks,
             pendFile' = pendFile \/ pendFile' = PendingSaved(Remembered(ledger, e))
      PROVE  LedgersTyped' /\ SingleEntries'
  <2>1. ledger' \in Seq(Delivery) /\ Once(ledger')
    BY <1>0, <1>4, RememberedProperties, RememberedOnce
  <2>2. pendFile' \in Seq(Delivery) /\ Len(pendFile') <= AckLimit /\ Once(pendFile')
    BY <1>0, <1>4, <2>1, PendingSavedProperties
  <2> QED
    BY <1>0, <1>4, <2>1, <2>2 DEF LedgersTyped, SingleEntries, Once, OncePerComment
<1>5. ASSUME NEW e \in Delivery, acks' = AckSaved(e), UNCHANGED <<pendFile, ledger>>
      PROVE  LedgersTyped' /\ SingleEntries'
  <2>1. acks' \in Seq(Delivery) /\ Len(acks') <= AckLimit /\ OncePerComment(acks')
    BY <1>0, <1>5, AckSavedProperties
  <2> QED
    BY <1>0, <1>5, <2>1 DEF LedgersTyped, SingleEntries, Once, OncePerComment
<1>6. CASE Start
  BY <1>2, <1>6 DEF Start
<1>7. ASSUME NEW d \in svc.todo
      PROVE  /\ DeliverCanonical(d) => LedgersTyped' /\ SingleEntries'
             /\ SuppressPublish(d) => LedgersTyped' /\ SingleEntries'
             /\ SaveDeliveryAck(d) => LedgersTyped' /\ SingleEntries'
             /\ DiscardPending(d) => LedgersTyped' /\ SingleEntries'
             /\ ScanAcked(d) => LedgersTyped' /\ SingleEntries'
             /\ ScanControl(d) => LedgersTyped' /\ SingleEntries'
  <2>m. d.msg \in Message
    BY MessageOf
  <2>1. CASE DeliverCanonical(d)
    <3>1. CASE ~binding[d.msg].proj
      BY <2>1, <3>1, <1>1 DEF DeliverCanonical
    <3>2. CASE binding[d.msg].proj
      <4> DEFINE e == [msg |-> d.msg, ver |-> binding[d.msg].ver]
      <4>1. e \in Delivery
        BY <2>m, <3>2, BoundDelivery
      <4>2. /\ ledger' = Remembered(ledger, e) /\ acks' = acks
            /\ pendFile' = IF Listed(ledger, e) THEN pendFile
                           ELSE PendingSaved(Remembered(ledger, e))
        BY <2>1, <3>2 DEF DeliverCanonical
      <4> HIDE DEF e
      <4> QED
        BY <4>1, <4>2, <1>4
    <3> QED
      BY <3>1, <3>2
  <2>2. CASE SuppressPublish(d)
    BY <2>2, <1>3 DEF SuppressPublish, Discarded
  <2>3. CASE SaveDeliveryAck(d)
    <3>1. CASE QueueOf(ledger, d.msg) = {}
      BY <2>3, <3>1, <1>1 DEF SaveDeliveryAck
    <3>2. CASE QueueOf(ledger, d.msg) # {}
      <4>1. HeadOf(d.msg) \in Delivery
        BY <3>2, <1>0, HeadOfProperties
      <4>2. acks' = AckSaved(HeadOf(d.msg)) /\ UNCHANGED <<pendFile, ledger>>
        BY <2>3, <3>2 DEF SaveDeliveryAck
      <4> QED
        BY <4>1, <4>2, <1>5
    <3> QED
      BY <3>1, <3>2
  <2>4. CASE DiscardPending(d)
    BY <2>4, <1>3 DEF DiscardPending, Discarded
  <2>5. CASE ScanAcked(d)
    BY <2>5, <1>3 DEF ScanAcked
  <2>6. CASE ScanControl(d)
    <3>1. d \in Delivery
      BY <2>6 DEF ScanControl, At, IInv, Working, PollPlaces
    <3>2. /\ ledger' = Remembered(ledger, d) /\ acks' = acks
          /\ pendFile' = pendFile \/ pendFile' = PendingSaved(Remembered(ledger, d))
      BY <2>6 DEF ScanControl
    <3> QED
      BY <3>1, <3>2, <1>4
  <2> QED
    BY <2>1, <2>2, <2>3, <2>4, <2>5, <2>6
<1> QED
  BY <1>w, <1>1, <1>6, <1>7 DEF Written

----------------------------------------------------------------------------
(* The stores and the world *)

Projections == [pending : BOOLEAN, published : BOOLEAN, stale : BOOLEAN]

\* A save of the Full Plan makes projections stale and nothing else.
LEMMA StateSavedProperties ==
  ASSUME outbox \in [Message -> Projections]
  PROVE  /\ StateSaved(outbox) \in [Message -> Projections]
         /\ \A m \in Message : /\ StateSaved(outbox)[m].pending = outbox[m].pending
                               /\ StateSaved(outbox)[m].published = outbox[m].published
<1> SUFFICES ASSUME NEW m \in Message
             PROVE  /\ StateSaved(outbox)[m] \in Projections
                    /\ StateSaved(outbox)[m].pending = outbox[m].pending
                    /\ StateSaved(outbox)[m].published = outbox[m].published
  BY DEF StateSaved
<1> DEFINE b == outbox[m].stale \/ (Kind[m] = "mutation" /\ (outbox[m].pending \/ outbox[m].published))
<1>1. StateSaved(outbox)[m] = [outbox[m] EXCEPT !.stale = b]
  BY DEF StateSaved
<1>2. outbox[m] \in Projections /\ b \in BOOLEAN
  BY DEF Projections
<1> HIDE DEF b
<1> QED
  BY <1>1, <1>2 DEF Projections

\* What a step does to the outbox: an item is enqueued or published, or all of
\* them become stale; none is lost.
OutboxKept ==
  /\ outbox' \in [Message -> Projections]
  /\ \A m \in Message : InOutbox(m) => InOutbox(m)'

\* No step loses an item of the outboxes.
LEMMA OutboxStep ==
  ASSUME IInv, AInv, [Next]_vars
  PROVE  OutboxKept
<1>w. Written
  BY Writers
<1>0. outbox \in [Message -> Projections]
  BY DEF AInv, StoresTyped, Projections
<1>1. CASE outbox' = outbox
  BY <1>0, <1>1 DEF OutboxKept, InOutbox
<1>2. CASE outbox' = StateSaved(outbox)
  BY <1>0, <1>2, StateSavedProperties DEF OutboxKept, InOutbox
<1>3. ASSUME NEW m \in Message,
             outbox' = [outbox EXCEPT ![m] = Published(@)] \/ outbox' = [outbox EXCEPT ![m] = Enqueued]
      PROVE  OutboxKept
  <2>1. /\ Published(outbox[m]) \in Projections /\ Published(outbox[m]).published
        /\ Enqueued \in Projections /\ Enqueued.pending
    BY <1>0 DEF Published, Enqueued, Projections
  <2> QED
    BY <1>0, <1>3, <2>1 DEF OutboxKept, InOutbox
<1>4. ASSUME NEW d \in svc.todo,
             \/ ResolveAcked(d) \/ EnqueueRecovered(d) \/ MarkPublished(d)
             \/ AfterProjectionPublished(d) \/ EnqueueActivation(d) \/ Diagnose(d)
      PROVE  OutboxKept
  <2>1. d.msg \in Message
    BY MessageOf
  <2>2. outbox[d.msg] \in Projections /\ outbox = [outbox EXCEPT ![d.msg] = @]
    BY <2>1, <1>0
  <2>3. \/ outbox' = outbox
        \/ outbox' = [outbox EXCEPT ![d.msg] = Published(@)]
        \/ outbox' = [outbox EXCEPT ![d.msg] = Enqueued]
    BY <1>4, <2>2 DEF ResolveAcked, EnqueueRecovered, MarkPublished, AfterProjectionPublished,
                      EnqueueActivation, Diagnose
  <2> QED
    BY <2>1, <2>3, <1>1, <1>3
<1> QED
  BY <1>w, <1>1, <1>2, <1>4 DEF Written

\* The stores keep their types.
LEMMA StoresStep ==
  ASSUME IInv, AInv, IInv', [Next]_vars
  PROVE  StoresTyped'
<1>w. Written
  BY Writers
<1>1. receipts' \in [Message -> 0..MaxVersion] /\ binding' \in [Message -> Bindings]
  BY DEF IInv, Typed
<1>2. outbox' \in [Message -> Projections]
  BY OutboxStep DEF OutboxKept
<1>3. terminal' \subseteq Message
  BY <1>w, MessageOf DEF Written, RecordTerminalProjection, AInv, StoresTyped
<1>4. watermark' \in 0..NumMessages
  <2>1. \A d \in svc.todo : d.msg \in 0..NumMessages
    BY MessageOf, ServiceAssumption DEF Message
  <2> QED
    BY <1>w, <2>1 DEF Written, HandleReplay, SaveWatermark, AInv, StoresTyped
<1> QED
  BY <1>1, <1>2, <1>3, <1>4 DEF StoresTyped, Bindings, Projections

\* What lies outside the service keeps its type.
LEMMA WorldStep ==
  ASSUME IInv, AInv, IInv', [Next]_vars
  PROVE  WorldTyped'
<1>w. Written
  BY Writers
<1>0. WorldTyped
  BY DEF AInv
<1>1. channel' \in [Message -> 0..MaxVersion] /\ execs' \in [Message -> Many]
  BY DEF IInv, Typed
<1>2. expired' \subseteq Message
  BY <1>w, <1>0 DEF Written, Expire, WorldTyped
<1>3. posted' \in [Message -> [Answers -> Many]]
  BY <1>w, <1>0, PublishedComment DEF Written, WorldTyped
<1>4. owner' \in 0..NumMessages
  <2>1. \A d \in svc.todo : d.msg \in 0..NumMessages
    BY MessageOf, ServiceAssumption DEF Message
  <2> QED
    BY <1>w, <1>0, <2>1, ServiceAssumption DEF Written, OwnerDrifts, Execute, WorldTyped
<1>5. completed' \subseteq Message
  <2>1. owner # 0 => owner \in Message
    BY <1>0, ServiceAssumption DEF WorldTyped, Message
  <2> QED
    BY <1>w, <1>0, <2>1 DEF Written, GateCompletes, WorldTyped
<1>6. activated' \in [Message -> 0..MaxVersion]
  <2>1. \A d \in svc.todo : d.msg \in Message /\ d.ver \in 0..MaxVersion
    BY DEF IInv, Typed, ProcessTyped
  <2> QED
    BY <1>w, <1>0, <2>1 DEF Written, Activate, WorldTyped
<1>7. stops' \in 0..MaxStops
  BY <1>w, <1>0, ServiceAssumption DEF Written, Stop, WorldTyped
<1> QED
  BY <1>1, <1>2, <1>3, <1>4, <1>5, <1>6, <1>7 DEF WorldTyped

----------------------------------------------------------------------------
(* The process *)

\* The loops are entered at a start and between the stages; within a stage a
\* step takes the loop's next message, or stays at it.
Stayed ==
  /\ svc'.stage = svc.stage
  /\ svc'.todo \cup svc'.batch \subseteq svc.todo \cup svc.batch
  /\ svc'.todo \subseteq svc.todo \/ svc.stage = "poll"

Moved == Start \/ NextStage \/ svc' = Off \/ Stayed

\* Going to a place, taking the next message and answering keep to the loop.
LEMMA FormsStay ==
  ASSUME IInv
  PROVE  /\ svc' = svc => Stayed
         /\ \A pc : svc' = Goto(pc) => Stayed
         /\ \A a : svc' = Reply(a) => Stayed
         /\ \A pc, d : svc' = Advance(pc, d) => Stayed
  BY DEF IInv, Typed, ProcessTyped, Goto, Reply, Advance, Stayed

\* Every step enters a loop or keeps to the one it is in.
LEMMA Moving ==
  ASSUME IInv, [Next]_vars
  PROVE  Moved
<1> USE DEF Moved
<1>1. CASE Environment
  BY <1>1, FormsStay DEF Environment, PostComment, EditComment, Expire, GateCompletes,
                         PlanAdvances, OwnerDrifts, Stop
<1>2. CASE Start \/ NextStage \/ PollDone
  BY <1>2 DEF PollDone
<1>3. CASE EndScan
  <2>1. svc.stage = "poll" /\ svc' = [svc EXCEPT !.pc = "handle", !.todo = svc.batch, !.batch = {}]
    BY <1>3 DEF EndScan, IInv, Working, PollPlaces
  <2> QED
    BY <2>1 DEF IInv, Typed, ProcessTyped, Stayed
<1>4. ASSUME NEW d \in svc.todo, Recovery(d)
      PROVE  Moved
  BY <1>4, FormsStay DEF Recovery, ResolveAcked, CloseResolved, LeaveUnresolved, EnqueueRecovered,
    RecordTerminalProjection, MarkOutboxed, DeliverCanonical, DeliverOther
<1>5. ASSUME NEW d \in svc.todo, Publication(d)
      PROVE  Moved
  BY <1>5, FormsStay DEF Publication, SuppressPublish, Discarded, PublishComment, SaveDeliveryAck,
    DiscardPending, MarkPublished, MarkProjected, AfterProjectionPublished
<1>6. ASSUME NEW d \in svc.todo, Poll(d)
      PROVE  Moved
  <2>1. CASE ScanControl(d)
    <3>1. svc.stage = "poll" /\ svc' = [Advance("scan", d) EXCEPT !.batch = @ \cup {d}]
      BY <2>1 DEF ScanControl, At, IInv, Working, PollPlaces
    <3> QED
      BY <3>1 DEF IInv, Typed, ProcessTyped, Advance, Stayed
  <2>2. CASE ~ScanControl(d)
    BY <1>6, <2>2, FormsStay DEF Poll, ScanAcked, HandleExpired, RefuseActivation, Activate,
      ActivationReportFails, EnqueueActivation, HandleReplay, HandleRejected, BindBeforeReceipt,
      SaveReceipt, SaveWatermark, AnswerByMode, Diagnose, StaleDirective, Execute, ExecutionReturns
  <2> QED
    BY <2>1, <2>2
<1>7. CASE UNCHANGED vars
  BY <1>7, FormsStay DEF vars
<1> QED
  BY <1>1, <1>2, <1>3, <1>4, <1>5, <1>6, <1>7 DEF Next, Service

\* What the process has read of the comments stays a version that was posted.
LEMMA ReadStep ==
  ASSUME IInv, AInv, IInv', [Next]_vars
  PROVE  Read'
<1>w. Written /\ Moved
  BY Writers, Moving
<1>g. Grown
  BY Growing
<1>0. /\ channel \in [Message -> 0..MaxVersion] /\ channel' \in [Message -> 0..MaxVersion]
      /\ receipts \in [Message -> 0..MaxVersion] /\ MaxVersion \in Nat
  BY ServiceAssumption DEF IInv, Typed
<1>1. \A m \in Message : receipts'[m] <= channel'[m]
  <2>1. CASE receipts' = receipts
    BY <2>1, <1>g, <1>0 DEF Grown, AInv, Read
  <2>2. ASSUME NEW d \in svc.todo, SaveReceipt(d)
        PROVE  \A m \in Message : receipts'[m] <= channel'[m]
    <3>1. svc.stage = "poll" /\ d.msg \in Message /\ receipts' = [receipts EXCEPT ![d.msg] = d.ver]
          /\ channel' = channel
      BY <2>2, MessageOf DEF SaveReceipt, At, IInv, Working, PollPlaces, remote
    <3>2. d.ver <= channel[d.msg]
      BY <3>1 DEF AInv, Read
    <3> QED
      BY <3>1, <3>2, <1>0 DEF AInv, Read
  <2> QED
    BY <1>w, <2>1, <2>2 DEF Written
<1>2. ASSUME svc'.stage = "poll", NEW d \in svc'.todo \cup svc'.batch
      PROVE  d.ver <= channel'[d.msg]
  <2>1. CASE Start \/ svc' = Off
    <3>1. svc'.stage = "none"
      <4>1. CASE Start
        <5>1. PICK mode \in Modes :
                svc' = [Off EXCEPT !.pc = "resolve", !.mode = mode,
                          !.todo = Deliveries({m \in Message : Unresolved(m)}, BoundVersion)]
          BY <4>1 DEF Start
        <5> QED
          BY <5>1 DEF Off
      <4>2. CASE svc' = Off
        BY <4>2 DEF Off
      <4> QED
        BY <2>1, <4>1, <4>2
    <3> QED
      BY <3>1, <1>2
  <2>2. CASE NextStage
    <3> DEFINE stage == StageAfter(svc.stage)
               posts == Deliveries({m \in Message : channel[m] # 0}, channel)
    <3>1. svc.batch = {} /\ channel' = channel
      BY <2>2 DEF NextStage, IInv, Working, remote
    <3>2. CASE stage = "poll"
      <4>1. svc' = [svc EXCEPT !.pc = "scan", !.stage = stage, !.todo = posts]
        BY <2>2, <3>2 DEF NextStage
      <4>2. svc'.todo = posts /\ svc'.batch = {}
        BY <4>1, <3>1 DEF IInv, Typed, ProcessTyped
      <4>3. PICK m \in Message : d = [msg |-> m, ver |-> channel[m]]
        BY <4>2, <1>2 DEF Deliveries
      <4> QED
        BY <4>3, <3>1, <1>0
    <3>3. CASE stage # "poll"
      <4>1. svc'.stage = stage
        BY <2>2, <3>3 DEF NextStage, IInv, Typed, ProcessTyped
      <4> QED
        BY <4>1, <3>3, <1>2
    <3> QED
      BY <3>2, <3>3
  <2>3. CASE Stayed
    <3>1. d \in svc.todo \cup svc.batch /\ svc.stage = "poll"
      BY <2>3, <1>2 DEF Stayed
    <3>2. d.ver <= channel[d.msg] /\ d.msg \in Message /\ d.ver \in 0..MaxVersion
      BY <3>1, ServiceAssumption DEF AInv, Read, IInv, Typed, ProcessTyped, Delivery, Version
    <3> QED
      BY <3>2, <1>g, <1>0 DEF Grown
  <2> QED
    BY <1>w, <2>1, <2>2, <2>3 DEF Moved
<1> QED
  BY <1>1, <1>2 DEF Read

----------------------------------------------------------------------------
(* Bindings and their causes *)

\* A binding is made once, for a version, and moves forward while it is
\* unresolved; it is closed when the message has been answered.
Rebound ==
  \A m \in Message :
    \/ binding'[m] = binding[m]
    \/ /\ Unresolved(m)
       /\ binding'[m].ver = binding[m].ver
       /\ binding'[m].status \in {"OUTBOXED", "PROJECTED"}
       /\ binding'[m].status = "PROJECTED" => Replied(m)
    \/ /\ binding[m].status = "NONE"
       /\ binding'[m].status = "PENDING"
       /\ binding'[m].ver # 0

\* An acknowledged message has been answered.
LEMMA AckedIsReplied ==
  ASSUME IInv, AInv, NEW m \in Message, NEW v, Acked([msg |-> m, ver |-> v])
  PROVE  Replied(m)
<1>1. PICK i \in DOMAIN acks : acks[i] = [msg |-> m, ver |-> v]
  BY DEF Acked, Listed
<1>2. acks[i].msg = m
  BY <1>1
<1> QED
  BY <1>2 DEF AInv, Final, AckedIsAnswered, Replied

\* Every step leaves a binding alone, makes it, or moves it forward.
LEMMA BindingStep ==
  ASSUME IInv, AInv, [Next]_vars
  PROVE  Rebound
<1>w. Written
  BY Writers
<1>0. binding \in [Message -> Bindings]
  BY DEF IInv, Typed
<1>1. ASSUME NEW m \in Message, Unresolved(m), Replied(m),
             binding' = [binding EXCEPT ![m] = Projected(@)]
      PROVE  Rebound
  <2>1. Projected(binding[m]).ver = binding[m].ver /\ Projected(binding[m]).status = "PROJECTED"
    BY <1>0 DEF Bindings, Projected
  <2> QED
    BY <1>0, <1>1, <2>1 DEF Rebound
<1>2. ASSUME NEW d \in svc.todo,
             \/ ResolveAcked(d) \/ CloseResolved(d) \/ MarkOutboxed(d)
             \/ MarkProjected(d) \/ AfterProjectionPublished(d) \/ BindBeforeReceipt(d)
      PROVE  Rebound
  <2>m. d.msg \in Message
    BY MessageOf
  <2>1. CASE binding' = binding
    BY <2>1 DEF Rebound
  <2>2. CASE ResolveAcked(d)
    <3>1. Unresolved(d.msg)
      BY <2>2 DEF ResolveAcked, At, AInv, Loops, ResolvePlaces
    <3>2. Replied(d.msg)
      BY <2>2, <2>m, AckedIsReplied DEF ResolveAcked
    <3>3. binding' = binding \/ binding' = [binding EXCEPT ![d.msg] = Projected(@)]
      BY <2>2 DEF ResolveAcked
    <3> QED
      BY <1>1, <2>1, <2>m, <3>1, <3>2, <3>3
  <2>3. CASE CloseResolved(d)
    <3>1. Unresolved(d.msg)
      BY <2>3 DEF CloseResolved, At, AInv, Loops, ResolvePlaces
    <3>2. Replied(d.msg)
      BY <2>3 DEF CloseResolved, At, AInv, Publishing, Known, RepliedPlaces
    <3> QED
      BY <1>1, <2>3, <2>m, <3>1, <3>2 DEF CloseResolved
  <2>4. CASE MarkOutboxed(d)
    <3>1. Unresolved(d.msg)
      BY <2>4 DEF MarkOutboxed, At, AInv, Loops, ResolvePlaces
    <3>2. /\ \A n \in Message \ {d.msg} : binding'[n] = binding[n]
          /\ binding'[d.msg].status = "OUTBOXED" /\ binding'[d.msg].ver = binding[d.msg].ver
      BY <2>4, <2>m, <1>0 DEF MarkOutboxed, Bindings
    <3> QED
      BY <3>1, <3>2 DEF Rebound
  <2>5. CASE MarkProjected(d) \/ AfterProjectionPublished(d)
    <3>1. Replied(d.msg)
      BY <2>5 DEF MarkProjected, AfterProjectionPublished, At, AInv, Publishing, Known, RepliedPlaces
    <3>2. binding' = [binding EXCEPT ![d.msg] = IF Unresolved(d.msg) THEN Projected(@) ELSE @]
      BY <2>5 DEF MarkProjected, AfterProjectionPublished
    <3>3. CASE Unresolved(d.msg)
      BY <3>1, <3>2, <3>3, <1>1, <2>m
    <3>4. CASE ~Unresolved(d.msg)
      BY <3>2, <3>4, <2>1, <2>m, <1>0
    <3> QED
      BY <3>3, <3>4
  <2>6. CASE BindBeforeReceipt(d)
    <3>1. d.ver # 0
      BY <2>6, ServiceAssumption
      DEF BindBeforeReceipt, Operator, At, IInv, Working, PollPlaces, Delivery, Version
    <3>2. CASE binding' # binding
      <4>1. /\ binding[d.msg].status = "NONE"
            /\ binding' = [binding EXCEPT ![d.msg] = [status |-> "PENDING", ver |-> d.ver, proj |-> FALSE]]
        BY <2>6, <3>2 DEF BindBeforeReceipt
      <4>2. /\ \A n \in Message \ {d.msg} : binding'[n] = binding[n]
            /\ binding'[d.msg].status = "PENDING" /\ binding'[d.msg].ver = d.ver
        BY <4>1, <2>m, <1>0
      <4> QED
        BY <3>1, <4>1, <4>2 DEF Rebound
    <3> QED
      BY <2>1, <3>2
  <2> QED
    BY <1>2, <2>2, <2>3, <2>4, <2>5, <2>6
<1>3. CASE binding' = binding
  BY <1>3 DEF Rebound
<1> QED
  BY <1>w, <1>2, <1>3 DEF Written

\* Only a version that is bound is ever named by a projection.
LEMMA NamedStep ==
  ASSUME IInv, AInv, IInv', [Next]_vars
  PROVE  Named'
<1>w. Written
  BY Writers
<1>r. Rebound
  BY BindingStep
<1>1. \A m \in Message : binding'[m].status = "NONE" <=> binding'[m].ver = 0
  BY <1>r DEF Rebound, AInv, Named, Unresolved
<1>2. ASSUME NEW m \in Message, binding'[m].proj
      PROVE  binding'[m].ver # 0
  <2>0. binding \in [Message -> Bindings]
    BY DEF IInv, Typed
  <2>1. CASE binding'[m] = binding[m]
    BY <1>2, <2>1 DEF AInv, Named
  <2>2. CASE binding'[m] # binding[m]
    BY <1>r, <2>2 DEF Rebound, AInv, Named, Unresolved
  <2> QED
    BY <2>1, <2>2
<1> QED
  BY <1>1, <1>2 DEF Named

\* A binding keeps the cause that made it.
LEMMA CausedStep ==
  ASSUME IInv, AInv, [Next]_vars
  PROVE  Caused'
<1>w. Written
  BY Writers
<1>g. Grown
  BY Growing
<1>c. Caused /\ WorldTyped /\ StoresTyped
  BY DEF AInv
<1>m. \A d \in svc.todo : d.msg \in Message
  BY MessageOf
<1>1. watermark' # 0 => receipts'[watermark'] # 0
  <2>1. ASSUME NEW d \in svc.todo, HandleReplay(d) \/ SaveWatermark(d)
        PROVE  receipts[d.msg] # 0
    <3>1. CASE HandleReplay(d)
      BY <3>1 DEF HandleReplay, Classified
    <3>2. CASE SaveWatermark(d)
      BY <3>2 DEF SaveWatermark, At, IInv, Checked
    <3> QED
      BY <2>1, <3>1, <3>2
  <2>2. watermark' = watermark \/ \E d \in svc.todo : watermark' = d.msg /\ receipts[d.msg] # 0
    BY <1>w, <2>1 DEF Written, HandleReplay, SaveWatermark
  <2>3. watermark # 0 => watermark \in Message
    BY <1>c, ServiceAssumption DEF StoresTyped, Message
  <2> QED
    BY <1>c, <1>g, <1>m, <2>2, <2>3 DEF Caused, Grown
<1>2. \A m \in Message : execs'[m] > 0 => Mutation(m)
  <2>1. ASSUME NEW d \in svc.todo, Execute(d)
        PROVE  /\ execs' = [execs EXCEPT ![d.msg] = OneMore(@)] /\ Mutation(d.msg)
    BY <2>1 DEF Execute, MayExecute, Mutation
  <2>2. execs \in [Message -> Many]
    BY <1>c DEF WorldTyped
  <2> QED
    BY <1>w, <1>c, <2>1, <2>2 DEF Written, Caused
<1>3. owner' # 0 => execs'[owner'] > 0
  <2>1. ASSUME NEW d \in svc.todo, Execute(d)
        PROVE  owner' = d.msg /\ execs'[d.msg] > 0
    <3>1. /\ execs' = [execs EXCEPT ![d.msg] = OneMore(@)] /\ owner' = d.msg
          /\ d.msg \in Message /\ execs[d.msg] \in Many
      BY <2>1, <1>m, <1>c DEF Execute, WorldTyped
    <3>2. execs'[d.msg] = OneMore(execs[d.msg])
      BY <3>1, <1>c DEF WorldTyped
    <3> QED
      BY <3>1, <3>2 DEF OneMore, Many
  <2>2. owner # 0 => owner \in Message
    BY <1>c, ServiceAssumption DEF WorldTyped, Message
  <2> QED
    BY <1>w, <1>c, <1>g, <2>1, <2>2 DEF Written, OwnerDrifts, Caused, Grown
<1>4. \A m \in completed' : execs'[m] > 0
  <2>1. \A m \in completed' : m \in completed \/ (m = owner /\ owner # 0)
    BY <1>w DEF Written, GateCompletes
  <2>2. (owner # 0 => owner \in Message) /\ completed \subseteq Message
    BY <1>c, ServiceAssumption DEF WorldTyped, Message
  <2> QED
    BY <2>1, <2>2, <1>c, <1>g DEF Caused, Grown
<1>5. ASSUME NEW m \in Message, Mutation(m), InOutbox(m)'
      PROVE  execs'[m] > 0
  <2>0. outbox \in [Message -> Projections]
    BY <1>c DEF StoresTyped, Projections
  <2>1. CASE InOutbox(m)
    BY <2>1, <1>5, <1>c, <1>g DEF Caused, Grown
  <2>2. CASE ~InOutbox(m)
    <3>1. outbox' # outbox /\ outbox' # StateSaved(outbox)
      BY <2>0, <2>2, <1>5, StateSavedProperties DEF InOutbox
    <3>2. PICK d \in svc.todo :
            \/ ResolveAcked(d) \/ EnqueueRecovered(d) \/ MarkPublished(d)
            \/ AfterProjectionPublished(d) \/ EnqueueActivation(d) \/ Diagnose(d)
      BY <1>w, <3>1 DEF Written
    <3>3. m = d.msg
      BY <3>1, <3>2, <2>0, <2>2, <1>5, <1>m
      DEF ResolveAcked, EnqueueRecovered, MarkPublished, AfterProjectionPublished,
          EnqueueActivation, Diagnose, InOutbox
    <3>4. CASE ResolveAcked(d)
      BY <3>1, <3>3, <3>4, <2>2 DEF ResolveAcked, InOutbox
    <3>5. CASE EnqueueRecovered(d)
      <4>1. m \in completed
        BY <3>3, <3>5 DEF EnqueueRecovered, Evidence
      <4> QED
        BY <4>1, <1>c, <1>g DEF Caused, Grown
    <3>6. CASE MarkPublished(d)
      <4>1. svc.stage \in {"mutation", "control", "diagnostic"}
        BY <3>6 DEF MarkPublished, At, AInv, Loops, PublishPlaces, IInv, Typed, ProcessTyped
      <4> QED
        BY <4>1, <3>3, <2>2 DEF AInv, Loops
    <3>7. CASE AfterProjectionPublished(d)
      <4>1. Kind[d.msg] # "control" /\ ~(Kind[d.msg] = "diagnostic")
        BY <3>3, <1>5 DEF Mutation
      <4>2. outbox' = [outbox EXCEPT ![d.msg] = @]
        BY <3>7, <4>1 DEF AfterProjectionPublished
      <4> QED
        BY <3>1, <4>2, <2>0
    <3>8. CASE EnqueueActivation(d)
      <4>1. ~Mutation(d.msg)
        BY <3>8 DEF EnqueueActivation, At, AInv, Publishing, Known
      <4> QED
        BY <3>3, <4>1, <1>5
    <3>9. CASE Diagnose(d)
      BY <3>3, <3>9, <1>5 DEF Diagnose, MayDiagnose, Mutation
    <3> QED
      BY <3>2, <3>4, <3>5, <3>6, <3>7, <3>8, <3>9
  <2> QED
    BY <2>1, <2>2
<1> QED
  BY <1>1, <1>2, <1>3, <1>4, <1>5 DEF Caused

----------------------------------------------------------------------------
(* Answers *)

\* What is final was answered, and stays so.
LEMMA FinalStep ==
  ASSUME IInv, AInv, IInv', [Next]_vars
  PROVE  Final'
<1>w. Written
  BY Writers
<1>g. Grown
  BY Growing
<1>f. Final /\ WorldTyped /\ LedgersTyped
  BY DEF AInv
<1>m. \A d \in svc.todo : d.msg \in Message
  BY MessageOf
<1>1. AckedIsAnswered'
  <2>0. acks \in Seq(Delivery) /\ pendFile \in Seq(Delivery) /\ ledger \in Seq(Delivery)
    BY <1>f DEF LedgersTyped
  <2>1. \A i \in DOMAIN acks : acks[i].msg \in Message /\ Replied(acks[i].msg)
    <3>1. \A i \in DOMAIN acks : acks[i] \in Delivery
      BY <2>0, LenProperties, ElementOfSeq
    <3> QED
      BY <3>1, <1>f DEF Final, AckedIsAnswered, Replied, Delivery
  <2>2. CASE acks' = acks
    BY <2>1, <2>2, <1>g DEF Grown, AckedIsAnswered, Replied
  <2>3. ASSUME NEW d \in svc.todo, SaveDeliveryAck(d), acks' # acks
        PROVE  AckedIsAnswered'
    <3>1. QueueOf(ledger, d.msg) # {} /\ acks' = AckSaved(HeadOf(d.msg))
      BY <2>3 DEF SaveDeliveryAck
    <3> DEFINE e == HeadOf(d.msg)
    <3>2. e \in Delivery /\ e.msg = d.msg
      BY <3>1, <2>0, HeadOfProperties
    <3>3. Replied(d.msg)
      BY <2>3 DEF SaveDeliveryAck, At, AInv, Publishing, Known, RepliedPlaces
    <3> HIDE DEF e
    <3>4. \A i \in DOMAIN acks' : acks'[i] = e \/ \E j \in DOMAIN acks : acks'[i] = acks[j]
      BY <3>1, <3>2, <2>0, AckSavedProperties DEF e, AInv, SingleEntries
    <3>5. \A i \in DOMAIN acks' : acks'[i].msg \in Message /\ Replied(acks'[i].msg)
      BY <3>2, <3>3, <3>4, <2>1, <1>m
    <3> QED
      BY <3>5, <1>g DEF Grown, AckedIsAnswered, Replied
  <2>4. acks' = acks \/ \E d \in svc.todo : SaveDeliveryAck(d)
    BY <1>w DEF Written, ledgers, Start, DeliverCanonical, SuppressPublish, Discarded,
                DiscardPending, ScanAcked, ScanControl
  <2> QED
    BY <2>2, <2>3, <2>4
<1>2. \A m \in Message : binding'[m].status = "PROJECTED" => Replied(m)'
  BY BindingStep, <1>f, <1>g DEF Rebound, Final, Grown
<1>3. ASSUME NEW m \in Message, Mutation(m), Replied(m)'
      PROVE  Used(m)'
  <2>1. CASE Replied(m)
    BY <2>1, <1>3, <1>f, <1>g DEF Final, Grown
  <2>2. CASE ~Replied(m)
    <3>1. PICK d \in svc.todo : PublishComment(d)
      BY <1>w, <1>3, <2>2 DEF Written, Replied
    <3>2. m = d.msg
      BY <3>1, <1>3, <2>2, PublishedComment DEF Replied
    <3>3. Used(m)
      BY <3>1, <3>2, <1>3 DEF PublishComment, At, AInv, Publishing, Known
    <3> QED
      BY <3>3, <1>g DEF Grown
  <2> QED
    BY <2>1, <2>2
<1>4. ASSUME NEW m \in Message, Unedited(m)', execs'[m] > 0, Replied(m)'
      PROVE  Answered(m)'
  <2>0. Unedited(m)
    <3>1. channel[m] \in Int /\ channel'[m] \in Int /\ channel[m] <= channel'[m]
      BY <1>g, ServiceAssumption DEF Grown, IInv, Typed
    <3>2. channel'[m] <= 1
      BY <1>4 DEF Unedited
    <3> QED
      BY <3>1, <3>2 DEF Unedited
  <2>1. CASE execs[m] > 0 /\ Replied(m)
    BY <2>0, <2>1, <1>f, <1>g DEF Final, Grown
  <2>2. CASE ~(execs[m] > 0)
    <3>1. PICK d \in svc.todo : Execute(d)
      BY <1>w, <1>4, <2>2 DEF Written
    <3>2. m = d.msg /\ Mutation(m)
      <4>1. execs' = [execs EXCEPT ![d.msg] = OneMore(@)] /\ Mutation(d.msg)
        BY <3>1 DEF Execute, MayExecute, Mutation
      <4> QED
        BY <4>1, <1>4, <1>f, <2>2 DEF WorldTyped
    <3>3. ~Replied(m)
      BY <3>1, <3>2 DEF Execute, At, AInv, Publishing, Known
    <3>4. posted' = posted
      BY <3>1 DEF Execute, remote
    <3> QED
      BY <3>3, <3>4, <1>4 DEF Replied
  <2>3. CASE execs[m] > 0 /\ ~Replied(m)
    <3>1. PICK d \in svc.todo : PublishComment(d)
      BY <1>w, <1>4, <2>3 DEF Written, Replied
    <3>2. m = d.msg
      BY <3>1, <1>4, <2>3, PublishedComment DEF Replied
    <3>3. Mutation(m)
      BY <2>3 DEF AInv, Caused
    <3>4. Truthful(m, svc.answer)
      BY <3>1, <3>2, <3>3 DEF PublishComment, At, AInv, Publishing, Known
    <3>5. svc.answer \in {"RESULT", "COMPLETED"} \/ Answered(m)
      BY <3>4, <2>0, <2>3 DEF Truthful
    <3>6. CASE Answered(m)
      BY <3>6, <1>g DEF Grown
    <3>7. CASE svc.answer \in {"RESULT", "COMPLETED"}
      <4>1. posted'[m][svc.answer] > 0 /\ posted' \in [Message -> [Answers -> Many]]
        BY <3>1, <3>2, PublishedComment
      <4>2. posted'[m]["RESULT"] \in Many /\ posted'[m]["COMPLETED"] \in Many
        BY <4>1 DEF Answers
      <4>3. posted'[m]["RESULT"] > 0 \/ posted'[m]["COMPLETED"] > 0
        BY <3>7, <4>1
      <4> QED
        BY <4>2, <4>3 DEF Answered, Many
    <3> QED
      BY <3>5, <3>6, <3>7
  <2> QED
    BY <2>1, <2>2, <2>3
<1> QED
  BY <1>1, <1>2, <1>3, <1>4 DEF Final

----------------------------------------------------------------------------
(* What the process knows where it is *)

\* Two deliveries of one loop that are both first are the same.
LEMMA FirstIsOne ==
  ASSUME IInv, NEW d \in svc.todo, NEW e \in svc.todo,
         \A f \in svc.todo : d.msg <= f.msg, \A f \in svc.todo : e.msg <= f.msg
  PROVE  e = d
<1>1. d.msg <= e.msg /\ e.msg <= d.msg /\ d.msg \in Nat /\ e.msg \in Nat
  BY MessageOf, ServiceAssumption DEF Message
<1>2. d.msg = e.msg
  BY <1>1
<1> QED
  BY <1>2 DEF IInv, Working

\* A step that stays at its message has to say what is known of it next.
LEMMA StillAt ==
  ASSUME IInv, NEW d \in svc.todo, At(svc.pc, d), NEW pc, NEW a,
         (svc' = Goto(pc) /\ a = svc.answer) \/ (svc' = Reply(a) /\ pc = "publish"),
         Known(pc, a, d.msg)'
  PROVE  Publishing'
<1>1. svc'.pc = pc /\ svc'.answer = a /\ svc'.todo = svc.todo
  BY DEF IInv, Typed, ProcessTyped, Goto, Reply
<1>2. ASSUME NEW e \in svc'.todo, \A f \in svc'.todo : e.msg <= f.msg
      PROVE  Known(pc, a, e.msg)'
  <2>1. e = d
    BY <1>1, <1>2, FirstIsOne DEF At
  <2> QED
    BY <2>1
<1> QED
  BY <1>1, <1>2 DEF Publishing, At

\* The same for a step that answers nothing, receives nothing and executes
\* nothing.
LEMMA StillKnown ==
  ASSUME IInv, NEW d \in svc.todo, At(svc.pc, d), NEW pc, NEW a,
         (svc' = Goto(pc) /\ a = svc.answer) \/ (svc' = Reply(a) /\ pc = "publish"),
         UNCHANGED <<channel, posted, receipts, execs>>,
         Known(pc, a, d.msg)
  PROVE  Publishing'
<1>1. Known(pc, a, d.msg)'
  BY DEF Known, Used, ReceiptReaches, Truthful, Unedited, Answered, Replied
<1> QED
  BY <1>1, StillAt

QuietPlaces == {"off", "resolve", "enqueued", "recorded", "deliver", "scan", "handle", "bound"}

\* Nothing has to be known where nothing is being answered or accepted.
LEMMA QuietPlace ==
  ASSUME svc'.pc \in QuietPlaces
  PROVE  Publishing'
  BY DEF Publishing, Known, QuietPlaces, RepliedPlaces

\* The receipt of a message uses its own sequence number.
LEMMA ReceiptUses ==
  ASSUME NEW m \in Message, receipts[m] # 0
  PROVE  Used(m)
<1>1. Sequence[m] <= Sequence[m]
  BY ServiceAssumption
<1> QED
  BY <1>1 DEF Used, ReceiptReaches

\* A message that is answered because it was executed, or that was not.
LEMMA AnswerKnown ==
  ASSUME NEW m, NEW a \in Answers,
         ~Mutation(m) \/ (Used(m) /\ Truthful(m, a))
  PROVE  Known("publish", a, m)
  BY DEF Known, RepliedPlaces

\* After the answer of a message nothing else has to be known of it.
LEMMA RepliedKnown ==
  ASSUME NEW m, NEW a, Replied(m), NEW pc \in RepliedPlaces
  PROVE  Known(pc, a, m)
  BY DEF Known, RepliedPlaces

\* Recovery leaves the process where its knowledge suffices.
LEMMA RecoveryKnows ==
  ASSUME IInv, AInv, NEW d \in svc.todo, Recovery(d)
  PROVE  Publishing'
<1> USE DEF remote, ledgers, ingress, canonical
<1>m. d.msg \in Message
  BY MessageOf
<1>q. {"off", "resolve", "enqueued", "recorded", "deliver"} \subseteq QuietPlaces
  BY DEF QuietPlaces
<1>1. CASE ResolveAcked(d)
  <2>1. Replied(d.msg)
    BY <1>1, <1>m, AckedIsReplied DEF ResolveAcked
  <2>2. CASE svc' = Goto("close")
    <3>1. Known("close", svc.answer, d.msg)
      BY <2>1, RepliedKnown DEF RepliedPlaces
    <3>2. At(svc.pc, d) /\ UNCHANGED <<channel, posted, receipts, execs>>
      BY <1>1 DEF ResolveAcked, At
    <3> QED
      BY <2>2, <3>1, <3>2, StillKnown
  <2>3. CASE svc' # Goto("close")
    BY <1>1, <2>3, <1>q, Moves, QuietPlace DEF ResolveAcked
  <2> QED
    BY <2>2, <2>3
<1>2. CASE CloseResolved(d) \/ LeaveUnresolved(d) \/ MarkOutboxed(d)
  BY <1>2, <1>q, Moves, QuietPlace DEF CloseResolved, LeaveUnresolved, MarkOutboxed
<1>3. CASE EnqueueRecovered(d) \/ RecordTerminalProjection(d)
  BY <1>3, <1>q, Moves, QuietPlace DEF EnqueueRecovered, RecordTerminalProjection
<1>4. CASE DeliverCanonical(d)
  <2>1. CASE svc' = Off
    BY <2>1, <1>q, Moves, QuietPlace
  <2>2. CASE svc' = Reply("COMPLETED")
    <3>1. InOutbox(d.msg) /\ Mutation(d.msg)
      BY <1>4 DEF DeliverCanonical, AInv, Loops, Mutation
    <3>2. receipts[d.msg] # 0
      BY <3>1, <1>m DEF AInv, Caused, IInv, Recorded
    <3>3. Known("publish", "COMPLETED", d.msg)
      BY <3>2, <1>m, ReceiptUses, AnswerKnown DEF Truthful, Answers
    <3>4. At(svc.pc, d) /\ UNCHANGED <<channel, posted, receipts, execs>>
      BY <1>4 DEF DeliverCanonical, At
    <3> QED
      BY <2>2, <3>3, <3>4, StillKnown
  <2> QED
    BY <1>4, <2>1, <2>2 DEF DeliverCanonical
<1>5. CASE DeliverOther(d)
  <2>1. ~Mutation(d.msg)
    BY <1>5 DEF DeliverOther, AInv, Loops, Mutation
  <2>2. PICK a \in {"ACTIVATED", "DIAGNOSED"} : svc' = Reply(a)
    BY <1>5 DEF DeliverOther
  <2>3. Known("publish", a, d.msg)
    BY <2>1, <2>2, AnswerKnown DEF Answers
  <2>4. At(svc.pc, d) /\ UNCHANGED <<channel, posted, receipts, execs>>
    BY <1>5 DEF DeliverOther, At
  <2> QED
    BY <2>2, <2>3, <2>4, StillKnown
<1> QED
  BY <1>1, <1>2, <1>3, <1>4, <1>5 DEF Recovery

\* So does each step of a publication.
LEMMA PublicationKnows ==
  ASSUME IInv, AInv, NEW d \in svc.todo, Publication(d)
  PROVE  Publishing'
<1> USE DEF remote, ledgers, ingress, canonical
<1>m. d.msg \in Message
  BY MessageOf
<1>q. {"deliver", "handle"} \subseteq QuietPlaces
  BY DEF QuietPlaces
<1>p. {"posted", "acked", "finish", "project"} \subseteq RepliedPlaces
  BY DEF RepliedPlaces
<1>1. ASSUME Replied(d.msg), NEW pc \in RepliedPlaces, svc' = Goto(pc), At(svc.pc, d),
             UNCHANGED <<channel, posted, receipts, execs>>
      PROVE  Publishing'
  BY <1>1, RepliedKnown, StillKnown
<1>2. svc.pc \in RepliedPlaces /\ At(svc.pc, d) => Replied(d.msg)
  BY DEF AInv, Publishing, Known
<1>3. CASE SuppressPublish(d)
  <2>1. Acked(HeadOf(d.msg)) /\ QueueOf(ledger, d.msg) # {}
    BY <1>3 DEF SuppressPublish, AlreadyPublished
  <2>2. HeadOf(d.msg) \in Delivery /\ HeadOf(d.msg).msg = d.msg
    BY <2>1, HeadOfProperties DEF AInv, LedgersTyped
  <2>3. HeadOf(d.msg) = [msg |-> d.msg, ver |-> HeadOf(d.msg).ver]
    BY <2>2 DEF Delivery
  <2>4. Replied(d.msg)
    BY <2>1, <2>3, <1>m, AckedIsReplied
  <2> QED
    BY <1>3, <2>4, <1>1, <1>p DEF SuppressPublish, Discarded, At
<1>4. CASE PublishComment(d)
  <2>1. Replied(d.msg)'
    BY <1>4, PublishedComment DEF Replied
  <2>2. svc' = Goto("posted") /\ At(svc.pc, d)
    BY <1>4 DEF PublishComment, At
  <2>3. PICK a : a = svc.answer
    OBVIOUS
  <2>4. Known("posted", a, d.msg)'
    BY <2>1 DEF Known, RepliedPlaces
  <2> QED
    BY <2>2, <2>3, <2>4, StillAt
<1>5. CASE SaveDeliveryAck(d)
  BY <1>5, <1>1, <1>2, <1>p DEF SaveDeliveryAck, At
<1>6. CASE DiscardPending(d)
  BY <1>6, <1>1, <1>2, <1>p DEF DiscardPending, Discarded, At
<1>7. CASE MarkPublished(d)
  BY <1>7, <1>1, <1>2, <1>p, <1>q, Moves, QuietPlace DEF MarkPublished, At
<1>8. CASE MarkProjected(d) \/ AfterProjectionPublished(d)
  BY <1>8, <1>q, Moves, QuietPlace DEF MarkProjected, AfterProjectionPublished
<1> QED
  BY <1>3, <1>4, <1>5, <1>6, <1>7, <1>8 DEF Publication

\* The number of an unanswered message is not used yet; a refusal of a
\* mutation that was executed needs an edited comment.
LEMMA IngressKnows ==
  ASSUME IInv, AInv, NEW d \in svc.todo, HandleReplay(d) \/ HandleRejected(d)
  PROVE  Publishing'
<1> USE DEF remote, ledgers, ingress, canonical
<1>m. d.msg \in Message
  BY MessageOf
<1>0. /\ At(svc.pc, d) /\ svc.pc = "handle" /\ svc.stage = "poll"
      /\ UNCHANGED <<channel, posted, receipts, execs>>
  BY DEF HandleReplay, HandleRejected, Operator, At, IInv, Working, PollPlaces
<1>v. d.ver \in 1..MaxVersion /\ d.ver <= channel[d.msg] /\ receipts[d.msg] <= channel[d.msg]
  BY <1>0, <1>m DEF IInv, Working, Delivery, Version, AInv, Read
<1>1. CASE svc' = Off
  BY <1>1, Moves, QuietPlace DEF QuietPlaces
<1>2. CASE HandleReplay(d) /\ svc' = Reply("REPLAY")
  <2>1. receipts[d.msg] # 0
    BY <1>2 DEF HandleReplay, Classified
  <2>2. svc' # Off
    BY <1>2, Moves
  <2>3. ~Unresolved(d.msg)
    BY <1>2, <2>2 DEF HandleReplay
  <2>4. Truthful(d.msg, "REPLAY")
    <3> SUFFICES ASSUME Unedited(d.msg), execs[d.msg] > 0 PROVE Answered(d.msg)
      BY DEF Truthful
    <3>1. binding[d.msg].ver # 0
      BY <1>m, <2>1 DEF AInv, Caused, Mutation, IInv, Recorded, RecoveryIdentity
    <3>2. binding[d.msg].status = "PROJECTED"
      BY <1>m, <2>3, <3>1 DEF AInv, Named, Unresolved, IInv, Typed, Bindings
    <3> QED
      BY <1>m, <3>2 DEF AInv, Final
  <2>5. Known("publish", "REPLAY", d.msg)
    BY <2>1, <2>4, <1>m, ReceiptUses, AnswerKnown DEF Answers
  <2> QED
    BY <1>0, <1>2, <2>5, StillKnown
<1>3. CASE HandleRejected(d)
  <2>1. Used(d.msg)
    <3>1. CASE receipts[d.msg] # 0
      BY <1>m, <3>1, ReceiptUses
    <3>2. CASE receipts[d.msg] = 0
      <4>1. SequenceUsed(Sequence[d.msg])
        BY <1>3, <3>2 DEF HandleRejected, Classified
      <4>2. CASE ReceiptReaches(Sequence[d.msg])
        BY <4>2 DEF Used
      <4>3. CASE WatermarkReaches(Sequence[d.msg])
        <5>1. watermark \in Message /\ receipts[watermark] # 0
          BY <4>3, ServiceAssumption
          DEF WatermarkReaches, AInv, Caused, StoresTyped, Message
        <5> QED
          BY <4>3, <5>1 DEF WatermarkReaches, Used, ReceiptReaches
      <4> QED
        BY <4>1, <4>2, <4>3 DEF SequenceUsed
    <3> QED
      BY <3>1, <3>2
  <2>2. Truthful(d.msg, "REFUSED")
    <3> SUFFICES ASSUME Unedited(d.msg), execs[d.msg] > 0 PROVE FALSE
      BY DEF Truthful
    <3>1. receipts[d.msg] # 0 /\ receipts[d.msg] \in Nat /\ channel[d.msg] \in Nat
      BY <1>m DEF IInv, Recorded, Typed
    <3>2. receipts[d.msg] # d.ver
      BY <1>3, <3>1 DEF HandleRejected, Classified
    <3> QED
      BY <1>v, <3>1, <3>2 DEF Unedited
  <2>3. Known("publish", "REFUSED", d.msg)
    BY <2>1, <2>2, AnswerKnown DEF Answers
  <2>4. svc' = Reply("REFUSED")
    BY <1>3 DEF HandleRejected
  <2> QED
    BY <1>0, <2>3, <2>4, StillKnown
<1> QED
  BY <1>1, <1>2, <1>3 DEF HandleReplay

\* So does each step of the poll: this is where an answer is chosen.
LEMMA PollKnows ==
  ASSUME IInv, AInv, NEW d \in svc.todo, Poll(d)
  PROVE  Publishing'
<1> USE DEF remote, ledgers, ingress, canonical
<1>m. d.msg \in Message
  BY MessageOf
<1>q. {"off", "scan", "handle", "bound"} \subseteq QuietPlaces
  BY DEF QuietPlaces
<1>a. {"RESULT", "DIAGNOSED", "ACTIVATED", "REPLAY", "REFUSED"} \subseteq Answers
  BY DEF Answers
<1>o. ASSUME NEW a \in Answers, ~Mutation(d.msg), At(svc.pc, d), svc' = Reply(a),
             UNCHANGED <<channel, posted, receipts, execs>>
      PROVE  Publishing'
  BY <1>o, AnswerKnown, StillKnown
<1>1. CASE ScanAcked(d)
  BY <1>1, <1>q, Moves, QuietPlace DEF ScanAcked
<1>2. CASE ScanControl(d)
  <2>1. svc'.pc = "scan"
    BY <1>2 DEF ScanControl, Advance, IInv, Typed, ProcessTyped
  <2> QED
    BY <2>1, <1>q, QuietPlace
<1>3. CASE HandleExpired(d)
  <2>1. CASE Kind[d.msg] = "control"
    BY <1>3, <2>1, <1>o, <1>a DEF HandleExpired, At, Mutation
  <2>2. CASE Kind[d.msg] # "control"
    BY <1>3, <2>2, <1>q, Moves, QuietPlace DEF HandleExpired
  <2> QED
    BY <2>1, <2>2
<1>4. CASE RefuseActivation(d)
  BY <1>4, <1>o, <1>a DEF RefuseActivation, At, Mutation
<1>5. CASE Activate(d)
  <2>1. ~Mutation(d.msg) /\ svc' = Goto("activated") /\ At(svc.pc, d)
        /\ UNCHANGED <<channel, posted, receipts, execs>>
    BY <1>5 DEF Activate, At, Mutation
  <2>2. PICK a : a = svc.answer
    OBVIOUS
  <2>3. Known("activated", a, d.msg)
    BY <2>1 DEF Known, RepliedPlaces
  <2> QED
    BY <2>1, <2>2, <2>3, StillKnown
<1>6. CASE ActivationReportFails(d) \/ EnqueueActivation(d)
  <2>1. At(svc.pc, d) /\ svc.pc = "activated"
    BY <1>6 DEF ActivationReportFails, EnqueueActivation, At
  <2>2. ~Mutation(d.msg)
    BY <2>1 DEF AInv, Publishing, Known
  <2> QED
    BY <1>6, <2>1, <2>2, <1>o, <1>a DEF ActivationReportFails, EnqueueActivation
<1>7. CASE HandleReplay(d) \/ HandleRejected(d)
  BY <1>7, IngressKnows
<1>8. CASE BindBeforeReceipt(d)
  BY <1>8, <1>q, Moves, QuietPlace DEF BindBeforeReceipt
<1>9. CASE SaveReceipt(d)
  <2>1. At(svc.pc, d) /\ svc.pc = "bound" /\ svc' = Goto("received") /\ posted' = posted
    BY <1>9 DEF SaveReceipt, At
  <2>2. ~Used(d.msg)
    BY <2>1 DEF IInv, Checked, Used
  <2>3. ~(Mutation(d.msg) /\ Replied(d.msg))
    BY <2>2, <1>m DEF AInv, Final
  <2>4. PICK a : a = svc.answer
    OBVIOUS
  <2>5. Known("received", a, d.msg)'
    BY <2>1, <2>3 DEF Known, RepliedPlaces, Replied
  <2> QED
    BY <2>1, <2>4, <2>5, StillAt
<1>10. CASE SaveWatermark(d)
  <2>1. /\ At(svc.pc, d) /\ svc.pc = "received" /\ svc' = Goto("accepted")
        /\ UNCHANGED <<channel, posted, receipts, execs>>
    BY <1>10 DEF SaveWatermark, At
  <2>2. ~(Mutation(d.msg) /\ Replied(d.msg))
    BY <2>1 DEF AInv, Publishing, Known
  <2>3. PICK a : a = svc.answer
    OBVIOUS
  <2>4. Known("accepted", a, d.msg)
    BY <2>2 DEF Known, RepliedPlaces
  <2> QED
    BY <2>1, <2>3, <2>4, StillKnown
<1>11. CASE AnswerByMode(d)
  <2>1. /\ At(svc.pc, d) /\ svc.pc = "accepted" /\ svc' = Reply("REFUSED")
        /\ UNCHANGED <<channel, posted, receipts, execs>>
    BY <1>11 DEF AnswerByMode, At
  <2>2. execs[d.msg] = 0 /\ receipts[d.msg] # 0
    BY <2>1 DEF IInv, Checked
  <2>3. Known("publish", "REFUSED", d.msg)
    BY <2>2, <1>m, <1>a, ReceiptUses, AnswerKnown DEF Truthful
  <2> QED
    BY <2>1, <2>3, StillKnown
<1>12. CASE Diagnose(d)
  BY <1>12, <1>o, <1>a DEF Diagnose, MayDiagnose, At, Mutation
<1>13. CASE StaleDirective(d)
  BY <1>13, <1>q, Moves, QuietPlace DEF StaleDirective
<1>14. CASE Execute(d)
  <2>1. At(svc.pc, d) /\ svc.pc = "accepted" /\ svc' = Goto("executing") /\ receipts' = receipts
    BY <1>14 DEF Execute, At
  <2>2. receipts[d.msg] # 0
    BY <2>1 DEF IInv, Checked
  <2>3. PICK a : a = svc.answer
    OBVIOUS
  <2>4. Known("executing", a, d.msg)'
    BY <2>1, <2>2 DEF Known, RepliedPlaces
  <2> QED
    BY <2>1, <2>3, <2>4, StillAt
<1>15. CASE ExecutionReturns(d)
  <2>1. /\ At(svc.pc, d) /\ svc.pc = "executing" /\ svc' = Reply("RESULT")
        /\ UNCHANGED <<channel, posted, receipts, execs>>
    BY <1>15 DEF ExecutionReturns, At
  <2>2. receipts[d.msg] # 0
    BY <2>1 DEF AInv, Publishing, Known
  <2>3. Known("publish", "RESULT", d.msg)
    BY <2>2, <1>m, <1>a, ReceiptUses, AnswerKnown DEF Truthful
  <2> QED
    BY <2>1, <2>3, StillKnown
<1> QED
  BY <1>1, <1>2, <1>3, <1>4, <1>5, <1>6, <1>7, <1>8, <1>9, <1>10, <1>11, <1>12, <1>13,
     <1>14, <1>15 DEF Poll

\* The knowledge at every place survives every step.
LEMMA PublishingStep ==
  ASSUME IInv, AInv, IInv', [Next]_vars
  PROVE  Publishing'
<1>g. Grown
  BY Growing
<1>q. {"off", "resolve", "deliver", "scan", "handle"} \subseteq QuietPlaces
  BY DEF QuietPlaces
<1>1. CASE svc' = svc /\ UNCHANGED <<posted, receipts, execs>>
  <2> SUFFICES ASSUME NEW d \in svc.todo, At(svc.pc, d) PROVE Known(svc.pc, svc.answer, d.msg)'
    BY <1>1 DEF Publishing, At
  <2>m. d.msg \in Message
    BY MessageOf
  <2>1. Known(svc.pc, svc.answer, d.msg)
    BY DEF AInv, Publishing
  <2>2. Unedited(d.msg)' => Unedited(d.msg)
    <3>1. channel[d.msg] \in Int /\ channel'[d.msg] \in Int /\ channel[d.msg] <= channel'[d.msg]
      BY <1>g, <2>m, ServiceAssumption DEF Grown, IInv, Typed
    <3> QED
      BY <3>1 DEF Unedited
  <2> QED
    BY <1>1, <2>1, <2>2 DEF Known, Used, ReceiptReaches, Truthful, Answered, Replied
<1>2. CASE Environment
  <2>1. CASE Stop
    BY <2>1, <1>q, Moves, QuietPlace DEF Stop
  <2>2. CASE ~Stop
    BY <1>1, <1>2, <2>2 DEF Environment, PostComment, EditComment, Expire, GateCompletes,
      PlanAdvances, OwnerDrifts, remote, ingress, canonical
  <2> QED
    BY <2>1, <2>2
<1>3. CASE Start
  <2>1. PICK mode \in Modes :
          svc' = [Off EXCEPT !.pc = "resolve", !.mode = mode,
                    !.todo = Deliveries({m \in Message : Unresolved(m)}, BoundVersion)]
    BY <1>3 DEF Start
  <2>2. svc'.pc = "resolve"
    BY <2>1 DEF Off
  <2> QED
    BY <2>2, <1>q, QuietPlace
<1>4. CASE NextStage
  <2>1. svc'.pc \in {"scan", "deliver"}
    BY <1>4 DEF NextStage, IInv, Typed, ProcessTyped
  <2> QED
    BY <2>1, <1>q, QuietPlace
<1>5. CASE EndScan
  <2>1. svc'.pc = "handle"
    BY <1>5 DEF EndScan, IInv, Typed, ProcessTyped
  <2> QED
    BY <2>1, <1>q, QuietPlace
<1>6. CASE PollDone
  BY <1>6, <1>q, Moves, QuietPlace DEF PollDone
<1>7. CASE \E d \in svc.todo : Recovery(d) \/ Publication(d) \/ Poll(d)
  BY <1>7, RecoveryKnows, PublicationKnows, PollKnows
<1>8. CASE UNCHANGED vars
  BY <1>1, <1>8 DEF vars, remote, ingress, canonical
<1> QED
  BY <1>2, <1>3, <1>4, <1>5, <1>6, <1>7, <1>8 DEF Next, Service

----------------------------------------------------------------------------
(* What each loop works on *)

\* A step of recovery changes no binding but that of its own message.
LEMMA OtherBindings ==
  ASSUME IInv, AInv, NEW d \in svc.todo, Recovery(d), NEW m \in Message, m # d.msg
  PROVE  binding'[m] = binding[m]
<1>1. d.msg \in Message /\ binding \in [Message -> Bindings]
  BY MessageOf DEF IInv, Typed
<1> QED
  BY <1>1 DEF Recovery, ResolveAcked, CloseResolved, LeaveUnresolved, EnqueueRecovered,
    RecordTerminalProjection, MarkOutboxed, DeliverCanonical, DeliverOther, ingress

\* The loops of recovery and delivery keep to messages they may answer.
LEMMA LoopsStep ==
  ASSUME IInv, AInv, [Next]_vars
  PROVE  Loops'
<1> USE DEF remote, ledgers, ingress, canonical
<1>w. Moved
  BY Moving
<1>o. OutboxKept
  BY OutboxStep
<1>t. /\ svc.stage \in {"none", "mutation", "control", "diagnostic", "poll"}
      /\ \A d \in svc.todo : d.msg \in Message
  BY MessageOf DEF IInv, Typed, ProcessTyped
<1>d. ResolvePlaces \cap PublishPlaces = {} /\ "off" \notin ResolvePlaces \cup PublishPlaces
      /\ "scan" \notin ResolvePlaces \cup PublishPlaces
      /\ "handle" \notin ResolvePlaces \cup PublishPlaces
  BY DEF ResolvePlaces, PublishPlaces
<1>1. CASE svc' = Off
  BY <1>1 DEF Off, Loops, ResolvePlaces, PublishPlaces
<1>2. CASE Start
  <2>1. PICK mode \in Modes :
          svc' = [Off EXCEPT !.pc = "resolve", !.mode = mode,
                    !.todo = Deliveries({m \in Message : Unresolved(m)}, BoundVersion)]
    BY <1>2 DEF Start
  <2>2. /\ svc'.pc = "resolve" /\ svc'.stage = "none"
        /\ svc'.todo = Deliveries({m \in Message : Unresolved(m)}, BoundVersion)
    BY <2>1 DEF Off
  <2>3. \A d \in svc'.todo : Unresolved(d.msg)
    BY <2>2 DEF Deliveries
  <2>4. binding' = binding
    BY <1>2 DEF Start
  <2>5. \A d \in svc'.todo : Unresolved(d.msg)'
    BY <2>3, <2>4 DEF Unresolved
  <2> QED
    BY <2>2, <2>5 DEF Loops, PublishPlaces, ResolvePlaces
<1>3. CASE NextStage
  <2> DEFINE stage == StageAfter(svc.stage)
             held == Deliveries({m \in Message : Kind[m] = stage /\ outbox[m].pending}, BoundVersion)
  <2>1. stage \in {"mutation", "control", "diagnostic", "poll"}
    BY DEF StageAfter
  <2>2. CASE stage = "poll"
    <3>1. svc'.pc = "scan" /\ svc'.stage = "poll"
      BY <1>3, <2>2 DEF NextStage, IInv, Typed, ProcessTyped
    <3> QED
      BY <3>1, <1>d DEF Loops
  <2>3. CASE stage # "poll"
    <3>1. svc'.pc = "deliver" /\ svc'.stage = stage /\ svc'.todo = held /\ outbox' = outbox
      BY <1>3, <2>3 DEF NextStage, IInv, Typed, ProcessTyped
    <3>2. \A d \in held : Kind[d.msg] = stage /\ InOutbox(d.msg)
      BY DEF Deliveries, InOutbox
    <3> HIDE DEF stage, held
    <3>3. \A d \in svc'.todo : Kind[d.msg] = svc'.stage /\ InOutbox(d.msg)'
      BY <3>1, <3>2 DEF InOutbox
    <3> QED
      BY <3>1, <3>3, <2>1 DEF Loops, ResolvePlaces
  <2> QED
    BY <2>2, <2>3
<1>4. CASE Stayed
  <2>1. ASSUME svc'.stage \in {"mutation", "control", "diagnostic"}, NEW d \in svc'.todo
        PROVE  Kind[d.msg] = svc'.stage /\ InOutbox(d.msg)'
    <3>1. svc.stage = svc'.stage /\ d \in svc.todo
      BY <1>4, <2>1 DEF Stayed
    <3> QED
      BY <3>1, <2>1, <1>o, <1>t DEF AInv, Loops, OutboxKept
  <2>2. CASE svc'.pc \notin ResolvePlaces /\ (svc'.pc \in PublishPlaces => svc.stage # "none")
    BY <1>4, <2>1, <2>2 DEF Loops, Stayed
  <2>3. CASE svc' = svc /\ binding' = binding
    BY <2>3, <2>1, <1>d DEF AInv, Loops, Unresolved
  <2>4. ASSUME NEW d \in svc.todo, Recovery(d)
        PROVE  Loops'
    <3>1. CASE DeliverCanonical(d) \/ DeliverOther(d)
      <4>1. svc'.pc \in {"off", "publish"} /\ svc.stage # "none"
        BY <3>1, Moves DEF DeliverCanonical, DeliverOther
      <4> QED
        BY <4>1, <2>2, <1>d DEF ResolvePlaces, PublishPlaces
    <3>2. CASE ~(DeliverCanonical(d) \/ DeliverOther(d))
      <4>1. svc.pc \in ResolvePlaces
        BY <2>4, <3>2 DEF Recovery, ResolveAcked, CloseResolved, LeaveUnresolved,
          EnqueueRecovered, RecordTerminalProjection, MarkOutboxed, At, ResolvePlaces
      <4>2. svc.stage = "none" /\ \A e \in svc.todo : Unresolved(e.msg)
        BY <4>1 DEF AInv, Loops
      <4>3. \A e \in svc.todo : e # d => e.msg # d.msg
        BY DEF IInv, Working
      <4>4. \A e \in svc.todo : e # d => Unresolved(e.msg)'
        BY <4>2, <4>3, <2>4, <1>t, OtherBindings DEF Unresolved
      <4>5. \/ svc' = Off
            \/ svc'.pc \in ResolvePlaces /\ svc'.todo = svc.todo /\ binding' = binding
            \/ svc'.pc \in ResolvePlaces /\ svc'.todo = svc.todo \ {d}
        <5>1. \/ svc' = Off
              \/ svc' = Advance("resolve", d)
              \/ binding' = binding /\ \E pc \in ResolvePlaces : svc' = Goto(pc)
          BY <2>4, <3>2 DEF Recovery, ResolveAcked, CloseResolved, LeaveUnresolved,
            EnqueueRecovered, RecordTerminalProjection, MarkOutboxed, ResolvePlaces
        <5> QED
          BY <5>1 DEF Advance, Goto, IInv, Typed, ProcessTyped, ResolvePlaces
      <4>6. CASE svc' = Off
        BY <4>6, <1>1
      <4>7. CASE svc'.pc \in ResolvePlaces /\ \A e \in svc'.todo : Unresolved(e.msg)'
        BY <4>7, <4>2, <2>1, <1>4, <1>d DEF Loops, Stayed
      <4>8. CASE svc'.todo = svc.todo /\ binding' = binding
        <5>1. \A e \in svc'.todo : Unresolved(e.msg)'
          BY <4>2, <4>8 DEF Unresolved
        <5> QED
          BY <5>1, <4>5, <4>6, <4>7
      <4> QED
        BY <4>4, <4>5, <4>6, <4>7, <4>8
    <3> QED
      BY <3>1, <3>2
  <2>5. ASSUME NEW d \in svc.todo, Publication(d)
        PROVE  Loops'
    <3>1. svc.pc \in PublishPlaces
      BY <2>5 DEF Publication, SuppressPublish, PublishComment, SaveDeliveryAck, DiscardPending,
        MarkPublished, MarkProjected, AfterProjectionPublished, At, PublishPlaces
    <3>2. svc.stage # "none"
      BY <3>1 DEF AInv, Loops
    <3>3. svc'.pc \in PublishPlaces \cup {"handle"}
      BY <2>5, Moves DEF Publication, SuppressPublish, Discarded, PublishComment,
        SaveDeliveryAck, DiscardPending, MarkPublished, MarkProjected, AfterProjectionPublished,
        PublishPlaces
    <3> QED
      BY <3>2, <3>3, <2>2, <1>d
  <2>6. CASE svc.stage = "poll" /\ svc'.pc \notin ResolvePlaces
    BY <2>6, <2>2
  <2>7. CASE EndScan
    <3>1. svc.stage = "poll" /\ svc'.pc = "handle"
      BY <2>7 DEF EndScan, IInv, Working, PollPlaces, Typed, ProcessTyped
    <3> QED
      BY <3>1, <2>6, <1>d
  <2>8. ASSUME NEW d \in svc.todo, Poll(d)
        PROVE  Loops'
    <3>1. svc.pc \in PollPlaces
      BY <2>8 DEF Poll, ScanAcked, ScanControl, HandleExpired, RefuseActivation, Activate,
        ActivationReportFails, EnqueueActivation, HandleReplay, HandleRejected,
        BindBeforeReceipt, Operator, SaveReceipt, SaveWatermark, AnswerByMode, Diagnose,
        StaleDirective, Execute, ExecutionReturns, At, PollPlaces
    <3>2. svc.stage = "poll"
      BY <3>1 DEF IInv, Working
    <3>3. svc'.pc \notin ResolvePlaces
      <4>1. CASE ScanControl(d)
        BY <4>1 DEF ScanControl, Advance, IInv, Typed, ProcessTyped, ResolvePlaces
      <4>2. CASE ~ScanControl(d)
        BY <2>8, <4>2, Moves DEF Poll, ScanAcked, HandleExpired, RefuseActivation, Activate,
          ActivationReportFails, EnqueueActivation, HandleReplay, HandleRejected,
          BindBeforeReceipt, SaveReceipt, SaveWatermark, AnswerByMode, Diagnose,
          StaleDirective, Execute, ExecutionReturns, ResolvePlaces
      <4> QED
        BY <4>1, <4>2
    <3> QED
      BY <3>2, <3>3, <2>6
  <2>9. CASE Environment
    BY <2>3, <2>9, <1>1 DEF Environment, PostComment, EditComment, Expire, GateCompletes,
      PlanAdvances, OwnerDrifts, Stop
  <2>10. CASE UNCHANGED vars
    BY <2>3, <2>10 DEF vars
  <2> QED
    BY <1>1, <1>2, <1>3, <2>4, <2>5, <2>7, <2>8, <2>9, <2>10 DEF Next, Service, PollDone
<1> QED
  BY <1>w, <1>1, <1>2, <1>3, <1>4 DEF Moved

----------------------------------------------------------------------------

\* The strengthened invariant is inductive.
LEMMA AnswerStep == IInv /\ AInv /\ IInv' /\ [Next]_vars => AInv'
  BY LedgerStep, StoresStep, WorldStep, NamedStep, CausedStep, ReadStep, LoopsStep,
     PublishingStep, FinalStep DEF AInv

\* It holds where every store is empty and the process is off.
LEMMA AnswerInit == Init => AInv
<1> SUFFICES ASSUME Init PROVE AInv
  OBVIOUS
<1>1. <<>> \in Seq(Delivery) /\ Len(<<>>) = 0 /\ DOMAIN <<>> = {}
  OBVIOUS
<1>2. LedgersTyped /\ SingleEntries
  BY <1>1, ServiceAssumption DEF Init, LedgersTyped, SingleEntries, Once, OncePerComment
<1>3. StoresTyped /\ WorldTyped
  BY ServiceAssumption DEF Init, StoresTyped, WorldTyped, Unbound, NoProjection, Many, Answers
<1>4. Named /\ Caused /\ Read
  BY DEF Init, Named, Unbound, Caused, NoProjection, InOutbox, Read, Off
<1>5. Loops /\ Publishing
  BY DEF Init, Off, Loops, ResolvePlaces, PublishPlaces, Publishing
<1>6. Final
  BY <1>1 DEF Init, Final, AckedIsAnswered, Unbound, Replied, Used, Answered
<1> QED
  BY <1>2, <1>3, <1>4, <1>5, <1>6 DEF AInv

\* It holds in every reachable state.
LEMMA AnswerInvariant == Spec => [](IInv /\ AInv)
<1>1. Init => IInv /\ AInv
  BY IngressInit, AnswerInit
<1>2. IInv /\ AInv /\ [Next]_vars => (IInv /\ AInv)'
  BY IngressStep, AnswerStep
<1> QED
  BY <1>1, <1>2, PTL DEF Spec

\* Every store holds values of its type and both ledgers on disk keep within
\* delivery_ack_limit, whatever is remembered, acknowledged and discarded.
THEOREM TypeCorrect == Spec => []TypeOK
<1>1. IInv /\ AInv => TypeOK
  BY DEF IInv, Typed, AInv, TypeOK
<1> QED
  BY <1>1, AnswerInvariant, PTL

\* The pending queues hold a delivery once and the acknowledgements a comment
\* once: dropping one entry is what the list comprehensions of
\* _discard_pending and _persist_successful_publish do.
THEOREM LedgersListOnce == Spec => []SingleEntries
<1>1. IInv /\ AInv => SingleEntries
  BY DEF AInv
<1> QED
  BY <1>1, AnswerInvariant, PTL

\* _persist_successful_publish runs after the comment was posted, for a
\* delivery of its message.
THEOREM AcknowledgementsAreAnswers == Spec => []AckedIsAnswered
<1>1. IInv /\ AInv => AckedIsAnswered
  BY DEF AInv, Final
<1> QED
  BY <1>1, AnswerInvariant, PTL

\* No binding of an executed mutation is closed before its result is posted,
\* until a comment is edited: the refusal of an edit closes the binding of the
\* original.
THEOREM ResultsArePosted ==
  Spec => []((\A m \in Message : Unedited(m)) => ClosedIsAnswered)
<1>1. IInv /\ AInv => ((\A m \in Message : Unedited(m)) => ClosedIsAnswered)
  BY DEF AInv, Final, ClosedIsAnswered, Answered
<1> QED
  BY <1>1, AnswerInvariant, PTL
=============================================================================
