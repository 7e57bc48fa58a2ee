-------------------------- MODULE EventQueueProofs --------------------------
(* Proofs about EventQueue: any set of sessions, any answers, any number of  *)
(* messages, calls and tools.                                                *)
EXTENDS EventQueue, SequenceTheorems, FiniteSetTheorems, WellFoundedInduction,
        TLAPS

USE QueueAssumption

-----------------------------------------------------------------------------
(* The inductive invariant.                                                  *)

(* What has been sent and not yet handled, oldest drain first.               *)
Queue == buffer \o channel

(* A call or tool whose end is queued is over; a tool's end is queued once,  *)
(* and not after it was written down.                                        *)
Uses(m, i, t) == i \in DOMAIN m /\ m[i].role = "assistant" /\ t \in m[i].ids
Answers(m, i, t) == i \in DOMAIN m /\ m[i].role = "results" /\ t \in m[i].ids

Fine(e) ==
  /\ e.kind = "LlmComplete" => calls[e.call].status = "over"
  /\ e.kind = "ToolResult" =>
       /\ tools[e.tool].status = "over"
       /\ \A s \in Session, j \in Nat : ~Answers(messages[s], j, e.tool)
QueueInv ==
  /\ \A i \in DOMAIN Queue : Fine(Queue[i])
  /\ \A i, j \in DOMAIN Queue :
       Queue[i].kind = "ToolResult" /\ Queue[j] = Queue[i] => i = j

(* A tool belongs to the one answer that used it, in its session's           *)
(* conversation; its result is behind it, once, and only if it is over.      *)
OfItsSession ==
  \A s \in Session, i, t \in Nat : Uses(messages[s], i, t) => tools[t].session = s
UsedOnce ==
  \A s \in Session, i, j, t \in Nat :
    Uses(messages[s], i, t) /\ Uses(messages[s], j, t) => i = j
Used ==
  \A t \in DOMAIN tools : \E i \in Nat : Uses(messages[tools[t].session], i, t)
UsesInv == OfItsSession /\ UsedOnce /\ Used

AnswersUse ==
  \A s \in Session, i, t \in Nat : Answers(messages[s], i, t) =>
    /\ tools[t].status = "over"
    /\ \E j \in 1 .. i - 1 : Uses(messages[s], j, t)
AnsweredOnce ==
  \A s \in Session, i, j, t \in Nat :
    Answers(messages[s], i, t) /\ Answers(messages[s], j, t) => i = j
AnswersInv == AnswersUse /\ AnsweredOnce

(* Results never follow results; the tools the loop waits for were used in   *)
(* the last answer of their session, and a use without a result that no      *)
(* human message parked is one the loop waits for.                           *)
Parked(m, i) == \E k \in DOMAIN m : i < k /\ m[k].role = "user"
Apart ==
  \A s \in Session : \A i \in 1 .. Len(messages[s]) - 1 :
    ~(messages[s][i].role = "results" /\ messages[s][i + 1].role = "results")
UsedLast ==
  \A s \in Session, i \in Nat, t \in active : Uses(messages[s], i, t) =>
    \A k \in DOMAIN messages[s] : i < k => messages[s][k].role # "assistant"
OpenUses ==
  running => \A s \in Session, i, t \in Nat :
    Alone(s) /\ Uses(messages[s], i, t) /\ ~Parked(messages[s], i) =>
      t \in active \/ \E j \in Nat : Answers(messages[s], j, t)
OpenInv == Apart /\ UsedLast /\ OpenUses

(* Two results of one answer lie in two messages only if a human message     *)
(* came before the later one.                                                *)
PartedInv ==
  \A s \in Session, i, j, k, t, u \in Nat :
    /\ Alone(s)
    /\ Uses(messages[s], i, t) /\ Answers(messages[s], j, t)
    /\ Uses(messages[s], i, u) /\ Answers(messages[s], k, u) /\ j < k
    => Role(messages[s], i, k, "user")

(* The call the loop waits for knows every user message there is.            *)
ContextInv ==
  current # 0 =>
    Positions(calls[current].context, "user")
      = Positions(messages[calls[current].session], "user")

(* What is left of the current message's budget of calls is not spent twice. *)
Budget == IF tool_iterations < max_tool_iterations
            THEN max_tool_iterations - tool_iterations ELSE 0
Stopped == ~running => active = {} /\ current = 0
Paid ==
  /\ IsFiniteSet(UserMessages)
  /\ Len(calls) = 0 => DOMAIN tools = {}
  /\ Len(calls) > 0 =>
       Len(calls) + Budget <= (max_tool_iterations + 1) * Cardinality(UserMessages)
CallsInv == Stopped /\ Paid

Inv == /\ AwaitedIsComing /\ OneThingAtATime /\ UnansweredWereParked
       /\ QueueInv /\ UsesInv /\ AnswersInv /\ OpenInv /\ PartedInv
       /\ ContextInv /\ CallsInv

-----------------------------------------------------------------------------
(* About the queue.                                                          *)

Less == {p \in Nat \X Nat : p[1] < p[2]}

LEMMA LeastNumber ==
  ASSUME NEW T \in SUBSET Nat, T # {}
  PROVE  \E x \in T : \A y \in T : x <= y
<1>1. OpToRel(<, Nat) = Less
  BY DEF OpToRel, Less
<1>2. IsWellFoundedOn(Less, Nat)
  BY <1>1, NatLessThanWellFounded
<1>3. PICK x \in T : \A y \in T : <<y, x>> \notin Less
  BY <1>2, WFMin
<1>4. \A m, n \in Nat : m < n => <<m, n>> \in Less
  BY Zenon DEF Less
<1>5. ASSUME NEW y \in T
      PROVE  x <= y
  <2>1. x \in Nat /\ y \in Nat
    OBVIOUS
  <2>2. ~(y < x)
    BY <1>3, <1>4, <2>1, Zenon
  <2> QED
    BY <2>1, <2>2
<1> QED
  BY <1>5

(* There is a first one among the most urgent events.                        *)
LEMMA ForemostExists ==
  ASSUME Drained \in Seq(Events), Drained # <<>>
  PROVE  Foremost \in DOMAIN Drained
<1> DEFINE p(i) == priority(Drained[i])
           class(n) == {i \in DOMAIN Drained : p(i) = n}
<1>1. DOMAIN Drained \subseteq Nat /\ 1 \in DOMAIN Drained
  BY EmptySeq
<1>2. \A i \in DOMAIN Drained : p(i) \in {0, 10, 20}
  BY DEF priority
<1>3. \E n \in {0, 10, 20} :
        class(n) # {} /\ \A i \in DOMAIN Drained : p(i) <= n
  <2>1. CASE class(20) # {}
    BY <1>2, <2>1
  <2>2. CASE class(20) = {} /\ class(10) # {}
    BY <1>2, <2>2
  <2>3. CASE class(20) = {} /\ class(10) = {}
    BY <1>1, <1>2, <2>3
  <2> QED
    BY <2>1, <2>2, <2>3
<1>4. PICK n \in {0, 10, 20} :
        class(n) # {} /\ \A i \in DOMAIN Drained : p(i) <= n
  BY <1>3
<1>5. class(n) \in SUBSET Nat
  BY <1>1
<1>6. PICK x \in class(n) : \A y \in class(n) : x <= y
  BY <1>4, <1>5, LeastNumber
<1>7. \A j \in DOMAIN Drained : Precedes(x, j)
  BY <1>2, <1>4, <1>6 DEF Precedes
<1>8. x \in DOMAIN Drained
  BY <1>6
<1> QED
  BY <1>7, <1>8 DEF Foremost

LEMMA RemoveAtProperties ==
  ASSUME NEW S, NEW q \in Seq(S), NEW k \in DOMAIN q
  PROVE  /\ RemoveAt(q, k) \in Seq(S)
         /\ Len(RemoveAt(q, k)) = Len(q) - 1
         /\ \A i \in 1 .. Len(q) - 1 :
              RemoveAt(q, k)[i] = q[IF i < k THEN i ELSE i + 1]
<1> DEFINE before == SubSeq(q, 1, k - 1)
           after == SubSeq(q, k + 1, Len(q))
<1>1. k \in 1 .. Len(q) /\ Len(q) \in Nat /\ \A i \in 1 .. Len(q) : q[i] \in S
  OBVIOUS
<1>2. /\ before \in Seq(S) /\ Len(before) = k - 1
      /\ \A i \in 1 .. k - 1 : before[i] = q[i]
  <2>1. \A i \in 1 .. k - 1 : q[i] \in S
    BY <1>1
  <2> QED
    BY <1>1, <2>1, SubSeqProperties
<1>3. /\ after \in Seq(S) /\ Len(after) = Len(q) - k
      /\ \A i \in 1 .. Len(q) - k : after[i] = q[k + i]
  <2>1. \A i \in k + 1 .. Len(q) : q[i] \in S
    BY <1>1
  <2>2. \A i \in 1 .. Len(q) - (k + 1) + 1 : after[i] = q[(k + 1) + i - 1]
    BY <1>1, <2>1, SubSeqProperties
  <2>3. after \in Seq(S) /\ Len(after) = Len(q) - k
    BY <1>1, <2>1, SubSeqProperties
  <2>4. ASSUME NEW i \in 1 .. Len(q) - k
        PROVE  after[i] = q[k + i]
    <3>1. i \in 1 .. Len(q) - (k + 1) + 1 /\ (k + 1) + i - 1 = k + i
      BY <1>1
    <3> HIDE DEF after
    <3> QED
      BY <2>2, <3>1
  <2> HIDE DEF after
  <2> QED
    BY <2>3, <2>4
<1>4. RemoveAt(q, k) = before \o after
  BY DEF RemoveAt
<1> HIDE DEF before, after
<1>5. /\ before \o after \in Seq(S)
      /\ Len(before \o after) = (k - 1) + (Len(q) - k)
      /\ \A i \in 1 .. (k - 1) + (Len(q) - k) : (before \o after)[i] =
           IF i <= k - 1 THEN before[i] ELSE after[i - (k - 1)]
  <2>1. /\ before \o after \in Seq(S)
        /\ Len(before \o after) = Len(before) + Len(after)
        /\ \A i \in 1 .. Len(before) + Len(after) : (before \o after)[i] =
             IF i <= Len(before) THEN before[i] ELSE after[i - Len(before)]
    BY <1>2, <1>3, ConcatProperties
  <2> QED
    BY <1>2, <1>3, <2>1
<1>6. ASSUME NEW i \in 1 .. Len(q) - 1
      PROVE  (before \o after)[i] = q[IF i < k THEN i ELSE i + 1]
  <2> DEFINE rest == before \o after
  <2>1. i \in 1 .. (k - 1) + (Len(q) - k)
    BY <1>1
  <2>2. rest[i] = IF i <= k - 1 THEN before[i] ELSE after[i - (k - 1)]
    BY <1>5, <2>1
  <2> HIDE DEF rest
  <2>3. CASE i < k
    <3>1. i \in 1 .. k - 1 /\ i <= k - 1
      BY <1>1, <2>3
    <3> QED
      BY <1>2, <2>3, <2>2, <3>1 DEF rest
  <2>4. CASE ~(i < k)
    <3>1. i - (k - 1) \in 1 .. Len(q) - k /\ k + (i - (k - 1)) = i + 1
      BY <1>1, <2>4
    <3>2. ~(i <= k - 1)
      BY <1>1, <2>4
    <3> QED
      BY <1>3, <2>4, <2>2, <3>1, <3>2 DEF rest
  <2> QED
    BY <2>3, <2>4
<1> DEFINE rest == before \o after
<1>7. RemoveAt(q, k) = rest
  BY <1>4
<1>8. (k - 1) + (Len(q) - k) = Len(q) - 1
  BY <1>1
<1>9. rest \in Seq(S) /\ Len(rest) = Len(q) - 1
  BY <1>5, <1>8
<1>10. \A i \in 1 .. Len(q) - 1 : rest[i] = q[IF i < k THEN i ELSE i + 1]
  BY <1>6
<1> HIDE DEF rest
<1> QED
  BY <1>7, <1>9, <1>10

(* Taking an event out of the buffer or a new drain takes one place out of   *)
(* the queue and leaves the others in their order.                           *)
LEMMA RecvTakesOne ==
  ASSUME TypeOK, recv_with_priority
  PROVE  /\ buffer' \in Seq(Events) /\ channel' \in Seq(Events)
         /\ \E k \in DOMAIN Queue :
              /\ Event = Queue[k]
              /\ Len(Queue') = Len(Queue) - 1
              /\ \A i \in 1 .. Len(Queue) - 1 :
                   Queue'[i] = Queue[IF i < k THEN i ELSE i + 1]
<1> DEFINE k == Foremost
<1>1. /\ channel \in Seq(Events) /\ buffer \in Seq(Events)
      /\ Drained \in Seq(Events) /\ Drained # <<>>
  BY DEF TypeOK, recv_with_priority, Drained
<1>2. k \in DOMAIN Drained
  BY <1>1, ForemostExists
<1>3. /\ buffer' \in Seq(Events)
      /\ Len(buffer') = Len(Drained) - 1
      /\ \A i \in 1 .. Len(Drained) - 1 :
           buffer'[i] = Drained[IF i < k THEN i ELSE i + 1]
  BY <1>1, <1>2, RemoveAtProperties DEF recv_with_priority
<1>4. channel' \in Seq(Events)
  BY <1>1 DEF recv_with_priority
<1>5. /\ Len(Queue) = Len(buffer) + Len(channel)
      /\ Len(Queue') = Len(buffer') + Len(channel')
      /\ \A i \in 1 .. Len(buffer) + Len(channel) : Queue[i] =
           IF i <= Len(buffer) THEN buffer[i] ELSE channel[i - Len(buffer)]
      /\ \A i \in 1 .. Len(buffer') + Len(channel') : Queue'[i] =
           IF i <= Len(buffer') THEN buffer'[i] ELSE channel'[i - Len(buffer')]
  BY <1>1, <1>3, <1>4, ConcatProperties DEF Queue
<1>6. Queue \in Seq(Events)
  BY <1>1, ConcatProperties DEF Queue
<1> HIDE DEF k
<1>7. \/ Drained = buffer
      \/ buffer = <<>> /\ Drained = channel /\ channel' = <<>>
  <2>1. channel' = IF buffer = <<>> THEN <<>> ELSE channel
    BY DEF recv_with_priority
  <2> QED
    BY <2>1 DEF Drained
<1>8. Drained = buffer => channel' = channel \/ buffer = <<>>
  BY DEF recv_with_priority
<1>9. Drained = buffer => buffer # <<>>
  BY <1>1
<1>10. k \in DOMAIN Queue /\ Queue[k] = Drained[k]
  <2>1. /\ DOMAIN Queue = 1 .. Len(buffer) + Len(channel)
        /\ Len(buffer) \in Nat /\ Len(channel) \in Nat
    BY <1>1, <1>5, <1>6
  <2>2. CASE Drained = buffer
    <3>1. k \in 1 .. Len(buffer)
      BY <1>1, <1>2, <2>2
    <3> QED
      BY <1>5, <2>1, <2>2, <3>1
  <2>3. CASE buffer = <<>> /\ Drained = channel
    <3>1. k \in 1 .. Len(channel) /\ Len(buffer) = 0
      BY <1>1, <1>2, <2>3
    <3>2. k \in 1 .. Len(buffer) + Len(channel)
      BY <2>1, <3>1
    <3>3. Queue[k] = channel[k - 0]
      BY <1>5, <2>1, <3>1, <3>2
    <3> QED
      BY <2>1, <2>3, <3>1, <3>2, <3>3
  <2> QED
    BY <1>7, <2>2, <2>3
<1>11. Len(Queue') = Len(Queue) - 1
  <2>1. CASE Drained = buffer
    <3>1. channel' = channel
      BY <1>8, <1>9, <2>1
    <3> QED
      BY <1>1, <1>3, <1>5, <2>1, <3>1
  <2>2. CASE buffer = <<>> /\ Drained = channel /\ channel' = <<>>
    <3>1. Len(buffer) = 0 /\ Len(channel') = 0 /\ Len(channel) \in Nat
      BY <1>1, <2>2
    <3> QED
      BY <1>3, <1>5, <2>2, <3>1
  <2> QED
    BY <1>7, <2>1, <2>2
<1>12. ASSUME NEW i \in 1 .. Len(Queue) - 1
       PROVE  Queue'[i] = Queue[IF i < k THEN i ELSE i + 1]
  <2>1. CASE Drained = buffer
    <3>1. /\ channel' = channel /\ i \in 1 .. Len(buffer') + Len(channel')
          /\ Len(buffer) \in Nat /\ Len(channel) \in Nat
          /\ Len(buffer') = Len(buffer) - 1 /\ k \in 1 .. Len(buffer)
          /\ i + 1 \in 1 .. Len(buffer) + Len(channel)
      BY <1>1, <1>2, <1>3, <1>5, <1>8, <1>9, <1>11, <2>1
    <3>2. CASE i <= Len(buffer')
      BY <1>3, <1>5, <2>1, <3>1, <3>2
    <3>3. CASE ~(i <= Len(buffer'))
      <4>1. /\ ~(i < k) /\ ~(i + 1 <= Len(buffer))
            /\ i - Len(buffer') = (i + 1) - Len(buffer)
        BY <3>1, <3>3
      <4>2. Queue'[i] = channel[(i + 1) - Len(buffer)]
        BY <1>5, <3>1, <3>3, <4>1
      <4>3. Queue[i + 1] = channel[(i + 1) - Len(buffer)]
        BY <1>5, <3>1, <4>1
      <4> QED
        BY <4>1, <4>2, <4>3
    <3> QED
      BY <3>2, <3>3
  <2>2. CASE buffer = <<>> /\ Drained = channel /\ channel' = <<>>
    <3>1. /\ Len(buffer) = 0 /\ Len(channel') = 0 /\ Len(channel) \in Nat
          /\ Len(buffer') = Len(channel) - 1 /\ k \in 1 .. Len(channel)
          /\ i \in 1 .. Len(channel) - 1
      BY <1>1, <1>2, <1>3, <1>5, <2>2
    <3>2. Queue'[i] = channel[IF i < k THEN i ELSE i + 1]
      BY <1>3, <1>5, <2>2, <3>1
    <3>3. \A j \in 1 .. Len(channel) : Queue[j] = channel[j]
      BY <1>5, <3>1
    <3> QED
      BY <3>1, <3>2, <3>3
  <2> QED
    BY <1>7, <2>1, <2>2
<1>13. Event = Queue[k]
  BY <1>10 DEF Event, k
<1> QED
  BY <1>3, <1>4, <1>10, <1>11, <1>12, <1>13

LEMMA QueueProperties ==
  ASSUME NEW S, buffer \in Seq(S), channel \in Seq(S)
  PROVE  /\ Queue \in Seq(S)
         /\ Len(Queue) = Len(buffer) + Len(channel)
         /\ Len(buffer) \in Nat /\ Len(channel) \in Nat
         /\ \A i \in 1 .. Len(buffer) : Queue[i] = buffer[i]
         /\ \A i \in 1 .. Len(channel) : Queue[Len(buffer) + i] = channel[i]
<1>1. /\ Queue \in Seq(S)
      /\ Len(Queue) = Len(buffer) + Len(channel)
      /\ \A i \in 1 .. Len(buffer) + Len(channel) : Queue[i] =
           IF i <= Len(buffer) THEN buffer[i] ELSE channel[i - Len(buffer)]
  BY ConcatProperties DEF Queue
<1>2. Len(buffer) \in Nat /\ Len(channel) \in Nat
  OBVIOUS
<1>3. ASSUME NEW i \in 1 .. Len(channel)
      PROVE  Queue[Len(buffer) + i] = channel[i]
  <2>1. /\ Len(buffer) + i \in 1 .. Len(buffer) + Len(channel)
        /\ ~(Len(buffer) + i <= Len(buffer))
        /\ (Len(buffer) + i) - Len(buffer) = i
    BY <1>2
  <2> QED
    BY <1>1, <2>1
<1>4. \A i \in 1 .. Len(buffer) : Queue[i] = buffer[i]
  BY <1>1, <1>2
<1> QED
  BY <1>1, <1>2, <1>3, <1>4

Holds(q, event) == \E i \in DOMAIN q : q[i] = event

LEMMA InConcat ==
  ASSUME NEW S, NEW a \in Seq(S), NEW b \in Seq(S)
  PROVE  \A event : Holds(a \o b, event) <=> Holds(a, event) \/ Holds(b, event)
<1> DEFINE ab == a \o b
<1>1. /\ ab \in Seq(S) /\ Len(ab) = Len(a) + Len(b)
      /\ \A i \in 1 .. Len(a) + Len(b) :
           ab[i] = IF i <= Len(a) THEN a[i] ELSE b[i - Len(a)]
  BY ConcatProperties
<1> HIDE DEF ab
<1>2. /\ DOMAIN ab = 1 .. Len(a) + Len(b)
      /\ DOMAIN a = 1 .. Len(a) /\ DOMAIN b = 1 .. Len(b)
      /\ Len(a) \in Nat /\ Len(b) \in Nat
  BY <1>1
<1>3. ASSUME NEW i \in DOMAIN b
      PROVE  Len(a) + i \in DOMAIN ab /\ ab[Len(a) + i] = b[i]
  <2>1. /\ Len(a) + i \in 1 .. Len(a) + Len(b) /\ ~(Len(a) + i <= Len(a))
        /\ (Len(a) + i) - Len(a) = i
    BY <1>2
  <2> QED
    BY <1>1, <1>2, <2>1
<1>4. ASSUME NEW i \in DOMAIN a
      PROVE  i \in DOMAIN ab /\ ab[i] = a[i]
  BY <1>1, <1>2
<1>5. ASSUME NEW i \in DOMAIN ab
      PROVE  \/ \E j \in DOMAIN a : ab[i] = a[j]
             \/ \E j \in DOMAIN b : ab[i] = b[j]
  <2>1. CASE i <= Len(a)
    BY <1>1, <1>2, <2>1
  <2>2. CASE ~(i <= Len(a))
    <3>1. i - Len(a) \in DOMAIN b
      BY <1>2, <2>2
    <3>2. ab[i] = b[i - Len(a)]
      BY <1>1, <1>2, <2>2
    <3> QED
      BY <3>1, <3>2
  <2> QED
    BY <2>1, <2>2
<1>6. \A event : Holds(ab, event) <=> Holds(a, event) \/ Holds(b, event)
  BY <1>3, <1>4, <1>5 DEF Holds
<1> QED
  BY <1>6 DEF ab

(* What is sent goes to the end of the queue.                                *)
LEMMA SubmitQueues ==
  ASSUME NEW S, buffer \in Seq(S), channel \in Seq(S), NEW event \in S,
         Submit(event), UNCHANGED buffer
  PROVE  /\ channel' \in Seq(S)
         /\ Queue \in Seq(S) /\ Queue' \in Seq(S)
         /\ Len(Queue') = Len(Queue) + 1
         /\ \A i \in DOMAIN Queue : Queue'[i] = Queue[i]
         /\ Queue'[Len(Queue) + 1] = event
<1>1. /\ channel' \in Seq(S) /\ Len(channel') = Len(channel) + 1
      /\ \A i \in 1 .. Len(channel) : channel'[i] = channel[i]
      /\ channel'[Len(channel) + 1] = event
  BY DEF Submit
<1>2. buffer' \in Seq(S) /\ buffer' = buffer
  OBVIOUS
<1>3. /\ Queue \in Seq(S)
      /\ Len(Queue) = Len(buffer) + Len(channel)
      /\ \A i \in 1 .. Len(buffer) : Queue[i] = buffer[i]
      /\ \A i \in 1 .. Len(channel) : Queue[Len(buffer) + i] = channel[i]
  BY QueueProperties
<1>4. buffer' \o channel' \in Seq(S) /\ Len(buffer' \o channel') = Len(buffer') + Len(channel')
  BY <1>1, <1>2, ConcatProperties
<1>5. \A i \in 1 .. Len(buffer') + Len(channel') : Queue'[i] =
           IF i <= Len(buffer') THEN buffer'[i] ELSE channel'[i - Len(buffer')]
  BY <1>1, <1>2, ConcatProperties DEF Queue
<1>6. Len(buffer) \in Nat /\ Len(channel) \in Nat
  OBVIOUS
<1>7. Queue' \in Seq(S) /\ Len(Queue') = Len(Queue) + 1
  BY <1>1, <1>2, <1>3, <1>4, <1>6 DEF Queue
<1>8. ASSUME NEW i \in 1 .. Len(buffer) + Len(channel)
      PROVE  Queue'[i] = Queue[i]
  <2>1. CASE i <= Len(buffer)
    BY <1>1, <1>2, <1>3, <1>5, <1>6, <2>1
  <2>2. CASE ~(i <= Len(buffer))
    <3>1. /\ i - Len(buffer) \in 1 .. Len(channel)
          /\ Len(buffer) + (i - Len(buffer)) = i
      BY <1>6, <2>2
    <3>2. Queue'[i] = channel'[i - Len(buffer)]
      BY <1>1, <1>2, <1>5, <1>6, <2>2
    <3> QED
      BY <1>1, <1>3, <3>1, <3>2
  <2> QED
    BY <2>1, <2>2
<1>9. Queue'[Len(Queue) + 1] = event
  <2>1. /\ Len(Queue) + 1 \in 1 .. Len(buffer') + Len(channel')
        /\ ~(Len(Queue) + 1 <= Len(buffer'))
        /\ Len(Queue) + 1 - Len(buffer') = Len(channel) + 1
    BY <1>1, <1>2, <1>3, <1>6
  <2> QED
    BY <1>1, <1>5, <2>1
<1>10. \A i \in DOMAIN Queue : Queue'[i] = Queue[i]
  BY <1>3, <1>8
<1> QED
  BY <1>1, <1>3, <1>7, <1>9, <1>10

-----------------------------------------------------------------------------
(* About conversations.                                                      *)

Message(T) == [role : {"user", "assistant", "results"}, ids : SUBSET T]

Appended(n, m, x) ==
  /\ Len(n) = Len(m) + 1
  /\ \A i \in DOMAIN m : i \in DOMAIN n /\ n[i] = m[i]
  /\ DOMAIN n = DOMAIN m \cup {Len(m) + 1}
  /\ n[Len(m) + 1] = x
  /\ \A i, t : Uses(n, i, t) <=>
       \/ Uses(m, i, t)
       \/ i = Len(m) + 1 /\ x.role = "assistant" /\ t \in x.ids
  /\ \A i, t : Answers(n, i, t) <=>
       \/ Answers(m, i, t)
       \/ i = Len(m) + 1 /\ x.role = "results" /\ t \in x.ids
  /\ \A role : Positions(n, role) =
       IF x.role = role THEN Positions(m, role) \cup {Len(m) + 1}
                        ELSE Positions(m, role)

LEMMA AppendedMessage ==
  ASSUME NEW T, NEW m \in Seq(Message(T)), NEW x \in Message(T)
  PROVE  Append(m, x) \in Seq(Message(T)) /\ Appended(Append(m, x), m, x)
<1> DEFINE n == Append(m, x)
<1>1. /\ n \in Seq(Message(T)) /\ Len(n) = Len(m) + 1
      /\ \A i \in DOMAIN m : i \in DOMAIN n /\ n[i] = m[i]
      /\ DOMAIN n = DOMAIN m \cup {Len(m) + 1}
      /\ n[Len(m) + 1] = x
      /\ Len(m) + 1 \notin DOMAIN m
  OBVIOUS
<1> HIDE DEF n
<1>2. ASSUME NEW role
      PROVE  Positions(n, role) =
              IF x.role = role THEN Positions(m, role) \cup {Len(m) + 1}
                               ELSE Positions(m, role)
  BY <1>1 DEF Positions
<1>3. /\ \A i, t : Uses(n, i, t) <=>
           \/ Uses(m, i, t)
           \/ i = Len(m) + 1 /\ x.role = "assistant" /\ t \in x.ids
      /\ \A i, t : Answers(n, i, t) <=>
           \/ Answers(m, i, t)
           \/ i = Len(m) + 1 /\ x.role = "results" /\ t \in x.ids
  BY <1>1 DEF Uses, Answers
<1>4. n \in Seq(Message(T)) /\ Appended(n, m, x)
  BY <1>1, <1>2, <1>3 DEF Appended
<1> QED
  BY <1>4 DEF n

(* Where add_tool_result puts a result.                                      *)
Place(m) == IF Len(m) > 0 /\ m[Len(m)].role = "results"
              THEN Len(m) ELSE Len(m) + 1

Added(n, m, t) ==
  /\ Place(m) \in Nat /\ Len(n) = Place(m)
  /\ \A i \in DOMAIN m : i \in DOMAIN n /\ n[i].role = m[i].role
  /\ DOMAIN n = DOMAIN m \cup {Place(m)}
  /\ n[Place(m)].role = "results"
  /\ \A i, u : Uses(n, i, u) <=> Uses(m, i, u)
  /\ \A i, u : Answers(n, i, u) <=> Answers(m, i, u) \/ (i = Place(m) /\ u = t)
  /\ \A role \in {"user", "assistant"} : Positions(n, role) = Positions(m, role)

LEMMA AddedResult ==
  ASSUME NEW T, NEW m \in Seq(Message(T)), NEW t \in T
  PROVE  /\ add_tool_result(m, t) \in Seq(Message(T))
         /\ Added(add_tool_result(m, t), m, t)
<1> DEFINE n == add_tool_result(m, t)
<1> HIDE DEF n
<1> DEFINE IsAdded ==
         /\ n \in Seq(Message(T))
         /\ Place(m) \in Nat /\ Len(n) = Place(m)
         /\ \A i \in DOMAIN m : i \in DOMAIN n /\ n[i].role = m[i].role
         /\ \A i \in DOMAIN m : i # Place(m) => n[i] = m[i]
         /\ DOMAIN n = DOMAIN m \cup {Place(m)}
         /\ n[Place(m)].role = "results"
         /\ n[Place(m)].ids =
              (IF Place(m) \in DOMAIN m THEN m[Place(m)].ids ELSE {}) \cup {t}
<1>1. Len(m) \in Nat /\ DOMAIN m = 1 .. Len(m)
  OBVIOUS
<1>2. ASSUME Len(m) > 0 /\ m[Len(m)].role = "results"
      PROVE  IsAdded
  <2> DEFINE x == [m[Len(m)] EXCEPT !.ids = @ \cup {t}]
  <2>1. Place(m) = Len(m) /\ Len(m) \in 1 .. Len(m)
    BY <1>1, <1>2 DEF Place
  <2>2. m[Len(m)] \in Message(T)
    BY <2>1
  <2>3. /\ x \in Message(T) /\ x.role = "results"
        /\ x.ids = m[Len(m)].ids \cup {t}
    BY <1>2, <2>2 DEF Message
  <2>4. n = [m EXCEPT ![Len(m)] = x]
    BY <1>2, <2>2 DEF add_tool_result, Message, n
  <2> HIDE DEF x
  <2>5. /\ n \in Seq(Message(T)) /\ Len(n) = Len(m)
        /\ \A j \in 1 .. Len(m) : n[j] = IF j = Len(m) THEN x ELSE m[j]
    BY <2>1, <2>3, <2>4, ExceptSeq
  <2>6. DOMAIN n = DOMAIN m
    BY <1>1, <2>4
  <2>7. \A i \in DOMAIN m : i \in DOMAIN n /\ n[i].role = m[i].role
    <3> SUFFICES ASSUME NEW i \in DOMAIN m
                 PROVE  i \in DOMAIN n /\ n[i].role = m[i].role
      OBVIOUS
    <3>1. i \in 1 .. Len(m)
      BY <1>1
    <3>2. n[i] = IF i = Len(m) THEN x ELSE m[i]
      BY <2>5, <3>1
    <3> QED
      BY <1>1, <1>2, <2>3, <2>6, <3>2
  <2> QED
    BY <1>1, <2>1, <2>3, <2>5, <2>6, <2>7
<1>3. ASSUME ~(Len(m) > 0 /\ m[Len(m)].role = "results")
      PROVE  IsAdded
  <2> DEFINE x == [role |-> "results", ids |-> {t}]
  <2>1. Place(m) = Len(m) + 1 /\ Place(m) \notin DOMAIN m
    BY <1>1, <1>3 DEF Place
  <2>2. n = Append(m, x) /\ x \in Message(T)
    BY <1>3 DEF add_tool_result, Message, n
  <2>3. x.role = "results" /\ x.ids = {t}
    OBVIOUS
  <2> HIDE DEF x
  <2>4. /\ n \in Seq(Message(T)) /\ Len(n) = Len(m) + 1
        /\ \A i \in DOMAIN m : i \in DOMAIN n /\ n[i] = m[i]
        /\ DOMAIN n = DOMAIN m \cup {Len(m) + 1}
        /\ n[Len(m) + 1] = x
    BY <2>2
  <2> QED
    BY <1>1, <2>1, <2>3, <2>4
<1>4. IsAdded
  BY <1>2, <1>3
<1>5. \A i, u : Uses(n, i, u) <=> Uses(m, i, u)
  BY <1>4 DEF Uses
<1>6. \A i, u : Answers(n, i, u) <=> Answers(m, i, u) \/ (i = Place(m) /\ u = t)
  <2> SUFFICES ASSUME NEW i, NEW u
               PROVE  Answers(n, i, u) <=> Answers(m, i, u) \/ (i = Place(m) /\ u = t)
    OBVIOUS
  <2>1. CASE i = Place(m)
    BY <1>4, <2>1 DEF Answers
  <2>2. CASE i # Place(m)
    BY <1>4, <2>2 DEF Answers
  <2> QED
    BY <2>1, <2>2
<1>7. ASSUME NEW role \in {"user", "assistant"}
      PROVE  Positions(n, role) = Positions(m, role)
  BY <1>4 DEF Positions
<1>8. n \in Seq(Message(T)) /\ Added(n, m, t)
  BY <1>4, <1>5, <1>6, <1>7 DEF Added
<1> QED
  BY <1>8 DEF n

-----------------------------------------------------------------------------
(* Types.                                                                    *)

Call == [session : Session, status : {"running", "over", "failed"},
         cancelled : BOOLEAN, context : Conversation]
Tool == [session : Session, status : {"running", "over"}]

LEMMA EventShape ==
  ASSUME NEW e \in Events
  PROVE  /\ e.kind \in {"HumanMessage", "CascadeDelta"} => e.session \in Session
         /\ e.kind = "LlmComplete" =>
              /\ e.call \in DOMAIN calls /\ e.reply \in Replies
              /\ e = [kind |-> "LlmComplete", call |-> e.call, reply |-> e.reply]
         /\ e.kind = "ToolResult" =>
              e.tool \in DOMAIN tools /\ e = [kind |-> "ToolResult", tool |-> e.tool]
<1>1. CASE e \in [kind : {"HumanMessage", "CascadeDelta"}, session : Session]
  BY <1>1
<1>2. CASE e \in [kind : {"Injection", "Wake", "Sleep", "Shutdown"}]
  BY <1>2
<1>3. CASE e \in [kind : {"LlmComplete"}, call : DOMAIN calls, reply : Replies]
  BY <1>3
<1>4. CASE e \in [kind : {"ToolResult"}, tool : DOMAIN tools]
  BY <1>4
<1> QED
  BY <1>1, <1>2, <1>3, <1>4 DEF Events

(* Calls and tools are only ever added, so what names them goes on to do so. *)
LEMMA TypesGrow ==
  ASSUME DOMAIN calls \subseteq DOMAIN calls', DOMAIN tools \subseteq DOMAIN tools'
  PROVE  /\ Events \subseteq Events'
         /\ \A q \in Seq(Events) : q \in Seq(Events')
         /\ Message(DOMAIN tools) \subseteq Message(DOMAIN tools')
         /\ \A m \in Conversation : m \in Conversation'
         /\ Call \subseteq Call'
<1>1. Events \subseteq Events'
  BY DEF Events
<1>2. Message(DOMAIN tools) \subseteq Message(DOMAIN tools')
  BY DEF Message
<1>3. \A m \in Seq(Message(DOMAIN tools)) : m \in Seq(Message(DOMAIN tools'))
  BY <1>2, SeqMonotonic
<1>4. \A m \in Conversation : m \in Conversation'
  BY <1>3 DEF Conversation, Message
<1>5. Call \subseteq Call'
  BY <1>4 DEF Call
<1> QED
  BY <1>1, <1>2, <1>4, <1>5, SeqMonotonic

LEMMA CancelledCalls ==
  ASSUME NEW S, S = Call, calls \in Seq(S), current = 0 \/ current \in DOMAIN calls
  PROVE  /\ Cancelled \in Seq(S) /\ Len(Cancelled) = Len(calls)
         /\ DOMAIN Cancelled = DOMAIN calls
         /\ \A c \in DOMAIN calls : Cancelled[c] =
              IF c = current THEN [calls[c] EXCEPT !.cancelled = TRUE] ELSE calls[c]
         /\ \A c \in DOMAIN calls :
              /\ Cancelled[c].status = calls[c].status
              /\ Cancelled[c].session = calls[c].session
              /\ Cancelled[c].context = calls[c].context
         /\ current \in DOMAIN calls => Cancelled[current].cancelled = TRUE
<1>1. CASE current = 0
  <2>1. \A c \in DOMAIN calls : c # current
    BY <1>1
  <2> QED
    BY <1>1, <2>1 DEF Cancelled
<1>2. CASE current # 0
  <2> DEFINE x == [calls[current] EXCEPT !.cancelled = TRUE]
  <2>1. current \in 1 .. Len(calls) /\ calls[current] \in Call
    BY <1>2
  <2>2. /\ x \in Call /\ x.cancelled = TRUE
        /\ x.status = calls[current].status /\ x.session = calls[current].session
        /\ x.context = calls[current].context
    BY <2>1 DEF Call
  <2>3. Cancelled = [calls EXCEPT ![current] = x]
    BY <1>2, <2>1 DEF Cancelled, Call
  <2> HIDE DEF x
  <2>4. /\ Cancelled \in Seq(S) /\ Len(Cancelled) = Len(calls)
        /\ \A c \in 1 .. Len(calls) :
             Cancelled[c] = IF c = current THEN x ELSE calls[c]
    BY <2>1, <2>2, <2>3, ExceptSeq
  <2>5. DOMAIN Cancelled = DOMAIN calls /\ DOMAIN calls = 1 .. Len(calls)
    BY <2>4
  <2>6. \A c \in DOMAIN calls : Cancelled[c] =
          IF c = current THEN [calls[c] EXCEPT !.cancelled = TRUE] ELSE calls[c]
    BY <2>4, <2>5 DEF x
  <2>7. \A c \in DOMAIN calls :
              /\ Cancelled[c].status = calls[c].status
              /\ Cancelled[c].session = calls[c].session
              /\ Cancelled[c].context = calls[c].context
    BY <2>2, <2>4, <2>5
  <2> QED
    BY <2>1, <2>2, <2>4, <2>5, <2>6, <2>7
<1> QED
  BY <1>1, <1>2

Types ==
  /\ channel \in Seq(Events) /\ buffer \in Seq(Events)
  /\ active \subseteq DOMAIN tools
  /\ current = 0 \/ current \in DOMAIN calls
  /\ current_session \in Session \cup {"none"}
  /\ tool_iterations \in Nat
  /\ messages \in [Session -> Seq(Message(DOMAIN tools))]
  /\ running \in BOOLEAN
  /\ calls \in Seq(Call)
  /\ tools \in Seq(Tool)
  /\ turn \in [Session -> {"none", "waiting", "error", "done"}]
  /\ sent \in 0 .. MaxMessages
  /\ notices \in 0 .. MaxNotices

LEMMA TypesOf == TypeOK <=> Types
BY DEF Types, Message, Conversation, TypeOK, Call, Tool

LEMMA TypesOfNext == TypeOK' <=> Types'
BY DEF Types, Message, Conversation, TypeOK, Call, Tool

LEMMA ConversationIsSeq == Conversation = Seq(Message(DOMAIN tools))
BY DEF Conversation, Message

LEMMA TypeInit == Init => TypeOK
<1> SUFFICES ASSUME Init PROVE TypeOK
  OBVIOUS
<1>1. \A S : <<>> \in Seq(S)
  OBVIOUS
<1> QED
  BY <1>1, TypesOf DEF Types, Init

LEMMA TypeSend ==
  ASSUME TypeOK, Clients
  PROVE  TypeOK'
<1>1. CASE \E s \in Session, kind \in {"HumanMessage", "CascadeDelta"} :
             SendMessage(s, kind)
  <2>1. PICK s \in Session, kind \in {"HumanMessage", "CascadeDelta"} :
          SendMessage(s, kind)
    BY <1>1
  <2>2. [kind |-> kind, session |-> s] \in Events
    BY DEF Events
  <2>3. channel' \in Seq(Events) /\ buffer' = buffer
    BY <2>1, <2>2 DEF SendMessage, Submit, TypeOK
  <2>4. /\ DOMAIN calls = DOMAIN calls' /\ DOMAIN tools = DOMAIN tools'
        /\ sent' \in 0 .. MaxMessages
    BY <2>1 DEF SendMessage, TypeOK, tasks
  <2> QED
    BY <2>1, <2>3, <2>4, TypesGrow DEF SendMessage, TypeOK, tasks, loop, Conversation
<1>2. CASE \E kind \in {"Injection", "Wake", "Sleep", "Shutdown"} : SendNotice(kind)
  <2>1. PICK kind \in {"Injection", "Wake", "Sleep", "Shutdown"} : SendNotice(kind)
    BY <1>2
  <2>2. [kind |-> kind] \in Events
    BY DEF Events
  <2>3. channel' \in Seq(Events) /\ buffer' = buffer
    BY <2>1, <2>2 DEF SendNotice, Submit, TypeOK
  <2>4. /\ DOMAIN calls = DOMAIN calls' /\ DOMAIN tools = DOMAIN tools'
        /\ notices' \in 0 .. MaxNotices
    BY <2>1 DEF SendNotice, TypeOK, tasks
  <2> QED
    BY <2>1, <2>3, <2>4, TypesGrow DEF SendNotice, TypeOK, tasks, loop, Conversation
<1> QED
  BY <1>1, <1>2 DEF Clients

(* The end of a call only changes its status.                                *)
LEMMA CallEnds ==
  ASSUME TypeOK, NEW c \in DOMAIN calls, NEW status \in {"over", "failed"},
         calls' = [calls EXCEPT ![c].status = status]
  PROVE  /\ calls' \in Seq(Call) /\ Len(calls') = Len(calls)
         /\ DOMAIN calls' = DOMAIN calls
         /\ \A d \in DOMAIN calls : d # c => calls'[d] = calls[d]
         /\ \A d \in DOMAIN calls :
              /\ calls'[d].cancelled = calls[d].cancelled
              /\ calls'[d].session = calls[d].session
              /\ calls'[d].context = calls[d].context
         /\ calls'[c].status = status
<1> DEFINE x == [calls[c] EXCEPT !.status = status]
<1>1. calls \in Seq(Call) /\ c \in 1 .. Len(calls) /\ calls[c] \in Call
  BY TypesOf DEF Types
<1>2. /\ x \in Call /\ x.status = status
      /\ x.cancelled = calls[c].cancelled /\ x.session = calls[c].session
      /\ x.context = calls[c].context
  BY <1>1 DEF Call
<1>3. calls' = [calls EXCEPT ![c] = x]
  BY <1>1 DEF Call
<1> HIDE DEF x
<1>4. /\ calls' \in Seq(Call) /\ Len(calls') = Len(calls)
      /\ \A d \in 1 .. Len(calls) : calls'[d] = IF d = c THEN x ELSE calls[d]
  <2> DEFINE ended == [calls EXCEPT ![c] = x]
  <2>1. /\ ended \in Seq(Call) /\ Len(ended) = Len(calls)
        /\ \A d \in 1 .. Len(calls) : ended[d] = IF d = c THEN x ELSE calls[d]
    BY ONLY <1>1, <1>2, ExceptSeq
  <2> HIDE DEF ended
  <2> QED
    BY <1>3, <2>1 DEF ended
<1>5. DOMAIN calls' = DOMAIN calls /\ DOMAIN calls = 1 .. Len(calls)
  BY <1>1, <1>4
<1> QED
  BY <1>1, <1>2, <1>4, <1>5

LEMMA TypeCall ==
  ASSUME TypeOK, NEW c \in DOMAIN calls, EndOfCall(c) \/ StreamError(c)
  PROVE  TypeOK'
<1>1. calls[c].session \in Session
  <2>1. calls[c] \in Call
    BY TypesOf DEF Types
  <2> QED
    BY <2>1 DEF Call
<1>2. CASE StreamError(c)
  <2>1. turn' \in [Session -> {"none", "waiting", "error", "done"}]
    BY <1>1, <1>2 DEF StreamError, TypeOK
  <2>2. UNCHANGED <<channel, buffer, loop, tasks, running, sent, notices>>
    BY <1>2 DEF StreamError
  <2> QED
    BY <2>1, <2>2 DEF TypeOK, tasks, loop, Events, Conversation
<1>3. CASE Fail(c)
  <2>1. turn' \in [Session -> {"none", "waiting", "error", "done"}]
    BY <1>1, <1>3 DEF Fail, TypeOK
  <2>2. calls' = [calls EXCEPT ![c].status = "failed"]
    BY <1>3 DEF Fail
  <2>3. calls' \in Seq(Call) /\ DOMAIN calls' = DOMAIN calls
    BY <2>2, CallEnds
  <2>4. UNCHANGED <<channel, buffer, loop, tools, running, sent, notices>>
    BY <1>3 DEF Fail
  <2>5. calls' \in Seq(Call')
    BY <2>3, <2>4 DEF Call, Conversation
  <2> QED
    BY <2>1, <2>3, <2>4, <2>5, TypesOf, TypesOfNext DEF Types, loop, Events
<1>4. CASE Drop(c)
  <2>2. calls' = [calls EXCEPT ![c].status = "over"]
    BY <1>4 DEF Drop
  <2>3. calls' \in Seq(Call) /\ DOMAIN calls' = DOMAIN calls
    BY <2>2, CallEnds
  <2>4. UNCHANGED <<channel, buffer, loop, tools, running, turn, sent, notices>>
    BY <1>4 DEF Drop
  <2>5. calls' \in Seq(Call')
    BY <2>3, <2>4 DEF Call, Conversation
  <2> QED
    BY <2>3, <2>4, <2>5, TypesOf, TypesOfNext DEF Types, loop, Events
<1>5. ASSUME NEW reply \in Replies, Complete(c, reply)
      PROVE  TypeOK'
  <2>2. calls' = [calls EXCEPT ![c].status = "over"]
    BY <1>5 DEF Complete
  <2>3. calls' \in Seq(Call) /\ DOMAIN calls' = DOMAIN calls
    BY <2>2, CallEnds
  <2>4. UNCHANGED <<buffer, loop, tools, running, turn, sent, notices>>
    BY <1>5 DEF Complete
  <2>5. calls' \in Seq(Call')
    BY <2>3, <2>4 DEF Call, Conversation
  <2>6. [kind |-> "LlmComplete", call |-> c, reply |-> reply] \in Events
    BY DEF Events
  <2>7. channel' \in Seq(Events)
    BY <1>5, <2>6 DEF Complete, Submit, TypeOK
  <2> QED
    BY <2>3, <2>4, <2>5, <2>7, TypesOf, TypesOfNext DEF Types, loop, Events
<1> QED
  BY <1>2, <1>3, <1>4, <1>5 DEF EndOfCall

(* The end of a tool only changes its status.                                *)
LEMMA ToolEnds ==
  ASSUME TypeOK, NEW t \in DOMAIN tools, FinishTool(t)
  PROVE  /\ tools' \in Seq(Tool) /\ Len(tools') = Len(tools)
         /\ DOMAIN tools' = DOMAIN tools
         /\ \A u \in DOMAIN tools : u # t => tools'[u] = tools[u]
         /\ \A u \in DOMAIN tools : tools'[u].session = tools[u].session
         /\ tools[t].status = "running" /\ tools'[t].status = "over"
<1> DEFINE x == [tools[t] EXCEPT !.status = "over"]
<1>1. tools \in Seq(Tool) /\ t \in 1 .. Len(tools) /\ tools[t] \in Tool
  BY TypesOf DEF Types
<1>2. x \in Tool /\ x.status = "over" /\ x.session = tools[t].session
  BY <1>1 DEF Tool
<1>3. tools' = [tools EXCEPT ![t] = x] /\ tools[t].status = "running"
  BY <1>1 DEF Tool, FinishTool
<1> HIDE DEF x
<1>4. /\ tools' \in Seq(Tool) /\ Len(tools') = Len(tools)
      /\ \A d \in 1 .. Len(tools) : tools'[d] = IF d = t THEN x ELSE tools[d]
  BY <1>1, <1>2, <1>3, ExceptSeq
<1>5. DOMAIN tools' = DOMAIN tools /\ DOMAIN tools = 1 .. Len(tools)
  BY <1>1, <1>4
<1> QED
  BY <1>1, <1>2, <1>3, <1>4, <1>5

LEMMA TypeTool ==
  ASSUME TypeOK, NEW t \in DOMAIN tools, FinishTool(t)
  PROVE  TypeOK'
<1>1. tools' \in Seq(Tool) /\ DOMAIN tools' = DOMAIN tools
  BY ToolEnds
<1>2. [kind |-> "ToolResult", tool |-> t] \in Events
  BY DEF Events
<1>3. channel' \in Seq(Events)
  BY <1>2 DEF FinishTool, Submit, TypeOK
<1>4. UNCHANGED <<buffer, loop, calls, running, turn, sent, notices>>
  BY DEF FinishTool
<1>5. calls \in Seq(Call')
  BY <1>1, TypesOf DEF Types, Call, Conversation
<1> QED
  BY <1>1, <1>3, <1>4, <1>5, TypesOf, TypesOfNext DEF Types, loop, Events

LEMMA Received ==
  ASSUME TypeOK, run
  PROVE  /\ Event \in Events
         /\ buffer' \in Seq(Events) /\ channel' \in Seq(Events)
         /\ Queue \in Seq(Events)
<1>1. recv_with_priority /\ Queue \in Seq(Events)
  BY QueueProperties DEF run, TypeOK
<1>2. /\ buffer' \in Seq(Events) /\ channel' \in Seq(Events)
      /\ \E k \in DOMAIN Queue : Event = Queue[k]
  BY <1>1, RecvTakesOne
<1> QED
  BY <1>1, <1>2

LEMMA StartedCall ==
  ASSUME NEW s \in Session, NEW before \in Seq(Call), start_llm_call(s, before),
         messages'[s] \in Conversation
  PROVE  /\ calls' \in Seq(Call) /\ Len(calls') = Len(before) + 1
         /\ current' = Len(before) + 1 /\ current' \in DOMAIN calls'
         /\ DOMAIN calls' = DOMAIN before \cup {current'}
         /\ current' \notin DOMAIN before /\ current' # 0
         /\ \A c \in DOMAIN before : calls'[c] = before[c]
         /\ calls'[current'].session = s
         /\ calls'[current'].status = "running"
         /\ calls'[current'].cancelled = FALSE
         /\ calls'[current'].context = messages'[s]
<1> DEFINE x == [session |-> s, status |-> "running", cancelled |-> FALSE,
                 context |-> messages'[s]]
<1>1. x \in Call
  BY DEF Call
<1>2. /\ x.session = s /\ x.status = "running" /\ x.cancelled = FALSE
      /\ x.context = messages'[s]
  OBVIOUS
<1>3. calls' = Append(before, x) /\ current' = Len(before) + 1
  BY DEF start_llm_call
<1> HIDE DEF x
<1> QED
  BY <1>1, <1>2, <1>3

LEMMA LaunchedTools ==
  ASSUME tools \in Seq(Tool), NEW s \in Session, NEW n \in Nat, launch_tools(s, n)
  PROVE  /\ tools' \in Seq(Tool) /\ Len(tools') = Len(tools) + n
         /\ DOMAIN tools' = DOMAIN tools \cup (Len(tools) + 1 .. Len(tools) + n)
         /\ \A t \in DOMAIN tools : tools'[t] = tools[t]
         /\ \A t \in Len(tools) + 1 .. Len(tools) + n :
              t \notin DOMAIN tools /\ tools'[t].session = s /\ tools'[t].status = "running"
         /\ active' = active \cup (Len(tools) + 1 .. Len(tools) + n)
<1> DEFINE new == [i \in 1 .. n |-> [session |-> s, status |-> "running"]]
<1>1. /\ new \in Seq(Tool) /\ Len(new) = n
      /\ \A i \in 1 .. n : new[i].session = s /\ new[i].status = "running"
  BY DEF Tool
<1>2. tools' = tools \o new
  BY DEF launch_tools
<1>3. active' = active \cup (Len(tools) + 1 .. Len(tools) + n)
  BY DEF launch_tools
<1> HIDE DEF new
<1>4. /\ tools \o new \in Seq(Tool)
      /\ Len(tools \o new) = Len(tools) + Len(new)
      /\ \A i \in 1 .. Len(tools) + Len(new) : (tools \o new)[i] =
           IF i <= Len(tools) THEN tools[i] ELSE new[i - Len(tools)]
  BY <1>1, ConcatProperties
<1>5. Len(tools) \in Nat /\ DOMAIN tools = 1 .. Len(tools)
  OBVIOUS
<1>6. /\ tools' \in Seq(Tool) /\ Len(tools') = Len(tools) + n
      /\ \A i \in 1 .. Len(tools) + n : tools'[i] =
           IF i <= Len(tools) THEN tools[i] ELSE new[i - Len(tools)]
  BY <1>1, <1>2, <1>4
<1>7. DOMAIN tools' = 1 .. Len(tools) + n
  BY <1>6
<1>8. ASSUME NEW t \in Len(tools) + 1 .. Len(tools) + n
      PROVE  /\ t \notin DOMAIN tools
             /\ tools'[t].session = s /\ tools'[t].status = "running"
  <2>1. /\ t - Len(tools) \in 1 .. n /\ ~(t <= Len(tools))
        /\ t \in 1 .. Len(tools) + n /\ t \notin DOMAIN tools
    BY <1>5
  <2>2. tools'[t] = new[t - Len(tools)]
    BY <1>6, <2>1
  <2> QED
    BY <1>1, <2>1, <2>2
<1>9. \A t \in DOMAIN tools : tools'[t] = tools[t]
  BY <1>5, <1>6
<1> QED
  BY <1>3, <1>5, <1>6, <1>7, <1>8, <1>9

(* What handle_human_message does to the calls and the conversations.        *)
HumanDoes(s) ==
  /\ s \in Session
  /\ \A r \in Session : messages'[r] =
       IF r = s THEN Append(messages[r], UserMessage) ELSE messages[r]
  /\ messages' \in [Session -> Conversation]
  /\ active' = {} /\ tools' = tools /\ running' = running
  /\ calls' \in Seq(Call)
  /\ DOMAIN calls \subseteq DOMAIN calls'
  /\ \A c \in DOMAIN calls :
       /\ calls'[c].status = calls[c].status
       /\ calls'[c].session = calls[c].session
       /\ calls'[c].context = calls[c].context
       /\ calls'[c].cancelled = IF c = current THEN TRUE ELSE calls[c].cancelled
  /\ \/ current' = 0 /\ Len(calls') = Len(calls)
        /\ DOMAIN calls' = DOMAIN calls
     \/ /\ Len(calls') = Len(calls) + 1 /\ current' = Len(calls) + 1
        /\ DOMAIN calls' = DOMAIN calls \cup {current'}
        /\ current' \notin DOMAIN calls /\ current' # 0
        /\ calls'[current'].session = s
        /\ calls'[current'].status = "running"
        /\ calls'[current'].cancelled = FALSE
        /\ calls'[current'].context = messages'[s]

LEMMA HumanEffect ==
  ASSUME TypeOK, NEW e \in Events, handle_human_message(e)
  PROVE  HumanDoes(e.session)
<1> DEFINE s == e.session
<1> HIDE DEF s
<1>1. s \in Session
  BY EventShape DEF handle_human_message, s
<1>2. UserMessage \in Message(DOMAIN tools)
  BY DEF UserMessage, Message
<1>3. /\ messages \in [Session -> Seq(Message(DOMAIN tools))]
      /\ messages' = [messages EXCEPT ![s] = Append(@, UserMessage)]
  BY TypesOf DEF Types, handle_human_message, s
<1>4. \A r \in Session : messages'[r] =
        IF r = s THEN Append(messages[r], UserMessage) ELSE messages[r]
  BY <1>1, <1>3
<1>5. messages' \in [Session -> Conversation]
  BY <1>1, <1>2, <1>3, ConversationIsSeq
<1>6. /\ Cancelled \in Seq(Call) /\ Len(Cancelled) = Len(calls)
      /\ DOMAIN Cancelled = DOMAIN calls
      /\ \A c \in DOMAIN calls :
           /\ Cancelled[c].status = calls[c].status
           /\ Cancelled[c].session = calls[c].session
           /\ Cancelled[c].context = calls[c].context
           /\ Cancelled[c].cancelled = IF c = current THEN TRUE ELSE calls[c].cancelled
  <2>1. calls \in Seq(Call) /\ (current = 0 \/ current \in DOMAIN calls)
    BY TypesOf DEF Types
  <2>2. /\ Cancelled \in Seq(Call) /\ Len(Cancelled) = Len(calls)
        /\ DOMAIN Cancelled = DOMAIN calls
        /\ \A c \in DOMAIN calls : Cancelled[c] =
             IF c = current THEN [calls[c] EXCEPT !.cancelled = TRUE] ELSE calls[c]
        /\ \A c \in DOMAIN calls :
             /\ Cancelled[c].status = calls[c].status
             /\ Cancelled[c].session = calls[c].session
             /\ Cancelled[c].context = calls[c].context
        /\ current \in DOMAIN calls => Cancelled[current].cancelled = TRUE
    BY <2>1, CancelledCalls
  <2> QED
    BY <2>2
<1>7. active' = {} /\ tools' = tools /\ running' = running
  BY DEF handle_human_message
<1>8. CASE calls' = Cancelled /\ current' = 0
  BY <1>1, <1>4, <1>5, <1>6, <1>7, <1>8 DEF HumanDoes, s
<1>9. CASE start_llm_call(s, Cancelled)
  <2>1. messages'[s] \in Conversation
    BY <1>1, <1>5
  <2>2. /\ calls' \in Seq(Call) /\ Len(calls') = Len(Cancelled) + 1
        /\ current' = Len(Cancelled) + 1 /\ current' \in DOMAIN calls'
        /\ DOMAIN calls' = DOMAIN Cancelled \cup {current'}
        /\ current' \notin DOMAIN Cancelled /\ current' # 0
        /\ \A c \in DOMAIN Cancelled : calls'[c] = Cancelled[c]
        /\ calls'[current'].session = s
        /\ calls'[current'].status = "running"
        /\ calls'[current'].cancelled = FALSE
        /\ calls'[current'].context = messages'[s]
    BY <1>1, <1>6, <1>9, <2>1, StartedCall
  <2>3. \A c \in DOMAIN calls :
          /\ calls'[c].status = calls[c].status
          /\ calls'[c].session = calls[c].session
          /\ calls'[c].context = calls[c].context
          /\ calls'[c].cancelled = IF c = current THEN TRUE ELSE calls[c].cancelled
    <3>1. \A c \in DOMAIN calls : calls'[c] = Cancelled[c]
      BY <1>6, <2>2
    <3> QED
      BY <1>6, <3>1
  <2>4. /\ Len(calls') = Len(calls) + 1 /\ current' = Len(calls) + 1
        /\ DOMAIN calls' = DOMAIN calls \cup {current'}
        /\ current' \notin DOMAIN calls
    BY <1>6, <2>2
  <2>5. DOMAIN calls \subseteq DOMAIN calls'
    BY <2>4
  <2>6. HumanDoes(s)
    BY <1>1, <1>4, <1>5, <1>7, <2>2, <2>3, <2>4, <2>5 DEF HumanDoes
  <2> QED
    BY <2>6 DEF s
<1> QED
  BY <1>8, <1>9 DEF handle_human_message, s

(* What handle_tool_result does to them.                                     *)
ResultDoes(t, s) ==
  /\ s \in Session /\ t \in DOMAIN tools
  /\ \A r \in Session : messages'[r] =
       IF r = s THEN add_tool_result(messages[r], t) ELSE messages[r]
  /\ messages' \in [Session -> Conversation]
  /\ active' = active \ {t} /\ tools' = tools /\ running' = running
  /\ calls' \in Seq(Call)
  /\ DOMAIN calls \subseteq DOMAIN calls'
  /\ \A c \in DOMAIN calls : calls'[c] = calls[c]
  /\ \/ /\ current' = current /\ calls' = calls
        /\ \/ tool_iterations' = tool_iterations
           \/ tool_iterations' = tool_iterations + 1
              /\ tool_iterations' > max_tool_iterations
     \/ /\ active \ {t} = {} /\ current = 0
        /\ tool_iterations' = tool_iterations + 1
        /\ ~(tool_iterations' > max_tool_iterations)
        /\ Len(calls') = Len(calls) + 1 /\ current' = Len(calls) + 1
        /\ DOMAIN calls' = DOMAIN calls \cup {current'}
        /\ current' \notin DOMAIN calls /\ current' # 0
        /\ calls'[current'].session = s
        /\ calls'[current'].status = "running"
        /\ calls'[current'].cancelled = FALSE
        /\ calls'[current'].context = messages'[s]

LEMMA ResultEffect ==
  ASSUME TypeOK, NEW e \in Events, handle_tool_result(e)
  PROVE  ResultDoes(e.tool, tools[e.tool].session)
<1> DEFINE t == e.tool
           s == tools[t].session
<1> HIDE DEF s, t
<1>1. t \in DOMAIN tools
  BY EventShape DEF handle_tool_result, t
<1>2. s \in Session
  <2>1. tools[t] \in Tool
    BY <1>1, TypesOf DEF Types
  <2> QED
    BY <2>1 DEF Tool, s
<1>3. /\ messages \in [Session -> Seq(Message(DOMAIN tools))]
      /\ messages' = [messages EXCEPT ![s] = add_tool_result(@, t)]
  BY TypesOf DEF Types, handle_tool_result, SessionOf, s, t
<1>4. \A r \in Session : messages'[r] =
        IF r = s THEN add_tool_result(messages[r], t) ELSE messages[r]
  BY <1>2, <1>3
<1>5. messages' \in [Session -> Conversation]
  <2>1. add_tool_result(messages[s], t) \in Seq(Message(DOMAIN tools))
    BY <1>1, <1>2, <1>3, AddedResult
  <2> QED
    BY <1>2, <1>3, <2>1, ConversationIsSeq
<1>6. active' = active \ {t} /\ tools' = tools /\ running' = running
  BY DEF handle_tool_result, t
<1>7. calls \in Seq(Call)
  BY TypesOf DEF Types
<1>8. CASE UNCHANGED <<tool_iterations, calls, current, turn>>
  BY <1>1, <1>2, <1>4, <1>5, <1>6, <1>7, <1>8 DEF ResultDoes, s, t
<1>9. CASE /\ NothingAwaited(t)
           /\ tool_iterations' = tool_iterations + 1
           /\ TooManyIterations /\ UNCHANGED <<calls, current>>
  BY <1>1, <1>2, <1>4, <1>5, <1>6, <1>7, <1>9 DEF TooManyIterations, ResultDoes, s, t
<1>10. CASE /\ NothingAwaited(t)
            /\ tool_iterations' = tool_iterations + 1
            /\ ~TooManyIterations /\ start_llm_call(s, calls)
  <2>1. messages'[s] \in Conversation
    BY <1>2, <1>5
  <2>2. /\ calls' \in Seq(Call) /\ Len(calls') = Len(calls) + 1
        /\ current' = Len(calls) + 1 /\ current' \in DOMAIN calls'
        /\ DOMAIN calls' = DOMAIN calls \cup {current'}
        /\ current' \notin DOMAIN calls /\ current' # 0
        /\ \A c \in DOMAIN calls : calls'[c] = calls[c]
        /\ calls'[current'].session = s
        /\ calls'[current'].status = "running"
        /\ calls'[current'].cancelled = FALSE
        /\ calls'[current'].context = messages'[s]
    BY <1>2, <1>7, <1>10, <2>1, StartedCall
  <2>3. active \ {t} = {} /\ current = 0
    BY <1>10 DEF NothingAwaited
  <2>4. ~(tool_iterations' > max_tool_iterations)
    BY <1>10 DEF TooManyIterations
  <2> QED
    BY <1>1, <1>2, <1>4, <1>5, <1>6, <1>10, <2>2, <2>3, <2>4 DEF ResultDoes, s, t
<1>11. \/ UNCHANGED <<tool_iterations, calls, current, turn>>
       \/ /\ NothingAwaited(t)
          /\ tool_iterations' = tool_iterations + 1
          /\ TooManyIterations /\ UNCHANGED <<calls, current>>
       \/ /\ NothingAwaited(t)
          /\ tool_iterations' = tool_iterations + 1
          /\ ~TooManyIterations /\ start_llm_call(s, calls)
  BY DEF handle_tool_result, SessionOf, s, t
<1> QED
  BY <1>8, <1>9, <1>10, <1>11

(* What the answer of the awaited call does to them.                         *)
Fresh(n) == Len(tools) + 1 .. Len(tools) + n

AnswerDoes(c, s, n) ==
  /\ c \in DOMAIN calls /\ s \in Session /\ n \in Nat
  /\ c = current /\ current' = 0 /\ calls' = calls /\ running' = running
  /\ tools' \in Seq(Tool)
  /\ DOMAIN tools' = DOMAIN tools \cup Fresh(n)
  /\ \A t \in DOMAIN tools : tools'[t] = tools[t]
  /\ \A t \in Fresh(n) : /\ t \notin DOMAIN tools
                         /\ tools'[t].session = s
                         /\ tools'[t].status = "running"
  /\ active' = active \cup Fresh(n)
  /\ \A r \in Session \ {s} : messages'[r] = messages[r]
  /\ \/ n = 0 /\ Fresh(n) = {} /\ messages' = messages
     \/ messages'[s] = Append(messages[s], Assistant(Fresh(n)))
  /\ Assistant(Fresh(n)) \in Message(DOMAIN tools')
  /\ messages' \in [Session -> Seq(Message(DOMAIN tools'))]

LEMMA AnswerEffect ==
  ASSUME TypeOK, NEW e \in Events, handle_llm_complete(e),
         ~Stale(e.call)
  PROVE  AnswerDoes(e.call, calls[e.call].session, e.reply.tools)
<1> DEFINE c == e.call
           s == calls[c].session
           n == e.reply.tools
<1>1. c \in DOMAIN calls /\ e.reply \in Replies
  BY EventShape DEF handle_llm_complete
<1>2. n \in Nat
  BY <1>1
<1>3. s \in Session
  <2>1. calls[c] \in Call
    BY <1>1, TypesOf DEF Types
  <2> QED
    BY <2>1 DEF Call
<1>4. /\ tools \in Seq(Tool) /\ active \subseteq DOMAIN tools
      /\ messages \in [Session -> Seq(Message(DOMAIN tools))]
  BY TypesOf DEF Types
<1>5. /\ current' = 0 /\ launch_tools(s, n) /\ c = current
      /\ messages' = IF n = 0 /\ ~e.reply.text THEN messages
                     ELSE [messages EXCEPT ![s] =
                             Append(@, Assistant(active' \ active))]
      /\ calls' = calls /\ running' = running
  BY DEF handle_llm_complete, Stale
<1>6. /\ tools' \in Seq(Tool)
      /\ DOMAIN tools' = DOMAIN tools \cup Fresh(n)
      /\ \A t \in DOMAIN tools : tools'[t] = tools[t]
      /\ \A t \in Fresh(n) : /\ t \notin DOMAIN tools
                             /\ tools'[t].session = s
                             /\ tools'[t].status = "running"
      /\ active' = active \cup Fresh(n)
  <2>1. /\ tools' \in Seq(Tool)
        /\ DOMAIN tools' = DOMAIN tools \cup (Len(tools) + 1 .. Len(tools) + n)
        /\ \A t \in DOMAIN tools : tools'[t] = tools[t]
        /\ \A t \in Len(tools) + 1 .. Len(tools) + n :
             t \notin DOMAIN tools /\ tools'[t].session = s /\ tools'[t].status = "running"
        /\ active' = active \cup (Len(tools) + 1 .. Len(tools) + n)
    <3>1. tools \in Seq(Tool) /\ launch_tools(s, n)
      BY <1>4, <1>5
    <3> QED
      BY ONLY <1>2, <1>3, <3>1, LaunchedTools
  <2> QED
    BY <2>1 DEF Fresh
<1>7. active' \ active = Fresh(n)
  BY <1>4, <1>6
<1>8. Assistant(Fresh(n)) \in Message(DOMAIN tools')
  BY <1>6 DEF Assistant, Message
<1>9. \A m \in Seq(Message(DOMAIN tools)) : m \in Seq(Message(DOMAIN tools'))
  <2>1. Message(DOMAIN tools) \subseteq Message(DOMAIN tools')
    BY <1>6 DEF Message
  <2> QED
    BY <2>1, SeqMonotonic
<1>10. messages \in [Session -> Seq(Message(DOMAIN tools'))]
  BY <1>4, <1>9
<1>11. CASE n = 0 /\ ~e.reply.text
  <2>1. Fresh(n) = {}
    BY <1>4, <1>11 DEF Fresh
  <2> QED
    BY <1>1, <1>2, <1>3, <1>5, <1>6, <1>8, <1>10, <1>11, <2>1 DEF AnswerDoes
<1>12. CASE ~(n = 0 /\ ~e.reply.text)
  <2>1. messages' = [messages EXCEPT ![s] = Append(@, Assistant(Fresh(n)))]
    BY <1>5, <1>7, <1>12
  <2>2. Append(messages[s], Assistant(Fresh(n))) \in Seq(Message(DOMAIN tools'))
    BY <1>3, <1>8, <1>10
  <2>3. messages' \in [Session -> Seq(Message(DOMAIN tools'))]
    BY <1>3, <1>10, <2>1, <2>2
  <2>4. /\ messages'[s] = Append(messages[s], Assistant(Fresh(n)))
        /\ \A r \in Session \ {s} : messages'[r] = messages[r]
    BY <1>3, <1>10, <2>1
  <2> QED
    BY <1>1, <1>2, <1>3, <1>5, <1>6, <1>8, <2>3, <2>4 DEF AnswerDoes
<1> QED
  BY <1>11, <1>12

(* What Shutdown does to them.                                               *)
ShutdownDoes ==
  /\ running' = FALSE /\ active' = {} /\ current' = 0
  /\ messages' = messages /\ tools' = tools
  /\ tool_iterations' = tool_iterations
  /\ calls' \in Seq(Call) /\ Len(calls') = Len(calls)
  /\ DOMAIN calls' = DOMAIN calls
  /\ \A c \in DOMAIN calls :
       /\ calls'[c].status = calls[c].status
       /\ calls'[c].session = calls[c].session
       /\ calls'[c].context = calls[c].context
       /\ calls'[c].cancelled = IF c = current THEN TRUE ELSE calls[c].cancelled

LEMMA ShutdownEffect ==
  ASSUME TypeOK, NEW e, Shutdown(e)
  PROVE  ShutdownDoes
<1>1. calls \in Seq(Call) /\ (current = 0 \/ current \in DOMAIN calls)
  BY TypesOf DEF Types
<1>2. /\ Cancelled \in Seq(Call) /\ Len(Cancelled) = Len(calls)
      /\ DOMAIN Cancelled = DOMAIN calls
      /\ \A c \in DOMAIN calls : Cancelled[c] =
           IF c = current THEN [calls[c] EXCEPT !.cancelled = TRUE] ELSE calls[c]
      /\ \A c \in DOMAIN calls :
           /\ Cancelled[c].status = calls[c].status
           /\ Cancelled[c].session = calls[c].session
           /\ Cancelled[c].context = calls[c].context
      /\ current \in DOMAIN calls => Cancelled[current].cancelled = TRUE
  BY <1>1, CancelledCalls
<1>3. /\ running' = FALSE /\ active' = {} /\ current' = 0 /\ calls' = Cancelled
      /\ messages' = messages /\ tools' = tools
      /\ tool_iterations' = tool_iterations
  BY DEF Shutdown
<1> QED
  BY <1>2, <1>3 DEF ShutdownDoes

LEMMA TypeRun ==
  ASSUME TypeOK, run
  PROVE  TypeOK'
<1>1. /\ Event \in Events
      /\ buffer' \in Seq(Events) /\ channel' \in Seq(Events)
  BY Received
<1>2. Types
  BY TypesOf
<1>3. CASE handle_human_message(Event)
  <2> DEFINE s == Event.session
  <2>1. /\ s \in Session
        /\ messages' \in [Session -> Conversation]
        /\ active' = {} /\ tools' = tools /\ running' = running
        /\ calls' \in Seq(Call)
        /\ DOMAIN calls \subseteq DOMAIN calls'
        /\ current' = 0 \/ current' \in DOMAIN calls'
    BY <1>1, <1>3, HumanEffect DEF HumanDoes
  <2>2. /\ turn' \in [Session -> {"none", "waiting", "error", "done"}]
        /\ current_session' \in Session \cup {"none"}
        /\ tool_iterations' = 0 /\ sent' = sent /\ notices' = notices
    BY <1>2, <1>3, <2>1 DEF Types, handle_human_message
  <2> HIDE DEF s
  <2>3. buffer' \in Seq(Events') /\ channel' \in Seq(Events')
    BY <1>1, <2>1, TypesGrow
  <2>4. calls' \in Seq(Call') /\ messages' \in [Session -> Seq(Message(DOMAIN tools'))]
    BY <2>1, ConversationIsSeq DEF Call, Conversation
  <2>5. Types'
    BY <1>2, <2>1, <2>2, <2>3, <2>4 DEF Types
  <2> QED
    BY <2>5, TypesOfNext
<1>4. CASE handle_tool_result(Event)
  <2> DEFINE t == Event.tool
             s == tools[t].session
  <2>1. /\ s \in Session
        /\ messages' \in [Session -> Conversation]
        /\ active' = active \ {t} /\ tools' = tools /\ running' = running
        /\ calls' \in Seq(Call)
        /\ DOMAIN calls \subseteq DOMAIN calls'
        /\ current' = current \/ current' \in DOMAIN calls'
        /\ tool_iterations' \in {tool_iterations, tool_iterations + 1}
    BY <1>1, <1>4, ResultEffect DEF ResultDoes
  <2>2. /\ turn' \in [Session -> {"none", "waiting", "error", "done"}]
        /\ current_session' = current_session
        /\ sent' = sent /\ notices' = notices
    BY <1>2, <1>4, <2>1 DEF Types, handle_tool_result, SessionOf
  <2> HIDE DEF s, t
  <2>3. buffer' \in Seq(Events') /\ channel' \in Seq(Events')
    BY <1>1, <2>1, TypesGrow
  <2>4. calls' \in Seq(Call') /\ messages' \in [Session -> Seq(Message(DOMAIN tools'))]
    BY <2>1, ConversationIsSeq DEF Call, Conversation
  <2>5. Types'
    BY <1>2, <2>1, <2>2, <2>3, <2>4 DEF Types
  <2> QED
    BY <2>5, TypesOfNext
<1>5. CASE handle_llm_complete(Event) /\ Stale(Event.call)
  <2>1. /\ UNCHANGED <<active, current, messages, tools, turn>>
        /\ UNCHANGED <<current_session, tool_iterations, calls, running, sent, notices>>
    BY <1>5 DEF handle_llm_complete
  <2> QED
    BY <1>1, <2>1 DEF TypeOK, Events, Conversation
<1>6. CASE handle_llm_complete(Event) /\ ~Stale(Event.call)
  <2> DEFINE s == calls[Event.call].session
             n == Event.reply.tools
  <2>1. /\ s \in Session
        /\ current' = 0 /\ calls' = calls /\ running' = running
        /\ tools' \in Seq(Tool)
        /\ DOMAIN tools' = DOMAIN tools \cup Fresh(n)
        /\ active' = active \cup Fresh(n)
        /\ messages' \in [Session -> Seq(Message(DOMAIN tools'))]
    BY <1>1, <1>6, AnswerEffect DEF AnswerDoes
  <2>2. /\ turn' \in [Session -> {"none", "waiting", "error", "done"}]
        /\ UNCHANGED <<current_session, tool_iterations, sent, notices>>
    BY <1>2, <1>6, <2>1 DEF Types, handle_llm_complete
  <2> HIDE DEF s, n
  <2>3. buffer' \in Seq(Events') /\ channel' \in Seq(Events') /\ Call \subseteq Call'
    BY <1>1, <2>1, TypesGrow
  <2>4. calls' \in Seq(Call')
    BY <1>2, <2>1, <2>3, SeqMonotonic DEF Types
  <2>5. Types'
    BY <1>2, <2>1, <2>2, <2>3, <2>4 DEF Types
  <2> QED
    BY <2>5, TypesOfNext
<1>7. CASE Ignore(Event)
  <2>1. UNCHANGED <<loop, tasks, running, turn, sent, notices>>
    BY <1>7 DEF Ignore
  <2> QED
    BY <1>1, <2>1 DEF TypeOK, Events, Conversation, loop, tasks
<1>8. CASE Shutdown(Event)
  <2>1. /\ running' = FALSE /\ active' = {} /\ current' = 0
        /\ messages' = messages /\ tools' = tools
        /\ tool_iterations' = tool_iterations
        /\ calls' \in Seq(Call)
        /\ DOMAIN calls' = DOMAIN calls
    BY <1>8, ShutdownEffect DEF ShutdownDoes
  <2>2. UNCHANGED <<current_session, turn, sent, notices>>
    BY <1>8 DEF Shutdown
  <2>3. buffer' \in Seq(Events') /\ channel' \in Seq(Events')
    BY <1>1, <2>1, TypesGrow
  <2>4. calls' \in Seq(Call')
    BY <2>1 DEF Call, Conversation
  <2>5. Types'
    BY <1>2, <2>1, <2>2, <2>3, <2>4 DEF Types
  <2> QED
    BY <2>5, TypesOfNext
<1> QED
  BY <1>3, <1>4, <1>5, <1>6, <1>7, <1>8 DEF run

LEMMA TypeStep == TypeOK /\ [Next]_vars => TypeOK'
<1> SUFFICES ASSUME TypeOK, [Next]_vars
             PROVE  TypeOK'
  OBVIOUS
<1>1. CASE UNCHANGED vars
  BY <1>1 DEF vars, TypeOK, Events, Conversation
<1> QED
  BY <1>1, TypeSend, TypeCall, TypeTool, TypeRun DEF Next

(* TypeOK holds: the loop, its calls and its tools only ever name calls and  *)
(* tools that were started (queue.rs:278-566).                               *)
THEOREM TypesHold == Spec => []TypeOK
BY TypeInit, TypeStep, PTL DEF Spec

-----------------------------------------------------------------------------
(* How the queue changes.                                                    *)

(* The events that go on waiting when one is taken, and where.               *)
LEMMA QueueTaken ==
  ASSUME TypeOK, run
  PROVE  \E k \in DOMAIN Queue :
           /\ Event = Queue[k]
           /\ \A i \in DOMAIN Queue' : \E j \in DOMAIN Queue \ {k} :
                Queue'[i] = Queue[j] /\ j = IF i < k THEN i ELSE i + 1
           /\ \A j \in DOMAIN Queue \ {k} : \E i \in DOMAIN Queue' :
                Queue'[i] = Queue[j]
<1>1. TypeOK /\ recv_with_priority /\ Queue \in Seq(Events)
  BY QueueProperties DEF run, TypeOK
<1>2. buffer' \in Seq(Events) /\ channel' \in Seq(Events)
  BY <1>1, RecvTakesOne
<1>3. PICK k \in DOMAIN Queue :
        /\ Event = Queue[k]
        /\ Len(Queue') = Len(Queue) - 1
        /\ \A i \in 1 .. Len(Queue) - 1 :
             Queue'[i] = Queue[IF i < k THEN i ELSE i + 1]
  BY <1>1, RecvTakesOne
<1>4. Queue' \in Seq(Events)
  BY <1>2, ConcatProperties DEF Queue
<1>5. /\ DOMAIN Queue = 1 .. Len(Queue) /\ Len(Queue) \in Nat
      /\ DOMAIN Queue' = 1 .. Len(Queue) - 1
  BY <1>1, <1>3, <1>4
<1>6. ASSUME NEW i \in DOMAIN Queue'
      PROVE  \E j \in DOMAIN Queue \ {k} :
                Queue'[i] = Queue[j] /\ j = IF i < k THEN i ELSE i + 1
  <2> DEFINE j == IF i < k THEN i ELSE i + 1
  <2>1. j \in DOMAIN Queue \ {k}
    BY <1>5
  <2>2. Queue'[i] = Queue[j]
    BY <1>3, <1>5
  <2> QED
    BY <2>1, <2>2
<1>7. ASSUME NEW j \in DOMAIN Queue \ {k}
      PROVE  \E i \in DOMAIN Queue' : Queue'[i] = Queue[j]
  <2> DEFINE i == IF j < k THEN j ELSE j - 1
  <2>1. i \in 1 .. Len(Queue) - 1 /\ (IF i < k THEN i ELSE i + 1) = j
    BY <1>5
  <2> HIDE DEF i
  <2>2. Queue'[i] = Queue[j]
    BY <1>3, <2>1
  <2> QED
    BY <1>5, <2>1, <2>2
<1> QED
  BY <1>3, <1>6, <1>7

-----------------------------------------------------------------------------
(* The conversations.                                                        *)

LEMMA NamesTools ==
  ASSUME TypeOK, NEW s \in Session, NEW i, NEW t,
         Uses(messages[s], i, t) \/ Answers(messages[s], i, t)
  PROVE  /\ i \in 1 .. Len(messages[s]) /\ i \in Nat
         /\ Len(messages[s]) \in Nat
         /\ t \in DOMAIN tools /\ t \in Nat
<1>1. /\ messages[s] \in Seq(Message(DOMAIN tools)) /\ tools \in Seq(Tool)
      /\ i \in DOMAIN messages[s] /\ t \in messages[s][i].ids
  BY TypesOf DEF Types, Uses, Answers
<1>2. i \in 1 .. Len(messages[s]) /\ Len(messages[s]) \in Nat
  BY <1>1
<1>3. messages[s][i] \in Message(DOMAIN tools)
  BY <1>1
<1>4. t \in DOMAIN tools
  BY <1>1, <1>3 DEF Message
<1> QED
  BY <1>1, <1>2, <1>4

(* A step that is neither a message, an answer, a result nor a shutdown      *)
(* leaves alone all but the queue, what clients hear, and who is over.       *)
Frame ==
  /\ messages' = messages /\ active' = active /\ current' = current
  /\ running' = running /\ tool_iterations' = tool_iterations
  /\ DOMAIN tools' = DOMAIN tools
  /\ \A t \in DOMAIN tools :
       /\ tools'[t].session = tools[t].session
       /\ tools[t].status = "over" => tools'[t].status = "over"
  /\ Len(calls') = Len(calls) /\ DOMAIN calls' = DOMAIN calls
  /\ \A c \in DOMAIN calls : /\ calls'[c].session = calls[c].session
                             /\ calls'[c].context = calls[c].context
                             /\ calls'[c].cancelled = calls[c].cancelled
                             /\ calls'[c].status = "running" => calls[c].status = "running"

LEMMA StutterFrame ==
  ASSUME UNCHANGED <<loop, tasks, running>>
  PROVE  Frame
BY DEF Frame, loop, tasks

LEMMA CallFrame ==
  ASSUME TypeOK, NEW c \in DOMAIN calls, EndOfCall(c) \/ StreamError(c)
  PROVE  Frame
<1>1. CASE StreamError(c)
  BY <1>1, StutterFrame DEF StreamError
<1>2. CASE Fail(c)
  <2>1. calls' = [calls EXCEPT ![c].status = "failed"]
    BY <1>2 DEF Fail
  <2>2. /\ Len(calls') = Len(calls) /\ DOMAIN calls' = DOMAIN calls
        /\ \A d \in DOMAIN calls :
              /\ calls'[d].cancelled = calls[d].cancelled
              /\ calls'[d].session = calls[d].session
              /\ calls'[d].context = calls[d].context
              /\ calls'[d].status = "running" => calls[d].status = "running"
    BY <2>1, CallEnds
  <2> QED
    BY <1>2, <2>2 DEF Fail, Frame, loop
<1>3. ASSUME Drop(c) \/ \E reply \in Replies : Complete(c, reply)
      PROVE  Frame
  <2>1. calls' = [calls EXCEPT ![c].status = "over"]
    BY <1>3 DEF Drop, Complete
  <2>2. /\ Len(calls') = Len(calls) /\ DOMAIN calls' = DOMAIN calls
        /\ \A d \in DOMAIN calls :
              /\ calls'[d].cancelled = calls[d].cancelled
              /\ calls'[d].session = calls[d].session
              /\ calls'[d].context = calls[d].context
              /\ calls'[d].status = "running" => calls[d].status = "running"
    BY <2>1, CallEnds
  <2>3. UNCHANGED <<loop, tools, running>>
    BY <1>3 DEF Drop, Complete
  <2> QED
    BY <2>2, <2>3 DEF Frame, loop
<1> QED
  BY <1>1, <1>2, <1>3 DEF EndOfCall

LEMMA ToolFrame ==
  ASSUME TypeOK, NEW t \in DOMAIN tools, FinishTool(t)
  PROVE  Frame
<1>1. /\ DOMAIN tools' = DOMAIN tools
      /\ \A u \in DOMAIN tools : u # t => tools'[u] = tools[u]
      /\ \A u \in DOMAIN tools : tools'[u].session = tools[u].session
      /\ tools'[t].status = "over"
  BY ToolEnds
<1>2. UNCHANGED <<loop, calls, running>>
  BY DEF FinishTool
<1> QED
  BY <1>1, <1>2 DEF Frame, loop

(* What the loop does with an event it has taken.                            *)
LEMMA RunCases ==
  ASSUME TypeOK, run
  PROVE  /\ Event \in Events /\ running
         /\ \/ handle_human_message(Event) /\ HumanDoes(Event.session)
            \/ handle_tool_result(Event) /\ ResultDoes(Event.tool, tools[Event.tool].session)
            \/ /\ handle_llm_complete(Event)
               /\ AnswerDoes(Event.call, calls[Event.call].session, Event.reply.tools)
            \/ handle_llm_complete(Event) /\ Event.call # current /\ Frame /\ calls' = calls
               /\ tools' = tools
            \/ Event.kind \in {"Injection", "Wake", "Sleep"} /\ Frame /\ calls' = calls
               /\ tools' = tools
            \/ Shutdown(Event) /\ ShutdownDoes
<1>1. Event \in Events /\ running
  BY Received DEF run
<1>2. CASE handle_human_message(Event)
  BY <1>1, <1>2, HumanEffect
<1>3. CASE handle_tool_result(Event)
  BY <1>1, <1>3, ResultEffect
<1>4. CASE handle_llm_complete(Event) /\ ~Stale(Event.call)
  BY <1>1, <1>4, AnswerEffect
<1>5. CASE handle_llm_complete(Event) /\ Stale(Event.call)
  <2>1. UNCHANGED <<active, current, messages, tools, tool_iterations, calls, running>>
    BY <1>5 DEF handle_llm_complete
  <2>2. Frame
    BY <2>1 DEF Frame
  <2> QED
    BY <1>1, <1>5, <2>1, <2>2 DEF Stale
<1>6. CASE Ignore(Event)
  <2>1. UNCHANGED <<loop, tasks, running>>
    BY <1>6 DEF Ignore
  <2>2. Frame
    BY <2>1, StutterFrame
  <2> QED
    BY <1>1, <1>6, <2>1, <2>2 DEF Ignore, tasks
<1>7. CASE Shutdown(Event)
  BY <1>1, <1>7, ShutdownEffect
<1> QED
  BY <1>2, <1>3, <1>4, <1>5, <1>6, <1>7 DEF run

(* Every step falls under one of these.                                      *)
LEMMA StepCases ==
  ASSUME TypeOK, [Next]_vars
  PROVE  \/ Frame
         \/ run /\ handle_human_message(Event) /\ HumanDoes(Event.session)
         \/ /\ run /\ handle_tool_result(Event)
            /\ ResultDoes(Event.tool, tools[Event.tool].session)
         \/ /\ run /\ handle_llm_complete(Event)
            /\ AnswerDoes(Event.call, calls[Event.call].session, Event.reply.tools)
         \/ run /\ Shutdown(Event) /\ ShutdownDoes
<1>1. CASE UNCHANGED vars
  BY <1>1, StutterFrame DEF vars, loop, tasks
<1>2. CASE Clients
  <2>1. UNCHANGED <<loop, tasks, running>>
    BY <1>2 DEF Clients, SendMessage, SendNotice
  <2> QED
    BY <2>1, StutterFrame
<1>3. CASE run
  BY <1>3, RunCases
<1> QED
  BY <1>1, <1>2, <1>3, CallFrame, ToolFrame DEF Next

LEMMA HumanUses ==
  ASSUME TypeOK, NEW s, HumanDoes(s)
  PROVE  /\ \A r \in Session : \A i, t :
              /\ Uses(messages'[r], i, t) <=> Uses(messages[r], i, t)
              /\ Answers(messages'[r], i, t) <=> Answers(messages[r], i, t)
         /\ \A r \in Session : \A i \in DOMAIN messages[r] :
              i \in DOMAIN messages'[r] /\ messages'[r][i] = messages[r][i]
         /\ \A r \in Session \ {s} : messages'[r] = messages[r]
         /\ Len(messages[s]) \in Nat /\ DOMAIN messages[s] = 1 .. Len(messages[s])
         /\ DOMAIN messages'[s] = DOMAIN messages[s] \cup {Len(messages[s]) + 1}
         /\ messages'[s][Len(messages[s]) + 1].role = "user"
         /\ \A r \in Session :
              Positions(messages'[r], "assistant") = Positions(messages[r], "assistant")
         /\ Positions(messages'[s], "user")
              = Positions(messages[s], "user") \cup {Len(messages[s]) + 1}
<1>1. /\ UserMessage \in Message(DOMAIN tools)
      /\ UserMessage.role = "user" /\ s \in Session
  BY DEF UserMessage, Message, HumanDoes
<1>2. messages[s] \in Seq(Message(DOMAIN tools))
  BY <1>1, TypesOf DEF Types
<1>3. /\ messages'[s] = Append(messages[s], UserMessage)
      /\ \A r \in Session \ {s} : messages'[r] = messages[r]
  BY <1>1 DEF HumanDoes
<1> DEFINE n == messages'[s]
<1> HIDE DEF n
<1>4. n = Append(messages[s], UserMessage)
  BY <1>3 DEF n
<1>5. Appended(n, messages[s], UserMessage)
  BY <1>1, <1>2, <1>4, AppendedMessage
<1>6. /\ \A i \in DOMAIN messages[s] : i \in DOMAIN n /\ n[i] = messages[s][i]
      /\ DOMAIN n = DOMAIN messages[s] \cup {Len(messages[s]) + 1}
      /\ n[Len(messages[s]) + 1].role = "user"
  BY <1>1, <1>5 DEF Appended
<1>7. /\ \A i, t : Uses(n, i, t) <=> Uses(messages[s], i, t)
      /\ \A i, t : Answers(n, i, t) <=> Answers(messages[s], i, t)
      /\ Positions(n, "assistant") = Positions(messages[s], "assistant")
      /\ Positions(n, "user") = Positions(messages[s], "user") \cup {Len(messages[s]) + 1}
  BY <1>1, <1>5 DEF Appended
<1>8. Len(messages[s]) \in Nat /\ DOMAIN messages[s] = 1 .. Len(messages[s])
  BY <1>2
<1> QED
  BY <1>1, <1>3, <1>6, <1>7, <1>8 DEF n

LEMMA ResultUses ==
  ASSUME TypeOK, NEW s, NEW t, ResultDoes(t, s)
  PROVE  /\ \A r \in Session : \A i, u :
              /\ Uses(messages'[r], i, u) <=> Uses(messages[r], i, u)
              /\ Answers(messages'[r], i, u) <=>
                   Answers(messages[r], i, u) \/ (r = s /\ i = Place(messages[s]) /\ u = t)
         /\ \A r \in Session \ {s} : messages'[r] = messages[r]
         /\ \A r \in Session : \A i \in DOMAIN messages[r] :
              i \in DOMAIN messages'[r] /\ messages'[r][i].role = messages[r][i].role
         /\ Place(messages[s]) \in Nat
         /\ Len(messages'[s]) = Place(messages[s])
         /\ DOMAIN messages'[s] = DOMAIN messages[s] \cup {Place(messages[s])}
         /\ messages'[s][Place(messages[s])].role = "results"
         /\ \A r \in Session : \A role \in {"user", "assistant"} :
              Positions(messages'[r], role) = Positions(messages[r], role)
<1>1. s \in Session /\ t \in DOMAIN tools
  BY DEF ResultDoes
<1> DEFINE m == messages[s]
           n == messages'[s]
<1>2. m \in Seq(Message(DOMAIN tools))
  BY <1>1, TypesOf DEF Types
<1>3. n = add_tool_result(m, t)
  BY <1>1 DEF ResultDoes
<1>4. \A r \in Session \ {s} : messages'[r] = messages[r]
  BY <1>1 DEF ResultDoes
<1> HIDE DEF m, n
<1>5. /\ Place(m) \in Nat /\ Len(n) = Place(m)
      /\ \A i \in DOMAIN m : i \in DOMAIN n /\ n[i].role = m[i].role
      /\ DOMAIN n = DOMAIN m \cup {Place(m)}
      /\ n[Place(m)].role = "results"
      /\ \A i, u : Uses(n, i, u) <=> Uses(m, i, u)
      /\ \A i, u : Answers(n, i, u) <=> Answers(m, i, u) \/ (i = Place(m) /\ u = t)
      /\ \A role \in {"user", "assistant"} : Positions(n, role) = Positions(m, role)
  <2>1. Added(n, m, t)
    BY <1>1, <1>2, <1>3, AddedResult
  <2> QED
    BY <2>1 DEF Added
<1>6. ASSUME NEW r \in Session, NEW i, NEW u
      PROVE  /\ Uses(messages'[r], i, u) <=> Uses(messages[r], i, u)
             /\ Answers(messages'[r], i, u) <=>
                  Answers(messages[r], i, u) \/ (r = s /\ i = Place(m) /\ u = t)
  <2>1. CASE r = s
    BY <1>5, <2>1 DEF m, n
  <2>2. CASE r # s
    BY <1>4, <2>2
  <2> QED
    BY <2>1, <2>2
<1>7. ASSUME NEW r \in Session, NEW i \in DOMAIN messages[r]
      PROVE  i \in DOMAIN messages'[r] /\ messages'[r][i].role = messages[r][i].role
  BY <1>4, <1>5 DEF m, n
<1>8. ASSUME NEW r \in Session, NEW role \in {"user", "assistant"}
      PROVE  Positions(messages'[r], role) = Positions(messages[r], role)
  BY <1>4, <1>5 DEF m, n
<1> QED
  BY <1>4, <1>5, <1>6, <1>7, <1>8 DEF m, n

LEMMA AnswerUses ==
  ASSUME TypeOK, NEW c, NEW s, NEW n, AnswerDoes(c, s, n)
  PROVE  /\ \A r \in Session : \A i, t :
              /\ Answers(messages'[r], i, t) <=> Answers(messages[r], i, t)
              /\ Uses(messages'[r], i, t) <=>
                   \/ Uses(messages[r], i, t)
                   \/ r = s /\ i = Len(messages[s]) + 1 /\ t \in Fresh(n)
         /\ \A r \in Session \ {s} : messages'[r] = messages[r]
         /\ Len(messages[s]) \in Nat /\ DOMAIN messages[s] = 1 .. Len(messages[s])
         /\ \/ messages' = messages
            \/ /\ DOMAIN messages'[s] = DOMAIN messages[s] \cup {Len(messages[s]) + 1}
               /\ messages'[s][Len(messages[s]) + 1].role = "assistant"
         /\ \A r \in Session : \A i \in DOMAIN messages[r] :
              i \in DOMAIN messages'[r] /\ messages'[r][i] = messages[r][i]
         /\ \A r \in Session : Positions(messages'[r], "user") = Positions(messages[r], "user")
<1>1. s \in Session /\ \A r \in Session \ {s} : messages'[r] = messages[r]
  BY DEF AnswerDoes
<1>2. messages[s] \in Seq(Message(DOMAIN tools))
  BY <1>1, TypesOf DEF Types
<1>3. messages[s] \in Seq(Message(DOMAIN tools'))
  <2>1. Message(DOMAIN tools) \subseteq Message(DOMAIN tools')
    BY DEF Message, AnswerDoes
  <2> QED
    BY <1>2, <2>1, SeqMonotonic
<1>4. Len(messages[s]) \in Nat /\ DOMAIN messages[s] = 1 .. Len(messages[s])
  BY <1>2
<1>5. CASE Fresh(n) = {} /\ messages' = messages
  BY <1>4, <1>5
<1>6. CASE messages'[s] = Append(messages[s], Assistant(Fresh(n)))
  <2> DEFINE m == messages'[s]
             x == Assistant(Fresh(n))
  <2>1. x \in Message(DOMAIN tools') /\ x.role = "assistant" /\ x.ids = Fresh(n)
    BY DEF AnswerDoes, Assistant
  <2>2. m = Append(messages[s], x)
    BY <1>6
  <2> HIDE DEF m, x
  <2>3. Appended(m, messages[s], x)
    BY <1>3, <2>1, <2>2, AppendedMessage
  <2>4. /\ \A i \in DOMAIN messages[s] : i \in DOMAIN m /\ m[i] = messages[s][i]
        /\ DOMAIN m = DOMAIN messages[s] \cup {Len(messages[s]) + 1}
        /\ m[Len(messages[s]) + 1].role = "assistant"
    BY <2>1, <2>3 DEF Appended
  <2>5. /\ \A i, t : Answers(m, i, t) <=> Answers(messages[s], i, t)
        /\ \A i, t : Uses(m, i, t) <=>
             \/ Uses(messages[s], i, t)
             \/ i = Len(messages[s]) + 1 /\ t \in Fresh(n)
        /\ Positions(m, "user") = Positions(messages[s], "user")
    BY <2>1, <2>3 DEF Appended
  <2>6. ASSUME NEW r \in Session, NEW i, NEW t
        PROVE  /\ Answers(messages'[r], i, t) <=> Answers(messages[r], i, t)
               /\ Uses(messages'[r], i, t) <=>
                   \/ Uses(messages[r], i, t)
                   \/ r = s /\ i = Len(messages[s]) + 1 /\ t \in Fresh(n)
    <3>1. CASE r = s
      BY <2>5, <3>1 DEF m
    <3>2. CASE r # s
      BY <1>1, <3>2
    <3> QED
      BY <3>1, <3>2
  <2>7. ASSUME NEW r \in Session, NEW i \in DOMAIN messages[r]
        PROVE  i \in DOMAIN messages'[r] /\ messages'[r][i] = messages[r][i]
    BY <1>1, <2>4 DEF m
  <2>8. ASSUME NEW r \in Session
        PROVE  Positions(messages'[r], "user") = Positions(messages[r], "user")
    BY <1>1, <2>5 DEF m
  <2> QED
    BY <1>1, <1>4, <2>4, <2>6, <2>7, <2>8 DEF m
<1> QED
  BY <1>5, <1>6 DEF AnswerDoes

LEMMA UsesStep ==
  ASSUME TypeOK, UsesInv, [Next]_vars
  PROVE  UsesInv'
<1>0. \A s \in Session, i, t \in Nat : Uses(messages[s], i, t) => t \in DOMAIN tools
  BY NamesTools
<1>1. ASSUME /\ \A s \in Session : \A i, t :
                  Uses(messages'[s], i, t) <=> Uses(messages[s], i, t)
             /\ DOMAIN tools' = DOMAIN tools
             /\ \A t \in DOMAIN tools : tools'[t].session = tools[t].session
      PROVE  UsesInv'
  <2>1. \A t \in DOMAIN tools : tools[t].session \in Session
    <3>1. \A t \in DOMAIN tools : tools[t] \in Tool
      BY TypesOf DEF Types
    <3> QED
      BY <3>1 DEF Tool
  <2>2. OfItsSession'
    BY <1>0, <1>1 DEF UsesInv, OfItsSession
  <2>3. ASSUME NEW s \in Session, NEW i \in Nat, NEW j \in Nat, NEW t \in Nat,
               Uses(messages'[s], i, t), Uses(messages'[s], j, t)
        PROVE  i = j
    <3>1. Uses(messages[s], i, t) /\ Uses(messages[s], j, t)
      BY <1>1, <2>3
    <3> QED
      BY <3>1 DEF UsesInv, UsedOnce
  <2>4. ASSUME NEW t \in DOMAIN tools'
        PROVE  \E i \in Nat : Uses(messages'[tools'[t].session], i, t)
    <3>1. /\ t \in DOMAIN tools /\ tools[t].session \in Session
          /\ tools'[t].session = tools[t].session
      BY <1>1, <2>1
    <3>2. PICK i \in Nat : Uses(messages[tools[t].session], i, t)
      BY <3>1 DEF UsesInv, Used
    <3> QED
      BY <1>1, <3>1, <3>2
  <2> QED
    BY <2>2, <2>3, <2>4 DEF UsesInv, Used, UsedOnce
<1>2. CASE Frame
  BY <1>1, <1>2 DEF Frame
<1>3. CASE HumanDoes(Event.session)
  <2>1. \A s \in Session : \A i, t :
          Uses(messages'[s], i, t) <=> Uses(messages[s], i, t)
    BY <1>3, HumanUses
  <2> QED
    BY <1>1, <1>3, <2>1 DEF HumanDoes
<1>4. CASE ResultDoes(Event.tool, tools[Event.tool].session)
  <2>1. \A s \in Session : \A i, t :
          Uses(messages'[s], i, t) <=> Uses(messages[s], i, t)
    BY <1>4, ResultUses
  <2> QED
    BY <1>1, <1>4, <2>1 DEF ResultDoes
<1>5. CASE ShutdownDoes
  BY <1>1, <1>5 DEF ShutdownDoes
<1>6. ASSUME NEW c, NEW s, NEW n, AnswerDoes(c, s, n)
      PROVE  UsesInv'
  <2>1. /\ \A r \in Session : \A i, t : Uses(messages'[r], i, t) <=>
             \/ Uses(messages[r], i, t)
             \/ r = s /\ i = Len(messages[s]) + 1 /\ t \in Fresh(n)
        /\ Len(messages[s]) \in Nat
    BY <1>6, AnswerUses
  <2>2. /\ s \in Session
        /\ DOMAIN tools' = DOMAIN tools \cup Fresh(n)
        /\ \A t \in DOMAIN tools : tools'[t] = tools[t]
        /\ \A t \in Fresh(n) : t \notin DOMAIN tools /\ tools'[t].session = s
    BY <1>6 DEF AnswerDoes
  <2>3. ASSUME NEW r \in Session, NEW i \in Nat, NEW t \in Nat,
               Uses(messages'[r], i, t)
        PROVE  tools'[t].session = r
    <3>1. CASE Uses(messages[r], i, t)
      BY <1>0, <2>2, <3>1 DEF UsesInv, OfItsSession
    <3>2. CASE r = s /\ t \in Fresh(n)
      BY <2>2, <3>2
    <3> QED
      BY <2>1, <2>3, <3>1, <3>2
  <2>4. ASSUME NEW r \in Session, NEW i \in Nat, NEW j \in Nat, NEW t \in Nat,
               Uses(messages'[r], i, t), Uses(messages'[r], j, t)
        PROVE  i = j
    <3>1. CASE t \in DOMAIN tools
      <4>1. Uses(messages[r], i, t) /\ Uses(messages[r], j, t)
        BY <2>1, <2>2, <2>4, <3>1
      <4> QED
        BY <4>1 DEF UsesInv, UsedOnce
    <3>2. CASE t \notin DOMAIN tools
      <4>1. ~Uses(messages[r], i, t) /\ ~Uses(messages[r], j, t)
        BY <1>0, <3>2
      <4>2. \A k : Uses(messages'[r], k, t) =>
              Uses(messages[r], k, t) \/ k = Len(messages[s]) + 1
        BY <2>1
      <4> QED
        BY <2>4, <4>1, <4>2
    <3> QED
      BY <3>1, <3>2
  <2>5. ASSUME NEW t \in DOMAIN tools'
        PROVE  \E i \in Nat : Uses(messages'[tools'[t].session], i, t)
    <3>1. CASE t \in DOMAIN tools
      <4>1. PICK i \in Nat : Uses(messages[tools[t].session], i, t)
        BY <3>1 DEF UsesInv, Used
      <4>2. tools[t] \in Tool
        BY <3>1, TypesOf DEF Types
      <4>3. tools'[t].session \in Session /\ tools'[t].session = tools[t].session
        BY <2>2, <3>1, <4>2 DEF Tool
      <4> QED
        BY <2>1, <4>1, <4>3
    <3>2. CASE t \in Fresh(n)
      <4>1. tools'[t].session = s /\ Len(messages[s]) + 1 \in Nat
        BY <2>1, <2>2, <3>2
      <4>2. Uses(messages'[s], Len(messages[s]) + 1, t)
        BY <2>1, <2>2, <3>2
      <4> QED
        BY <4>1, <4>2
    <3> QED
      BY <2>2, <3>1, <3>2
  <2> QED
    BY <2>3, <2>4, <2>5 DEF UsesInv, OfItsSession, UsedOnce, Used
<1> QED
  BY <1>2, <1>3, <1>4, <1>5, <1>6, StepCases

(* The event of a result names a tool that is over and has none yet.         *)
LEMMA ResultIsNew ==
  ASSUME TypeOK, QueueInv, run, Event.kind = "ToolResult"
  PROVE  /\ tools[Event.tool].status = "over"
         /\ \A s \in Session, j \in Nat : ~Answers(messages[s], j, Event.tool)
<1>1. PICK k \in DOMAIN Queue : Event = Queue[k]
  BY QueueTaken
<1> QED
  BY <1>1 DEF QueueInv, Fine

LEMMA AnswersStep ==
  ASSUME TypeOK, QueueInv, UsesInv, AnswersInv, [Next]_vars
  PROVE  AnswersInv'
<1>0. \A s \in Session, i, t \in Nat : Answers(messages[s], i, t) =>
        t \in DOMAIN tools /\ i \in 1 .. Len(messages[s]) /\ Len(messages[s]) \in Nat
  BY NamesTools
<1>1. ASSUME /\ \A s \in Session : \A i, t :
                  /\ Answers(messages'[s], i, t) <=> Answers(messages[s], i, t)
                  /\ Uses(messages[s], i, t) => Uses(messages'[s], i, t)
             /\ \A t \in DOMAIN tools :
                  tools[t].status = "over" => tools'[t].status = "over"
      PROVE  AnswersInv'
  BY <1>0, <1>1 DEF AnswersInv, AnswersUse, AnsweredOnce
<1>2. CASE Frame
  BY <1>1, <1>2 DEF Frame
<1>3. CASE HumanDoes(Event.session)
  <2>1. \A s \in Session : \A i, t :
          /\ Answers(messages'[s], i, t) <=> Answers(messages[s], i, t)
          /\ Uses(messages[s], i, t) => Uses(messages'[s], i, t)
    BY <1>3, HumanUses
  <2> QED
    BY <1>1, <1>3, <2>1 DEF HumanDoes
<1>4. CASE ShutdownDoes
  BY <1>1, <1>4 DEF ShutdownDoes
<1>5. ASSUME NEW c, NEW s, NEW n, AnswerDoes(c, s, n)
      PROVE  AnswersInv'
  <2>1. \A r \in Session : \A i, t :
          /\ Answers(messages'[r], i, t) <=> Answers(messages[r], i, t)
          /\ Uses(messages[r], i, t) => Uses(messages'[r], i, t)
    BY <1>5, AnswerUses
  <2> QED
    BY <1>1, <1>5, <2>1 DEF AnswerDoes
<1>6. ASSUME run, handle_tool_result(Event),
             ResultDoes(Event.tool, tools[Event.tool].session)
      PROVE  AnswersInv'
  <2> DEFINE t == Event.tool
             s == tools[t].session
             p == Place(messages[s])
  <2>1. /\ tools[t].status = "over"
        /\ \A r \in Session, j \in Nat : ~Answers(messages[r], j, t)
    BY <1>6, ResultIsNew DEF handle_tool_result
  <2>2. s \in Session /\ t \in DOMAIN tools /\ tools' = tools
    BY <1>6 DEF ResultDoes
  <2>3. /\ \A r \in Session : \A i, u :
              /\ Uses(messages'[r], i, u) <=> Uses(messages[r], i, u)
              /\ Answers(messages'[r], i, u) <=>
                   Answers(messages[r], i, u) \/ (r = s /\ i = p /\ u = t)
        /\ p \in Nat
        /\ \A i \in DOMAIN messages[s] : messages'[s][i].role = messages[s][i].role
        /\ DOMAIN messages'[s] = DOMAIN messages[s] \cup {p}
        /\ Len(messages'[s]) = p
        /\ messages'[s][p].role = "results"
    BY <1>6, <2>2, ResultUses
  <2> HIDE DEF t, s, p
  <2>4. \E j \in 1 .. p - 1 : Uses(messages[s], j, t)
    <3>1. PICK j \in Nat : Uses(messages[s], j, t)
      BY <2>2 DEF UsesInv, Used, s
    <3>2. j \in 1 .. Len(messages[s]) /\ Len(messages[s]) \in Nat
      BY <2>2, <3>1, NamesTools
    <3>3. Len(messages[s]) <= p
      BY <3>2 DEF p, Place
    <3>4. j # p
      BY <2>3, <3>1 DEF Uses
    <3> QED
      BY <2>3, <3>1, <3>2, <3>3, <3>4
  <2>5. \A r \in Session, i, u \in Nat : Answers(messages'[r], i, u) =>
          /\ tools'[u].status = "over"
          /\ \E j \in 1 .. i - 1 : Uses(messages'[r], j, u)
    <3> SUFFICES ASSUME NEW r \in Session, NEW i \in Nat, NEW u \in Nat,
                        Answers(messages'[r], i, u)
                 PROVE  /\ tools'[u].status = "over"
                        /\ \E j \in 1 .. i - 1 : Uses(messages'[r], j, u)
      OBVIOUS
    <3>1. CASE Answers(messages[r], i, u)
      <4>1. tools[u].status = "over"
        BY <3>1, Zenon DEF AnswersInv, AnswersUse
      <4>2. PICK j \in 1 .. i - 1 : Uses(messages[r], j, u)
        BY <3>1, Zenon DEF AnswersInv, AnswersUse
      <4>3. Uses(messages'[r], j, u)
        BY <2>3, <4>2, Zenon
      <4> QED
        BY <2>2, <4>1, <4>2, <4>3
    <3>2. CASE r = s /\ i = p /\ u = t
      <4>1. PICK j \in 1 .. i - 1 : Uses(messages[r], j, u)
        BY <2>4, <3>2
      <4>2. Uses(messages'[r], j, u)
        BY <2>3, <4>1, Zenon
      <4> QED
        BY <2>1, <2>2, <3>2, <4>1, <4>2
    <3> QED
      BY <2>3, <3>1, <3>2
  <2>6. ASSUME NEW r \in Session, NEW i \in Nat, NEW j \in Nat, NEW u \in Nat,
               Answers(messages'[r], i, u), Answers(messages'[r], j, u)
        PROVE  i = j
    <3>1. CASE u = t
      <4>1. ~Answers(messages[r], i, t) /\ ~Answers(messages[r], j, t)
        BY <2>1
      <4>2. \A n \in Nat : Answers(messages'[r], n, t) =>
              Answers(messages[r], n, t) \/ n = p
        BY <2>3, Zenon
      <4> QED
        BY <2>6, <3>1, <4>1, <4>2, Zenon
    <3>2. CASE u # t
      <4>1. Answers(messages[r], i, u) /\ Answers(messages[r], j, u)
        BY <2>3, <2>6, <3>2
      <4> QED
        BY <4>1 DEF AnswersInv, AnsweredOnce
    <3> QED
      BY <3>1, <3>2
  <2> QED
    BY <2>5, <2>6 DEF AnswersInv, AnswersUse, AnsweredOnce
<1> QED
  BY <1>2, <1>3, <1>4, <1>5, <1>6, StepCases

LEMMA QueuedShape ==
  ASSUME TypeOK
  PROVE  /\ Queue \in Seq(Events)
         /\ \A i \in DOMAIN Queue : Queue[i] \in Events
<1>1. buffer \in Seq(Events) /\ channel \in Seq(Events)
  BY DEF TypeOK
<1>2. Queue \in Seq(Events)
  BY <1>1, QueueProperties
<1> QED
  BY <1>2

(* What is fine about an event stays so while nothing new is written down.   *)
LEMMA StaysFine ==
  ASSUME TypeOK, NEW e \in Events, Fine(e),
         \A c \in DOMAIN calls : calls[c].status = "over" => calls'[c].status = "over",
         \A t \in DOMAIN tools : tools[t].status = "over" => tools'[t].status = "over",
         e.kind = "ToolResult" => \A s \in Session, j \in Nat :
           Answers(messages'[s], j, e.tool) => Answers(messages[s], j, e.tool)
  PROVE  /\ e.kind = "LlmComplete" => calls'[e.call].status = "over"
         /\ e.kind = "ToolResult" =>
              /\ tools'[e.tool].status = "over"
              /\ \A s \in Session, j \in Nat : ~Answers(messages'[s], j, e.tool)
<1>1. /\ e.kind = "LlmComplete" => e.call \in DOMAIN calls
      /\ e.kind = "ToolResult" => e.tool \in DOMAIN tools
  BY EventShape
<1> QED
  BY <1>1 DEF Fine

LEMMA SameQueue ==
  ASSUME TypeOK, QueueInv, buffer' = buffer, channel' = channel,
         messages' = messages, tools' = tools,
         \A c \in DOMAIN calls : calls[c].status = "over" => calls'[c].status = "over"
  PROVE  QueueInv'
<1>1. Queue' = Queue
  BY DEF Queue
<1>2. \A i \in DOMAIN Queue : Queue[i] \in Events
  BY QueuedShape
<1>3. \A i \in DOMAIN Queue : Fine(Queue[i])'
  BY <1>1, <1>2, StaysFine DEF QueueInv, Fine
<1> QED
  BY <1>1, <1>3 DEF QueueInv

(* An event is sent that nothing like it is queued for yet.                  *)
LEMMA LongerQueue ==
  ASSUME TypeOK, QueueInv, NEW e \in Events, Submit(e), buffer' = buffer,
         messages' = messages,
         \A c \in DOMAIN calls : calls[c].status = "over" => calls'[c].status = "over",
         \A t \in DOMAIN tools : tools[t].status = "over" => tools'[t].status = "over",
         Fine(e)', e.kind = "ToolResult" => \A i \in DOMAIN Queue : Queue[i] # e
  PROVE  QueueInv'
<1>1. buffer \in Seq(Events) /\ channel \in Seq(Events)
  BY DEF TypeOK
<1>2. /\ Queue \in Seq(Events) /\ Queue' \in Seq(Events)
      /\ Len(Queue') = Len(Queue) + 1
      /\ \A i \in DOMAIN Queue : Queue'[i] = Queue[i]
      /\ Queue'[Len(Queue) + 1] = e
  BY <1>1, SubmitQueues
<1>3. DOMAIN Queue' = DOMAIN Queue \cup {Len(Queue) + 1}
  BY <1>2
<1>4. \A i \in DOMAIN Queue : Queue[i] \in Events
  BY QueuedShape
<1>5. ASSUME NEW i \in DOMAIN Queue'
      PROVE  Fine(Queue[i])'
  <2>1. CASE i \in DOMAIN Queue
    <3>1. Queue'[i] = Queue[i] /\ Queue[i] \in Events /\ Fine(Queue[i])
      BY <1>2, <1>4, <2>1 DEF QueueInv
    <3> QED
      BY <3>1, StaysFine DEF Fine
  <2>2. CASE i = Len(Queue) + 1
    <3>1. Queue'[i] = e
      BY <1>2, <2>2
    <3> QED
      BY <3>1 DEF Fine
  <2> QED
    BY <1>3, <2>1, <2>2
<1>6. ASSUME NEW i \in DOMAIN Queue', NEW j \in DOMAIN Queue',
             Queue'[i].kind = "ToolResult", Queue'[j] = Queue'[i]
      PROVE  i = j
  <2>1. CASE i \in DOMAIN Queue /\ j \in DOMAIN Queue
    BY <1>2, <1>6, <2>1 DEF QueueInv
  <2>2. CASE i = Len(Queue) + 1 \/ j = Len(Queue) + 1
    BY <1>2, <1>3, <1>6, <2>2
  <2> QED
    BY <1>3, <2>1, <2>2
<1> QED
  BY <1>5, <1>6 DEF QueueInv

(* An event is taken, and only its own result is written down.               *)
LEMMA ShorterQueue ==
  ASSUME TypeOK, QueueInv, run,
         \A c \in DOMAIN calls : calls[c].status = "over" => calls'[c].status = "over",
         \A t \in DOMAIN tools : tools[t].status = "over" => tools'[t].status = "over",
         \A s \in Session, j \in Nat, t \in DOMAIN tools : Answers(messages'[s], j, t) =>
           \/ Answers(messages[s], j, t)
           \/ Event.kind = "ToolResult" /\ t = Event.tool
  PROVE  QueueInv'
<1>1. PICK k \in DOMAIN Queue :
           /\ Event = Queue[k]
           /\ \A i \in DOMAIN Queue' : \E j \in DOMAIN Queue \ {k} :
                Queue'[i] = Queue[j] /\ j = IF i < k THEN i ELSE i + 1
  BY QueueTaken
<1>2. /\ \A i \in DOMAIN Queue : Queue[i] \in Events
      /\ k \in Nat
  BY QueuedShape
<1>3. ASSUME NEW i \in DOMAIN Queue'
      PROVE  Fine(Queue[i])'
  <2>1. PICK j \in DOMAIN Queue \ {k} : Queue'[i] = Queue[j]
    BY <1>1
  <2> DEFINE e == Queue[j]
  <2>2. e \in Events /\ Fine(e) /\ Event \in Events
    BY <1>1, <1>2 DEF QueueInv
  <2>3. e.kind = "ToolResult" => e # Event
    BY <1>1 DEF QueueInv
  <2>4. e.kind = "ToolResult" =>
          e.tool \in DOMAIN tools /\ e = [kind |-> "ToolResult", tool |-> e.tool]
    BY <2>2, EventShape
  <2>5. Event.kind = "ToolResult" => Event = [kind |-> "ToolResult", tool |-> Event.tool]
    BY <2>2, EventShape
  <2> HIDE DEF e
  <2>6. e.kind = "ToolResult" /\ Event.kind = "ToolResult" => e.tool # Event.tool
    BY <2>3, <2>4, <2>5
  <2>7. e.kind = "ToolResult" => \A s \in Session, n \in Nat :
           Answers(messages'[s], n, e.tool) => Answers(messages[s], n, e.tool)
    BY <2>4, <2>6
  <2>8. /\ e.kind = "LlmComplete" => calls'[e.call].status = "over"
        /\ e.kind = "ToolResult" =>
             /\ tools'[e.tool].status = "over"
             /\ \A s \in Session, n \in Nat : ~Answers(messages'[s], n, e.tool)
    BY <2>2, <2>7, StaysFine
  <2>9. Queue'[i] = e
    BY <2>1 DEF e
  <2> QED
    BY <2>8, <2>9 DEF Fine
<1>4. ASSUME NEW i \in DOMAIN Queue', NEW j \in DOMAIN Queue',
             Queue'[i].kind = "ToolResult", Queue'[j] = Queue'[i]
      PROVE  i = j
  <2>1. /\ \E n \in DOMAIN Queue : Queue'[i] = Queue[n] /\ n = IF i < k THEN i ELSE i + 1
        /\ \E n \in DOMAIN Queue : Queue'[j] = Queue[n] /\ n = IF j < k THEN j ELSE j + 1
    BY <1>1
  <2>2. (IF i < k THEN i ELSE i + 1) = (IF j < k THEN j ELSE j + 1)
    BY <1>4, <2>1 DEF QueueInv
  <2>3. i \in Nat /\ j \in Nat
    <3>1. buffer' \in Seq(Events) /\ channel' \in Seq(Events)
      BY Received
    <3>2. Queue' \in Seq(Events)
      BY <3>1, ConcatProperties DEF Queue
    <3> QED
      BY <3>2
  <2> QED
    BY <1>2, <2>2, <2>3
<1> QED
  BY <1>3, <1>4 DEF QueueInv

LEMMA QueueStep ==
  ASSUME TypeOK, QueueInv, AnswersInv, [Next]_vars
  PROVE  QueueInv'
<1>1. CASE UNCHANGED vars
  BY <1>1, SameQueue DEF vars
<1>2. CASE \E s \in Session, kind \in {"HumanMessage", "CascadeDelta"} :
             SendMessage(s, kind)
  <2>1. PICK s \in Session, kind \in {"HumanMessage", "CascadeDelta"} :
          SendMessage(s, kind)
    BY <1>2
  <2> DEFINE e == [kind |-> kind, session |-> s]
  <2>2. e \in Events /\ e.kind \notin {"LlmComplete", "ToolResult"}
    BY DEF Events
  <2>3. /\ Submit(e) /\ buffer' = buffer /\ messages' = messages
        /\ calls' = calls /\ tools' = tools
    BY <2>1 DEF SendMessage, loop, tasks
  <2> HIDE DEF e
  <2>4. Fine(e)'
    BY <2>2 DEF Fine
  <2> QED
    BY <2>2, <2>3, <2>4, LongerQueue
<1>3. CASE \E kind \in {"Injection", "Wake", "Sleep", "Shutdown"} : SendNotice(kind)
  <2>1. PICK kind \in {"Injection", "Wake", "Sleep", "Shutdown"} : SendNotice(kind)
    BY <1>3
  <2> DEFINE e == [kind |-> kind]
  <2>2. e \in Events /\ e.kind \notin {"LlmComplete", "ToolResult"}
    BY DEF Events
  <2>3. /\ Submit(e) /\ buffer' = buffer /\ messages' = messages
        /\ calls' = calls /\ tools' = tools
    BY <2>1 DEF SendNotice, loop, tasks
  <2> HIDE DEF e
  <2>4. Fine(e)'
    BY <2>2 DEF Fine
  <2> QED
    BY <2>2, <2>3, <2>4, LongerQueue
<1>4. ASSUME NEW c \in DOMAIN calls, StreamError(c)
      PROVE  QueueInv'
  BY <1>4, SameQueue DEF StreamError, loop, tasks
<1>5. ASSUME NEW c \in DOMAIN calls, Fail(c)
      PROVE  QueueInv'
  <2>1. calls' = [calls EXCEPT ![c].status = "failed"] /\ calls[c].status = "running"
    BY <1>5 DEF Fail
  <2>2. \A d \in DOMAIN calls : d # c => calls'[d] = calls[d]
    BY <2>1, CallEnds
  <2> QED
    BY <1>5, <2>1, <2>2, SameQueue DEF Fail, loop
<1>6. ASSUME NEW c \in DOMAIN calls, Drop(c)
      PROVE  QueueInv'
  <2>1. calls' = [calls EXCEPT ![c].status = "over"]
    BY <1>6 DEF Drop
  <2>2. /\ \A d \in DOMAIN calls : d # c => calls'[d] = calls[d]
        /\ calls'[c].status = "over"
    BY <2>1, CallEnds
  <2>3. UNCHANGED <<buffer, channel, messages, tools>>
    BY <1>6 DEF Drop, loop
  <2> QED
    BY <2>2, <2>3, SameQueue
<1>7. ASSUME NEW c \in DOMAIN calls, NEW reply \in Replies, Complete(c, reply)
      PROVE  QueueInv'
  <2> DEFINE e == [kind |-> "LlmComplete", call |-> c, reply |-> reply]
  <2>1. calls' = [calls EXCEPT ![c].status = "over"]
    BY <1>7 DEF Complete
  <2>2. /\ \A d \in DOMAIN calls : d # c => calls'[d] = calls[d]
        /\ calls'[c].status = "over"
    BY <2>1, CallEnds
  <2>3. e \in Events /\ e.kind = "LlmComplete" /\ e.call = c
    BY DEF Events
  <2>4. /\ Submit(e) /\ buffer' = buffer /\ messages' = messages /\ tools' = tools
    BY <1>7 DEF Complete, loop
  <2> HIDE DEF e
  <2>5. Fine(e)'
    BY <2>2, <2>3 DEF Fine
  <2> QED
    BY <2>2, <2>3, <2>4, <2>5, LongerQueue
<1>8. ASSUME NEW t \in DOMAIN tools, FinishTool(t)
      PROVE  QueueInv'
  <2> DEFINE e == [kind |-> "ToolResult", tool |-> t]
  <2>1. /\ \A u \in DOMAIN tools : u # t => tools'[u] = tools[u]
        /\ tools[t].status = "running" /\ tools'[t].status = "over"
    BY <1>8, ToolEnds
  <2>2. e \in Events /\ e.kind = "ToolResult" /\ e.tool = t
    BY DEF Events
  <2>3. /\ Submit(e) /\ buffer' = buffer /\ messages' = messages /\ calls' = calls
    BY <1>8 DEF FinishTool, loop
  <2> HIDE DEF e
  <2>4. t \in Nat
    BY TypesOf DEF Types
  <2>5. Fine(e)'
    BY <2>1, <2>2, <2>3, <2>4 DEF Fine, AnswersInv, AnswersUse
  <2>6. \A i \in DOMAIN Queue : Queue[i] # e
    BY <2>1, <2>2 DEF QueueInv, Fine
  <2> QED
    BY <2>1, <2>2, <2>3, <2>5, <2>6, LongerQueue
<1>9. CASE run
  <2>1. CASE Frame /\ calls' = calls /\ tools' = tools
    BY <1>9, <2>1, ShorterQueue DEF Frame
  <2>2. CASE HumanDoes(Event.session)
    <3>1. \A r \in Session : \A i, t :
            Answers(messages'[r], i, t) <=> Answers(messages[r], i, t)
      BY <2>2, HumanUses
    <3> QED
      BY <1>9, <2>2, <3>1, ShorterQueue DEF HumanDoes
  <2>3. CASE handle_tool_result(Event) /\ ResultDoes(Event.tool, tools[Event.tool].session)
    <3> DEFINE t == Event.tool
               s == tools[t].session
    <3>1. \A r \in Session : \A i, u : Answers(messages'[r], i, u) <=>
            Answers(messages[r], i, u) \/ (r = s /\ i = Place(messages[s]) /\ u = t)
      BY <2>3, ResultUses
    <3>2. Event.kind = "ToolResult" /\ tools' = tools
          /\ \A c \in DOMAIN calls : calls'[c] = calls[c]
      BY <2>3 DEF handle_tool_result, ResultDoes
    <3> HIDE DEF s
    <3>3. \A r \in Session, j \in Nat, u \in DOMAIN tools : Answers(messages'[r], j, u) =>
           \/ Answers(messages[r], j, u)
           \/ Event.kind = "ToolResult" /\ u = Event.tool
      BY <3>1, <3>2
    <3> QED
      BY <1>9, <3>2, <3>3, ShorterQueue
  <2>4. ASSUME NEW c, NEW s, NEW n, AnswerDoes(c, s, n)
        PROVE  QueueInv'
    <3>1. \A r \in Session : \A i, t :
            Answers(messages'[r], i, t) <=> Answers(messages[r], i, t)
      BY <2>4, AnswerUses
    <3>2. calls' = calls /\ \A t \in DOMAIN tools : tools'[t] = tools[t]
      BY <2>4 DEF AnswerDoes
    <3> QED
      BY <1>9, <3>1, <3>2, ShorterQueue
  <2>5. CASE ShutdownDoes
    BY <1>9, <2>5, ShorterQueue DEF ShutdownDoes
  <2> QED
    BY <1>9, <2>1, <2>2, <2>3, <2>4, <2>5, RunCases
<1> QED
  BY <1>1, <1>2, <1>3, <1>4, <1>5, <1>6, <1>7, <1>8, <1>9 DEF Next, Clients, EndOfCall

-----------------------------------------------------------------------------
(* What the loop waits for.                                                  *)

Waiting(e, b, c) == Holds(b, e) \/ Holds(c, e)

Answer(c, reply) == [kind |-> "LlmComplete", call |-> c, reply |-> reply]
Result(t) == [kind |-> "ToolResult", tool |-> t]

CallComing ==
  current # 0 =>
    \/ calls[current].status = "running" /\ ~calls[current].cancelled
    \/ calls[current].status = "failed"
    \/ \E reply \in Replies : Waiting(Answer(current, reply), buffer, channel)
ToolsComing ==
  \A t \in active : \/ tools[t].status = "running"
                    \/ Waiting(Result(t), buffer, channel)

LEMMA AwaitedIs == AwaitedIsComing <=> TypeOK /\ CallComing /\ ToolsComing
<1>1. \A e : Queued(e) <=> Waiting(e, buffer, channel)
  BY DEF Queued, Waiting, Holds
<1> QED
  BY <1>1 DEF AwaitedIsComing, CallComing, ToolsComing, Answer, Result

LEMMA AwaitedIsNext == AwaitedIsComing' <=> TypeOK' /\ CallComing' /\ ToolsComing'
<1>1. AwaitedIsComing <=> TypeOK /\ CallComing /\ ToolsComing
  BY AwaitedIs
<1> QED
  BY AwaitedIs, PTL

LEMMA WaitsOn ==
  ASSUME TypeOK, run
  PROVE  \A e : Waiting(e, buffer, channel) /\ e # Event => Waiting(e, buffer', channel')
<1> SUFFICES ASSUME NEW e, Waiting(e, buffer, channel), e # Event
             PROVE  Waiting(e, buffer', channel')
  OBVIOUS
<1>1. PICK k \in DOMAIN Queue :
           /\ Event = Queue[k]
           /\ \A j \in DOMAIN Queue \ {k} : \E i \in DOMAIN Queue' :
                Queue'[i] = Queue[j]
  BY QueueTaken
<1>2. buffer \in Seq(Events) /\ channel \in Seq(Events)
  BY DEF TypeOK
<1>3. Holds(buffer \o channel, e) <=> Holds(buffer, e) \/ Holds(channel, e)
  BY <1>2, InConcat
<1>4. PICK j \in DOMAIN Queue : Queue[j] = e
  BY <1>3 DEF Waiting, Holds, Queue
<1>5. PICK i \in DOMAIN Queue' : Queue'[i] = e
  BY <1>1, <1>4
<1>6. buffer' \in Seq(Events) /\ channel' \in Seq(Events)
  BY Received
<1>7. Holds(buffer' \o channel', e) <=> Holds(buffer', e) \/ Holds(channel', e)
  BY <1>6, InConcat
<1>8. Queue' = buffer' \o channel'
  BY DEF Queue
<1> QED
  BY <1>5, <1>7, <1>8 DEF Waiting, Holds

LEMMA WaitsBehind ==
  ASSUME TypeOK, NEW event, Submit(event), buffer' = buffer
  PROVE  /\ \A e : Waiting(e, buffer, channel) => Waiting(e, buffer', channel')
         /\ Waiting(event, buffer', channel')
<1>1. channel \in Seq(Events \cup {event}) /\ channel' = Append(channel, event)
  BY SeqMonotonic DEF TypeOK, Submit
<1>2. /\ DOMAIN channel' = DOMAIN channel \cup {Len(channel) + 1}
      /\ \A i \in DOMAIN channel : channel'[i] = channel[i]
      /\ channel'[Len(channel) + 1] = event
  BY <1>1
<1> QED
  BY <1>2 DEF Waiting, Holds

(* A queued answer is one of a call that is over.                            *)
LEMMA AnsweredIsOver ==
  ASSUME TypeOK, QueueInv, NEW c, NEW reply,
         Waiting(Answer(c, reply), buffer, channel)
  PROVE  calls[c].status = "over"
<1> DEFINE e == Answer(c, reply)
<1>1. buffer \in Seq(Events) /\ channel \in Seq(Events)
  BY DEF TypeOK
<1>2. Holds(buffer \o channel, e) <=> Holds(buffer, e) \/ Holds(channel, e)
  BY <1>1, InConcat
<1>3. PICK j \in DOMAIN Queue : Queue[j] = e
  BY <1>2 DEF Waiting, Holds, Queue
<1>4. e.kind = "LlmComplete" /\ e.call = c
  BY DEF Answer
<1> QED
  BY <1>3, <1>4 DEF QueueInv, Fine

LEMMA TakenIsOver ==
  ASSUME TypeOK, QueueInv, run, Event.kind = "LlmComplete"
  PROVE  calls[Event.call].status = "over"
<1>1. PICK k \in DOMAIN Queue : Event = Queue[k]
  BY QueueTaken
<1> QED
  BY <1>1 DEF QueueInv, Fine

LEMMA OneThingStep ==
  ASSUME TypeOK, QueueInv, OneThingAtATime, [Next]_vars
  PROVE  OneThingAtATime'
<1>0. DOMAIN calls \subseteq Nat \ {0} /\ \A c \in DOMAIN calls : calls[c].cancelled \in BOOLEAN
  <2>1. calls \in Seq(Call)
    BY TypesOf DEF Types
  <2>2. \A c \in DOMAIN calls : c \in Nat \ {0} /\ calls[c] \in Call
    BY <2>1
  <2> QED
    BY <2>2 DEF Call
<1>1. CASE Frame
  <2>1. current' # 0 => active' = {}
    BY <1>1 DEF Frame, OneThingAtATime
  <2>2. ASSUME NEW c \in DOMAIN calls', calls'[c].status = "running", ~calls'[c].cancelled
        PROVE  c = current'
    BY <1>1, <2>2 DEF Frame, OneThingAtATime
  <2> QED
    BY <2>1, <2>2 DEF OneThingAtATime
<1>2. ASSUME HumanDoes(Event.session)
      PROVE  OneThingAtATime'
  <2>1. ASSUME NEW c \in DOMAIN calls', calls'[c].status = "running", ~calls'[c].cancelled
        PROVE  c = current'
    <3>1. CASE c \in DOMAIN calls
      <4>1. c # current
        BY <1>2, <2>1, <3>1 DEF HumanDoes
      <4>2. calls[c].status = "running" /\ ~calls[c].cancelled
        BY <1>2, <2>1, <3>1, <4>1 DEF HumanDoes
      <4> QED
        BY <3>1, <4>1, <4>2 DEF OneThingAtATime
    <3>2. CASE c \notin DOMAIN calls
      BY <1>2, <3>2 DEF HumanDoes
    <3> QED
      BY <3>1, <3>2
  <2>2. active' = {}
    BY <1>2 DEF HumanDoes
  <2> QED
    BY <2>1, <2>2 DEF OneThingAtATime
<1>3. ASSUME NEW t, NEW s, ResultDoes(t, s)
      PROVE  OneThingAtATime'
  <2>1. active' = active \ {t} /\ \A c \in DOMAIN calls : calls'[c] = calls[c]
    BY <1>3 DEF ResultDoes
  <2>2. CASE current' = current /\ calls' = calls
    BY <2>1, <2>2 DEF OneThingAtATime
  <2>3. CASE /\ active \ {t} = {} /\ current = 0
             /\ DOMAIN calls' = DOMAIN calls \cup {current'}
    <3>1. ASSUME NEW c \in DOMAIN calls', calls'[c].status = "running",
                 ~calls'[c].cancelled
          PROVE  c = current'
      <4>1. c \in DOMAIN calls => c = current
        BY <2>1, <3>1 DEF OneThingAtATime
      <4> QED
        BY <1>0, <2>3, <4>1
    <3> QED
      BY <2>1, <2>3, <3>1 DEF OneThingAtATime
  <2> QED
    BY <1>3, <2>2, <2>3 DEF ResultDoes
<1>4. ASSUME run, handle_llm_complete(Event), NEW c, c = Event.call, NEW s, NEW n,
             AnswerDoes(c, s, n)
      PROVE  OneThingAtATime'
  <2>1. c = current /\ current' = 0 /\ calls' = calls
    BY <1>4 DEF AnswerDoes
  <2>2. calls[current].status = "over"
    BY <1>4, <2>1, TakenIsOver DEF handle_llm_complete
  <2> QED
    BY <2>1, <2>2 DEF OneThingAtATime
<1>5. ASSUME ShutdownDoes
      PROVE  OneThingAtATime'
  <2>1. ASSUME NEW c \in DOMAIN calls', calls'[c].status = "running", ~calls'[c].cancelled
        PROVE  FALSE
    <3>1. c \in DOMAIN calls /\ c # current
      BY <1>5, <2>1 DEF ShutdownDoes
    <3>2. calls[c].status = "running" /\ ~calls[c].cancelled
      BY <1>5, <2>1, <3>1 DEF ShutdownDoes
    <3> QED
      BY <3>1, <3>2 DEF OneThingAtATime
  <2>2. active' = {}
    BY <1>5 DEF ShutdownDoes
  <2> QED
    BY <2>1, <2>2 DEF OneThingAtATime
<1> QED
  BY <1>1, <1>2, <1>3, <1>4, <1>5, StepCases

LEMMA CallComingStep ==
  ASSUME TypeOK, QueueInv, CallComing, [Next]_vars
  PROVE  CallComing'
<1> DEFINE Come(b, c) == \E reply \in Replies : Waiting(Answer(current, reply), b, c)
<1>0. current # 0 => current \in DOMAIN calls
  BY DEF TypeOK
<1>1. ASSUME current' = current, calls' = calls,
             \A reply \in Replies : Waiting(Answer(current, reply), buffer, channel) =>
               Waiting(Answer(current, reply), buffer', channel')
      PROVE  CallComing'
  BY <1>1 DEF CallComing
<1>2. CASE UNCHANGED <<current, calls, buffer, channel>>
  BY <1>1, <1>2
<1>3. ASSUME NEW event, Submit(event), UNCHANGED <<current, calls, buffer>>
      PROVE  CallComing'
  BY <1>1, <1>3, WaitsBehind
<1>4. CASE Clients
  BY <1>3, <1>4 DEF Clients, SendMessage, SendNotice, loop, tasks
<1>5. ASSUME NEW c \in DOMAIN calls, Fail(c) \/ Drop(c)
      PROVE  CallComing'
  <2>1. PICK status \in {"over", "failed"} :
          /\ calls' = [calls EXCEPT ![c].status = status]
          /\ status = "over" => calls[c].cancelled
    BY <1>5 DEF Fail, Drop
  <2>2. /\ \A d \in DOMAIN calls : d # c => calls'[d] = calls[d]
        /\ calls'[c].status = status
    BY <2>1, CallEnds
  <2>3. UNCHANGED <<current, buffer, channel>> /\ calls[c].status = "running"
    BY <1>5 DEF Fail, Drop, loop
  <2>4. CASE current = c
    <3>1. ~Come(buffer, channel)
      BY <2>3, <2>4, AnsweredIsOver
    <3>2. current # 0 => status = "failed"
      BY <2>1, <2>3, <2>4, <3>1 DEF CallComing
    <3> QED
      BY <2>2, <2>3, <2>4, <3>2 DEF CallComing
  <2>5. CASE current # c
    <3>1. current # 0 => calls'[current] = calls[current]
      BY <1>0, <2>2, <2>5
    <3> QED
      BY <2>3, <3>1 DEF CallComing
  <2> QED
    BY <2>4, <2>5
<1>6. ASSUME NEW c \in DOMAIN calls, NEW reply \in Replies, Complete(c, reply)
      PROVE  CallComing'
  <2>1. calls' = [calls EXCEPT ![c].status = "over"]
    BY <1>6 DEF Complete
  <2>2. \A d \in DOMAIN calls : d # c => calls'[d] = calls[d]
    BY <2>1, CallEnds
  <2>3. /\ UNCHANGED <<current, buffer>>
        /\ Submit(Answer(c, reply))
    BY <1>6 DEF Complete, loop, Answer
  <2>4. /\ \A e : Waiting(e, buffer, channel) => Waiting(e, buffer', channel')
        /\ Waiting(Answer(c, reply), buffer', channel')
    BY <2>3, WaitsBehind
  <2>5. CASE current = c
    BY <2>3, <2>4, <2>5 DEF CallComing
  <2>6. CASE current # c
    <3>1. current # 0 => calls'[current] = calls[current]
      BY <1>0, <2>2, <2>6
    <3> QED
      BY <2>3, <2>4, <3>1 DEF CallComing
  <2> QED
    BY <2>5, <2>6
<1>7. ASSUME NEW t \in DOMAIN tools, FinishTool(t)
      PROVE  CallComing'
  BY <1>3, <1>7 DEF FinishTool, loop
<1>8. CASE run
  <2>1. \A e : Waiting(e, buffer, channel) /\ e # Event => Waiting(e, buffer', channel')
    BY <1>8, WaitsOn
  <2>2. ASSUME current' = current, calls' = calls,
               Event.kind # "LlmComplete" \/ Event.call # current
        PROVE  CallComing'
    <3>1. \A reply \in Replies : Answer(current, reply) # Event
      BY <2>2 DEF Answer
    <3> QED
      BY <1>1, <2>1, <2>2, <3>1
  <2>3. CASE HumanDoes(Event.session)
    BY <2>3 DEF HumanDoes, CallComing
  <2>4. CASE handle_tool_result(Event) /\ ResultDoes(Event.tool, tools[Event.tool].session)
    <3>1. CASE current' = current /\ calls' = calls
      BY <2>2, <2>4, <3>1 DEF handle_tool_result
    <3>2. CASE calls'[current'].status = "running" /\ calls'[current'].cancelled = FALSE
      BY <3>2 DEF CallComing
    <3> QED
      BY <2>4, <3>1, <3>2 DEF ResultDoes
  <2>5. CASE current' = 0
    BY <2>5 DEF CallComing
  <2>6. CASE /\ Frame /\ calls' = calls
             /\ Event.kind # "LlmComplete" \/ Event.call # current
    BY <2>2, <2>6 DEF Frame
  <2> QED
    BY <1>8, <2>3, <2>4, <2>5, <2>6, RunCases DEF AnswerDoes, ShutdownDoes
<1> QED
  BY <1>2, <1>4, <1>5, <1>6, <1>7, <1>8
     DEF Next, EndOfCall, StreamError, vars, loop, tasks

LEMMA ToolsComingStep ==
  ASSUME TypeOK, ToolsComing, [Next]_vars
  PROVE  ToolsComing'
<1>0. active \subseteq DOMAIN tools
  BY DEF TypeOK
<1>1. ASSUME active' \subseteq active, \A t \in active' : tools'[t] = tools[t],
             \A t \in active' : Waiting(Result(t), buffer, channel) =>
               Waiting(Result(t), buffer', channel')
      PROVE  ToolsComing'
  BY <1>1 DEF ToolsComing
<1>2. CASE UNCHANGED <<active, tools, buffer, channel>>
  BY <1>1, <1>2
<1>3. ASSUME NEW event, Submit(event), UNCHANGED <<active, tools, buffer>>
      PROVE  ToolsComing'
  BY <1>1, <1>3, WaitsBehind
<1>4. CASE Clients
  BY <1>3, <1>4 DEF Clients, SendMessage, SendNotice, loop, tasks
<1>5. ASSUME NEW c \in DOMAIN calls, NEW reply, Complete(c, reply)
      PROVE  ToolsComing'
  BY <1>3, <1>5 DEF Complete, loop
<1>6. ASSUME NEW t \in DOMAIN tools, FinishTool(t)
      PROVE  ToolsComing'
  <2>1. \A u \in DOMAIN tools : u # t => tools'[u] = tools[u]
    BY <1>6, ToolEnds
  <2>2. UNCHANGED <<active, buffer>> /\ Submit(Result(t))
    BY <1>6 DEF FinishTool, loop, Result
  <2>3. /\ \A e : Waiting(e, buffer, channel) => Waiting(e, buffer', channel')
        /\ Waiting(Result(t), buffer', channel')
    BY <2>2, WaitsBehind
  <2> QED
    BY <1>0, <2>1, <2>2, <2>3 DEF ToolsComing
<1>7. CASE run
  <2>1. \A e : Waiting(e, buffer, channel) /\ e # Event => Waiting(e, buffer', channel')
    BY <1>7, WaitsOn
  <2>2. ASSUME Event.kind # "ToolResult"
        PROVE  \A t : Waiting(Result(t), buffer, channel) =>
                 Waiting(Result(t), buffer', channel')
    <3>1. \A t : Result(t) # Event
      BY <2>2 DEF Result
    <3> QED
      BY <2>1, <3>1
  <2>3. CASE active' = {}
    BY <2>3 DEF ToolsComing
  <2>4. CASE handle_tool_result(Event) /\ ResultDoes(Event.tool, tools[Event.tool].session)
    <3>1. active' = active \ {Event.tool} /\ tools' = tools
      BY <2>4 DEF ResultDoes
    <3>2. \A t \in active' : Result(t) # Event
      BY <3>1 DEF Result
    <3> QED
      BY <1>1, <2>1, <3>1, <3>2
  <2>5. ASSUME NEW c, NEW s, NEW n, AnswerDoes(c, s, n), Event.kind = "LlmComplete"
        PROVE  ToolsComing'
    <3>1. /\ active' = active \cup Fresh(n)
          /\ \A t \in DOMAIN tools : tools'[t] = tools[t]
          /\ \A t \in Fresh(n) : tools'[t].status = "running"
      BY <2>5 DEF AnswerDoes
    <3>2. ASSUME NEW t \in active
          PROVE  tools'[t].status = "running" \/ Waiting(Result(t), buffer', channel')
      BY <1>0, <2>2, <2>5, <3>1 DEF ToolsComing
    <3> QED
      BY <3>1, <3>2 DEF ToolsComing
  <2>6. CASE Frame /\ tools' = tools /\ Event.kind # "ToolResult"
    BY <1>1, <2>2, <2>6 DEF Frame
  <2> QED
    BY <1>7, <2>3, <2>4, <2>5, <2>6, RunCases
       DEF HumanDoes, ShutdownDoes, handle_llm_complete
<1> QED
  BY <1>2, <1>4, <1>5, <1>6, <1>7
     DEF Next, EndOfCall, StreamError, Fail, Drop, vars, loop, tasks

-----------------------------------------------------------------------------
(* What the conversations wait for.                                          *)

(* A session that is alone has been alone: conversations only grow.          *)
AloneIn(m, s) == \A other \in Session \ {s} : m[other] = <<>>

LEMMA AloneBefore ==
  ASSUME TypeOK, [Next]_vars
  PROVE  \A s \in Session : AloneIn(messages', s) => AloneIn(messages, s)
<1>1. ASSUME \A r \in Session : messages'[r] = <<>> => messages[r] = <<>>
      PROVE  \A s \in Session : AloneIn(messages', s) => AloneIn(messages, s)
  BY <1>1 DEF AloneIn
<1>2. \A r \in Session : messages[r] \in Seq(Message(DOMAIN tools))
  BY TypesOf DEF Types
<1>3. \A r \in Session : messages[r] # <<>> => 1 \in DOMAIN messages[r]
  BY <1>2
<1>4. ASSUME \A r \in Session : \A i \in DOMAIN messages[r] : i \in DOMAIN messages'[r]
      PROVE  \A r \in Session : messages'[r] = <<>> => messages[r] = <<>>
  BY <1>3, <1>4
<1>5. CASE messages' = messages
  BY <1>1, <1>5
<1>6. CASE HumanDoes(Event.session)
  BY <1>1, <1>4, <1>6, HumanUses
<1>7. CASE ResultDoes(Event.tool, tools[Event.tool].session)
  BY <1>1, <1>4, <1>7, ResultUses
<1>8. ASSUME NEW c, NEW s, NEW n, AnswerDoes(c, s, n)
      PROVE  \A r \in Session : AloneIn(messages', r) => AloneIn(messages, r)
  BY <1>1, <1>4, <1>8, AnswerUses
<1> QED
  BY <1>5, <1>6, <1>7, <1>8, StepCases DEF Frame, ShutdownDoes

LEMMA WasAlone ==
  ASSUME TypeOK, [Next]_vars
  PROVE  \A s \in Session : Alone(s)' => Alone(s)
BY AloneBefore DEF Alone, AloneIn

LEMMA ApartStep ==
  ASSUME TypeOK, Apart, [Next]_vars
  PROVE  Apart'
<1>0. \A r \in Session : /\ Len(messages[r]) \in Nat
                         /\ DOMAIN messages[r] = 1 .. Len(messages[r])
  <2>1. \A r \in Session : messages[r] \in Seq(Message(DOMAIN tools))
    BY TypesOf DEF Types
  <2> QED
    BY <2>1
<1>1. CASE messages' = messages
  BY <1>1 DEF Apart
<1>2. ASSUME NEW s \in Session,
             \A r \in Session \ {s} : messages'[r] = messages[r],
             Len(messages'[s]) = Len(messages[s]) + 1,
             \A i \in DOMAIN messages[s] : messages'[s][i].role = messages[s][i].role,
             messages'[s][Len(messages[s]) + 1].role = "results" =>
               Len(messages[s]) = 0 \/ messages[s][Len(messages[s])].role # "results"
      PROVE  Apart'
  <2>1. ASSUME NEW i \in 1 .. Len(messages'[s]) - 1,
               messages'[s][i].role = "results", messages'[s][i + 1].role = "results"
        PROVE  FALSE
    <3>1. i \in DOMAIN messages[s] /\ messages[s][i].role = "results"
      BY <1>0, <1>2, <2>1
    <3>2. CASE i + 1 \in DOMAIN messages[s]
      <4>1. messages[s][i + 1].role = "results" /\ i \in 1 .. Len(messages[s]) - 1
        BY <1>0, <1>2, <2>1, <3>2
      <4> QED
        BY <3>1, <4>1 DEF Apart
    <3>3. CASE i = Len(messages[s])
      BY <1>0, <1>2, <2>1, <3>1, <3>3
    <3> QED
      BY <1>0, <1>2, <3>2, <3>3
  <2>2. ASSUME NEW r \in Session \ {s}
        PROVE  \A i \in 1 .. Len(messages'[r]) - 1 :
                 ~(messages'[r][i].role = "results" /\ messages'[r][i + 1].role = "results")
    BY <1>2 DEF Apart
  <2> QED
    BY <2>1, <2>2 DEF Apart
<1>3. CASE HumanDoes(Event.session)
  <2> DEFINE s == Event.session
  <2>1. s \in Session /\ messages'[s] = Append(messages[s], UserMessage)
    BY <1>3 DEF HumanDoes
  <2>2. Len(messages'[s]) = Len(messages[s]) + 1
    BY <1>0, <2>1
  <2>3. /\ \A r \in Session \ {s} : messages'[r] = messages[r]
        /\ \A i \in DOMAIN messages[s] : messages'[s][i].role = messages[s][i].role
        /\ messages'[s][Len(messages[s]) + 1].role = "user"
    BY <1>3, <2>1, HumanUses
  <2> HIDE DEF s
  <2> QED
    BY <1>2, <2>1, <2>2, <2>3
<1>4. CASE ResultDoes(Event.tool, tools[Event.tool].session)
  <2> DEFINE s == tools[Event.tool].session
  <2>1. s \in Session
    BY <1>4 DEF ResultDoes
  <2>2. /\ \A r \in Session \ {s} : messages'[r] = messages[r]
        /\ \A i \in DOMAIN messages[s] : messages'[s][i].role = messages[s][i].role
        /\ Len(messages'[s]) = Place(messages[s])
        /\ messages'[s][Place(messages[s])].role = "results"
    BY <1>4, <2>1, ResultUses
  <2> HIDE DEF s
  <2>3. CASE Len(messages[s]) > 0 /\ messages[s][Len(messages[s])].role = "results"
    <3>1. Len(messages'[s]) = Len(messages[s])
      BY <2>2, <2>3 DEF Place
    <3>2. \A i \in 1 .. Len(messages[s]) - 1 :
            i \in DOMAIN messages[s] /\ i + 1 \in DOMAIN messages[s]
      BY <1>0, <2>1
    <3>3. \A r \in Session : Len(messages'[r]) = Len(messages[r])
      BY <2>2, <3>1
    <3>4. \A r \in Session : \A i \in DOMAIN messages[r] :
            messages'[r][i].role = messages[r][i].role
      BY <2>2
    <3>5. ASSUME NEW r \in Session, NEW i \in 1 .. Len(messages'[r]) - 1
          PROVE  ~(messages'[r][i].role = "results" /\ messages'[r][i + 1].role = "results")
      <4>1. i \in 1 .. Len(messages[r]) - 1
        BY <3>3
      <4>2. i \in DOMAIN messages[r] /\ i + 1 \in DOMAIN messages[r]
        BY <1>0, <4>1
      <4> QED
        BY <3>4, <4>1, <4>2 DEF Apart
    <3> QED
      BY <3>5 DEF Apart
  <2>4. CASE ~(Len(messages[s]) > 0 /\ messages[s][Len(messages[s])].role = "results")
    <3>1. Len(messages'[s]) = Len(messages[s]) + 1
      BY <2>2, <2>4 DEF Place
    <3> QED
      BY <1>0, <1>2, <2>1, <2>2, <2>4, <3>1
  <2> QED
    BY <2>3, <2>4
<1>5. ASSUME NEW c, NEW s, NEW n, AnswerDoes(c, s, n)
      PROVE  Apart'
  <2>1. CASE messages' = messages
    BY <1>1, <2>1
  <2>2. CASE messages'[s] = Append(messages[s], Assistant(Fresh(n)))
    <3>1. s \in Session
      BY <1>5 DEF AnswerDoes
    <3>2. Len(messages'[s]) = Len(messages[s]) + 1
      BY <1>0, <2>2, <3>1
    <3>3. messages'[s][Len(messages[s]) + 1].role = "assistant"
      BY <1>0, <2>2, <3>1 DEF Assistant
    <3>4. /\ \A r \in Session \ {s} : messages'[r] = messages[r]
          /\ \A i \in DOMAIN messages[s] : messages'[s][i].role = messages[s][i].role
      BY <1>5, <3>1, AnswerUses
    <3> QED
      BY <1>2, <3>1, <3>2, <3>3, <3>4
  <2> QED
    BY <1>5, <2>1, <2>2 DEF AnswerDoes
<1> QED
  BY <1>1, <1>3, <1>4, <1>5, StepCases DEF Frame, ShutdownDoes

LEMMA UsedLastStep ==
  ASSUME TypeOK, OneThingAtATime, UsedLast, [Next]_vars
  PROVE  UsedLast'
<1>1. CASE messages' = messages /\ active' = active
  BY <1>1 DEF UsedLast
<1>2. CASE active' = {}
  BY <1>2 DEF UsedLast
<1>3. CASE ResultDoes(Event.tool, tools[Event.tool].session)
  <2> DEFINE s == tools[Event.tool].session
  <2>1. /\ \A r \in Session : \A i, u : Uses(messages'[r], i, u) <=> Uses(messages[r], i, u)
        /\ \A r \in Session \ {s} : messages'[r] = messages[r]
        /\ \A i \in DOMAIN messages[s] : messages'[s][i].role = messages[s][i].role
        /\ DOMAIN messages'[s] = DOMAIN messages[s] \cup {Place(messages[s])}
        /\ messages'[s][Place(messages[s])].role = "results"
    <3>1. s \in Session
      BY <1>3 DEF ResultDoes
    <3> QED
      BY <1>3, <3>1, ResultUses
  <2>2. active' \subseteq active
    BY <1>3 DEF ResultDoes
  <2> HIDE DEF s
  <2>3. ASSUME NEW r \in Session, NEW i \in Nat, NEW t \in active',
               Uses(messages'[r], i, t), NEW k \in DOMAIN messages'[r], i < k
        PROVE  messages'[r][k].role # "assistant"
    <3>1. \A l \in DOMAIN messages[r] : i < l => messages[r][l].role # "assistant"
      BY <2>1, <2>2, <2>3 DEF UsedLast
    <3>2. CASE r = s
      BY <2>1, <2>3, <3>1, <3>2
    <3>3. CASE r # s
      BY <2>1, <2>3, <3>1, <3>3
    <3> QED
      BY <3>2, <3>3
  <2> QED
    BY <2>3 DEF UsedLast
<1>4. ASSUME NEW c, NEW s, NEW n, AnswerDoes(c, s, n)
      PROVE  UsedLast'
  <2>1. c \in DOMAIN calls /\ c = current /\ s \in Session
    BY <1>4 DEF AnswerDoes
  <2>2. c # 0
    <3>1. calls \in Seq(Call)
      BY TypesOf DEF Types
    <3> QED
      BY <2>1, <3>1
  <2>3. active' = Fresh(n) /\ \A t \in Fresh(n) : t \notin DOMAIN tools
    BY <1>4, <2>1, <2>2 DEF OneThingAtATime, AnswerDoes
  <2>4. /\ \A r \in Session : \A i, t : Uses(messages'[r], i, t) <=>
             \/ Uses(messages[r], i, t)
             \/ r = s /\ i = Len(messages[s]) + 1 /\ t \in Fresh(n)
        /\ Len(messages[s]) \in Nat /\ DOMAIN messages[s] = 1 .. Len(messages[s])
        /\ \/ messages' = messages
           \/ DOMAIN messages'[s] = DOMAIN messages[s] \cup {Len(messages[s]) + 1}
    BY <1>4, AnswerUses
  <2>5. ASSUME NEW r \in Session, NEW i \in Nat, NEW t \in active',
               Uses(messages'[r], i, t), NEW k \in DOMAIN messages'[r], i < k
        PROVE  FALSE
    <3>1. ~Uses(messages[r], i, t)
      BY <2>3, NamesTools
    <3>2. r = s /\ i = Len(messages[s]) + 1
      BY <2>4, <2>5, <3>1
    <3>3. k \in 1 .. Len(messages[s]) + 1
      BY <2>4, <2>5, <3>2
    <3> QED
      BY <2>4, <2>5, <3>2, <3>3
  <2> QED
    BY <2>5 DEF UsedLast
<1> QED
  BY <1>1, <1>2, <1>3, <1>4, StepCases DEF Frame, HumanDoes, ShutdownDoes

LEMMA OpenUsesStep ==
  ASSUME TypeOK, QueueInv, UsesInv, OpenUses, [Next]_vars
  PROVE  OpenUses'
<1>0. \A s \in Session : Alone(s)' => Alone(s)
  BY WasAlone
<1>1. CASE messages' = messages /\ active' = active /\ running' = running
  BY <1>0, <1>1 DEF OpenUses
<1>2. CASE HumanDoes(Event.session)
  <2> DEFINE s == Event.session
  <2>1. s \in Session
    BY <1>2 DEF HumanDoes
  <2>2. /\ \A r \in Session : \A i, t : Uses(messages'[r], i, t) <=> Uses(messages[r], i, t)
        /\ Len(messages[s]) \in Nat /\ DOMAIN messages[s] = 1 .. Len(messages[s])
        /\ DOMAIN messages'[s] = DOMAIN messages[s] \cup {Len(messages[s]) + 1}
        /\ messages'[s][Len(messages[s]) + 1].role = "user"
    BY <1>2, <2>1, HumanUses
  <2> HIDE DEF s
  <2>3. ASSUME NEW r \in Session, NEW i \in Nat, NEW t \in Nat,
               Alone(r)', Uses(messages'[r], i, t), ~Parked(messages'[r], i)
        PROVE  FALSE
    <3>1. CASE r = s
      <4>1. i \in 1 .. Len(messages[s])
        BY <2>2, <2>3, <3>1, NamesTools
      <4>2. Parked(messages'[r], i)
        BY <2>2, <3>1, <4>1 DEF Parked
      <4> QED
        BY <2>3, <4>2
    <3>2. CASE r # s
      <4>1. messages'[s] = <<>>
        BY <2>1, <2>3, <3>2 DEF Alone
      <4>2. Len(messages[s]) + 1 \notin DOMAIN messages'[s]
        BY <4>1
      <4> QED
        BY <2>2, <4>2
    <3> QED
      BY <3>1, <3>2
  <2> QED
    BY <2>3 DEF OpenUses
<1>3. ASSUME run, ResultDoes(Event.tool, tools[Event.tool].session)
      PROVE  OpenUses'
  <2> DEFINE t == Event.tool
             s == tools[t].session
  <2>0. ResultDoes(t, s)
    BY <1>3
  <2> HIDE DEF s, t
  <2>1. /\ \A r \in Session : \A i, u :
             /\ Uses(messages'[r], i, u) <=> Uses(messages[r], i, u)
             /\ Answers(messages'[r], i, u) <=>
                  Answers(messages[r], i, u) \/ (r = s /\ i = Place(messages[s]) /\ u = t)
        /\ \A r \in Session : \A i \in DOMAIN messages[r] :
             i \in DOMAIN messages'[r] /\ messages'[r][i].role = messages[r][i].role
        /\ Place(messages[s]) \in Nat
    BY <2>0, ResultUses
  <2>2. active' = active \ {t} /\ running
    BY <1>3, <2>0 DEF ResultDoes, run
  <2>3. ASSUME NEW r \in Session, NEW i \in Nat, NEW u \in Nat,
               Alone(r)', Uses(messages'[r], i, u), ~Parked(messages'[r], i)
        PROVE  u \in active' \/ \E j \in Nat : Answers(messages'[r], j, u)
    <3>1. Uses(messages[r], i, u) /\ Alone(r)
      BY <1>0, <2>1, <2>3
    <3>2. ~Parked(messages[r], i)
      BY <2>1, <2>3 DEF Parked
    <3>3. u \in active \/ \E j \in Nat : Answers(messages[r], j, u)
      BY <2>2, <3>1, <3>2 DEF OpenUses
    <3>4. CASE u = t
      <4>1. tools[u].session = r
        BY <3>1 DEF UsesInv, OfItsSession
      <4>2. r = s
        BY <3>4, <4>1 DEF s
      <4> QED
        BY <2>1, <3>4, <4>2
    <3>5. CASE u # t
      BY <2>1, <2>2, <3>3, <3>5
    <3> QED
      BY <3>4, <3>5
  <2> QED
    BY <2>3 DEF OpenUses
<1>4. ASSUME run, NEW c, NEW s, NEW n, AnswerDoes(c, s, n)
      PROVE  OpenUses'
  <2>1. active' = active \cup Fresh(n) /\ running
    BY <1>4 DEF AnswerDoes, run
  <2>2. /\ \A r \in Session : \A i, t :
              /\ Answers(messages'[r], i, t) <=> Answers(messages[r], i, t)
              /\ Uses(messages'[r], i, t) <=>
                   \/ Uses(messages[r], i, t)
                   \/ r = s /\ i = Len(messages[s]) + 1 /\ t \in Fresh(n)
        /\ \A r \in Session : \A i \in DOMAIN messages[r] :
              i \in DOMAIN messages'[r] /\ messages'[r][i] = messages[r][i]
    BY <1>4, AnswerUses
  <2>3. ASSUME NEW r \in Session, NEW i \in Nat, NEW u \in Nat,
               Alone(r)', Uses(messages'[r], i, u), ~Parked(messages'[r], i)
        PROVE  u \in active' \/ \E j \in Nat : Answers(messages'[r], j, u)
    <3>1. Alone(r) /\ ~Parked(messages[r], i)
      BY <1>0, <2>2, <2>3 DEF Parked
    <3>2. CASE u \in Fresh(n)
      BY <2>1, <3>2
    <3>3. CASE Uses(messages[r], i, u)
      <4>1. u \in active \/ \E j \in Nat : Answers(messages[r], j, u)
        BY <2>1, <3>1, <3>3 DEF OpenUses
      <4> QED
        BY <2>1, <2>2, <4>1
    <3> QED
      BY <2>2, <2>3, <3>2, <3>3
  <2> QED
    BY <2>3 DEF OpenUses
<1>5. CASE ShutdownDoes
  BY <1>5 DEF ShutdownDoes, OpenUses
<1> QED
  BY <1>1, <1>2, <1>3, <1>4, <1>5, StepCases DEF Frame

LEMMA OpenStep ==
  ASSUME TypeOK, OneThingAtATime, QueueInv, UsesInv, OpenInv, [Next]_vars
  PROVE  OpenInv'
BY ApartStep, UsedLastStep, OpenUsesStep DEF OpenInv

(* A result of the last answer goes beside the results that answer has, or   *)
(* behind the human message that came since.                                 *)
LEMMA LateResult ==
  ASSUME TypeOK, QueueInv, UsesInv, AnswersInv, OpenInv, run,
         Event.kind = "ToolResult",
         NEW s \in Session, NEW i \in Nat, NEW j \in Nat, NEW t \in Nat,
         Alone(s), Uses(messages[s], i, Event.tool), Uses(messages[s], i, t),
         Answers(messages[s], j, t), j < Place(messages[s])
  PROVE  Role(messages[s], i, Place(messages[s]), "user")
<1> DEFINE m == messages[s]
<1>1. m \in Seq(Message(DOMAIN tools))
  BY TypesOf DEF Types
<1>2. /\ Len(m) \in Nat /\ DOMAIN m = 1 .. Len(m)
      /\ \A k \in DOMAIN m : m[k].role \in {"user", "assistant", "results"}
  <2>1. \A k \in DOMAIN m : m[k] \in Message(DOMAIN tools)
    BY <1>1
  <2> QED
    BY <1>1, <2>1 DEF Message
<1>3. i \in DOMAIN m /\ i < j /\ j \in DOMAIN m /\ m[j].role = "results"
  <2>1. PICK l \in 1 .. j - 1 : Uses(m, l, t)
    BY DEF AnswersInv, AnswersUse
  <2>2. l = i
    BY <2>1 DEF UsesInv, UsedOnce
  <2> QED
    BY <2>1, <2>2 DEF Uses, Answers
<1> HIDE DEF m
<1>4. CASE Parked(m, i)
  <2>1. PICK k \in DOMAIN m : i < k /\ m[k].role = "user"
    BY <1>4 DEF Parked
  <2>2. k < Place(m)
    BY <1>2, <2>1 DEF Place
  <2>3. Place(m) \in Nat
    BY <1>2 DEF Place
  <2>4. k \in i + 1 .. Place(m) - 1
    BY <1>2, <2>1, <2>2, <2>3
  <2> QED
    BY <2>1, <2>4 DEF Role, m
<1>5. CASE ~Parked(m, i)
  <2>1. Event.tool \in Nat
    BY NamesTools
  <2>2. Event.tool \in active
    <3>1. \A l \in Nat : ~Answers(m, l, Event.tool)
      BY ResultIsNew DEF m
    <3>2. running
      BY DEF run
    <3> QED
      BY <1>5, <2>1, <3>1, <3>2 DEF OpenInv, OpenUses, m
  <2>3. \A k \in DOMAIN m : i < k => m[k].role # "assistant"
    BY <2>2 DEF OpenInv, UsedLast, m
  <2>4. \A k \in DOMAIN m : i < k => m[k].role = "results"
    BY <1>2, <1>5, <2>3 DEF Parked
  <2>5. \A k \in 1 .. Len(m) - 1 : ~(m[k].role = "results" /\ m[k + 1].role = "results")
    BY DEF OpenInv, Apart, m
  <2>6. Len(m) <= i + 1
    <3>1. SUFFICES ASSUME Len(m) > i + 1
                   PROVE  FALSE
      BY <1>2
    <3>2. i + 1 \in 1 .. Len(m) - 1 /\ i + 1 \in DOMAIN m /\ (i + 1) + 1 \in DOMAIN m
      BY <1>2, <3>1
    <3> QED
      BY <2>4, <2>5, <3>2
  <2>7. j = Len(m) /\ Len(m) > 0
    <3>1. i \in 1 .. Len(m) /\ j \in 1 .. Len(m) /\ i < j /\ Len(m) \in Nat
      BY <1>2, <1>3
    <3> QED
      BY <2>6, <3>1
  <2>8. Place(m) = j
    BY <1>3, <2>7 DEF Place
  <2> QED
    BY <2>8 DEF m
<1> QED
  BY <1>4, <1>5

LEMMA PartedStep ==
  ASSUME TypeOK, QueueInv, UsesInv, AnswersInv, OpenInv, PartedInv, [Next]_vars
  PROVE  PartedInv'
<1>0. \A s \in Session : Alone(s)' => Alone(s)
  BY WasAlone
<1>1. ASSUME NEW s \in Session, NEW i \in Nat, NEW j \in Nat, NEW k \in Nat,
             NEW t \in Nat, NEW u \in Nat, Alone(s)', j < k,
             Uses(messages[s], i, t), Answers(messages[s], j, t),
             Uses(messages[s], i, u), Answers(messages[s], k, u),
             \A l \in DOMAIN messages[s] : messages'[s][l].role = messages[s][l].role
      PROVE  Role(messages'[s], i, k, "user")
  <2>1. Role(messages[s], i, k, "user")
    BY <1>0, <1>1 DEF PartedInv
  <2>2. PICK l \in i + 1 .. k - 1 : messages[s][l].role = "user"
    BY <2>1 DEF Role
  <2>3. k \in 1 .. Len(messages[s]) /\ DOMAIN messages[s] = 1 .. Len(messages[s])
        /\ Len(messages[s]) \in Nat
    <3>1. messages[s] \in Seq(Message(DOMAIN tools))
      BY TypesOf DEF Types
    <3> QED
      BY <1>1, <3>1 DEF Answers
  <2>4. l \in DOMAIN messages[s]
    BY <2>3
  <2> QED
    BY <1>1, <2>2, <2>4 DEF Role
<1>2. ASSUME \A r \in Session : \A i, t :
               /\ Uses(messages'[r], i, t) <=> Uses(messages[r], i, t)
               /\ Answers(messages'[r], i, t) <=> Answers(messages[r], i, t),
             \A r \in Session : \A i \in DOMAIN messages[r] :
               messages'[r][i].role = messages[r][i].role
      PROVE  PartedInv'
  <2>1. ASSUME NEW s \in Session, NEW i \in Nat, NEW j \in Nat, NEW k \in Nat,
               NEW t \in Nat, NEW u \in Nat, Alone(s)', j < k,
               Uses(messages'[s], i, t), Answers(messages'[s], j, t),
               Uses(messages'[s], i, u), Answers(messages'[s], k, u)
        PROVE  Role(messages'[s], i, k, "user")
    <3>1. /\ Uses(messages[s], i, t) /\ Answers(messages[s], j, t)
          /\ Uses(messages[s], i, u) /\ Answers(messages[s], k, u)
      BY <1>2, <2>1
    <3> QED
      BY <1>1, <1>2, <2>1, <3>1
  <2> QED
    BY <2>1 DEF PartedInv
<1>3. CASE messages' = messages
  BY <1>2, <1>3
<1>4. CASE HumanDoes(Event.session)
  BY <1>2, <1>4, HumanUses
<1>5. ASSUME run, handle_tool_result(Event), ResultDoes(Event.tool, tools[Event.tool].session)
      PROVE  PartedInv'
  <2> DEFINE v == Event.tool
             s == tools[v].session
  <2>0. s \in Session /\ v \in DOMAIN tools /\ Event.kind = "ToolResult"
    BY <1>5 DEF ResultDoes, handle_tool_result
  <2>1. /\ \A r \in Session : \A i, u : Uses(messages'[r], i, u) <=> Uses(messages[r], i, u)
        /\ \A r \in Session : \A i, u : Answers(messages'[r], i, u) <=>
             Answers(messages[r], i, u) \/ (r = s /\ i = Place(messages[s]) /\ u = v)
        /\ \A r \in Session : \A i \in DOMAIN messages[r] :
             i \in DOMAIN messages'[r] /\ messages'[r][i].role = messages[r][i].role
        /\ Place(messages[s]) \in Nat
    BY <1>5, <2>0, ResultUses
  <2> HIDE DEF s
  <2>2. ASSUME NEW r \in Session, NEW i \in Nat, NEW j \in Nat, NEW k \in Nat,
               NEW t \in Nat, NEW u \in Nat, Alone(r)', j < k,
               Uses(messages'[r], i, t), Answers(messages'[r], j, t),
               Uses(messages'[r], i, u), Answers(messages'[r], k, u)
        PROVE  Role(messages'[r], i, k, "user")
    <3>1. Uses(messages[r], i, t) /\ Uses(messages[r], i, u) /\ Alone(r)
      BY <1>0, <2>1, <2>2
    <3>2. \A l \in Nat : Answers(messages[r], l, u) =>
            l \in 1 .. Len(messages[r]) /\ Len(messages[r]) \in Nat
      BY NamesTools
    <3>3. CASE Answers(messages[r], k, u)
      <4>1. k < Place(messages[r]) + 1
        BY <3>2, <3>3 DEF Place
      <4>2. ~(r = s /\ j = Place(messages[s]))
        BY <2>1, <2>2, <4>1
      <4>3. Answers(messages[r], j, t)
        BY <2>1, <2>2, <4>2
      <4> QED
        BY <1>1, <2>1, <2>2, <3>1, <3>3, <4>3
    <3>4. CASE r = s /\ k = Place(messages[s]) /\ u = v
      <4>1. Answers(messages[r], j, t)
        BY <2>1, <2>2, <3>4
      <4>2. Role(messages[r], i, k, "user")
        BY <1>5, <2>0, <2>2, <3>1, <3>4, <4>1, LateResult
      <4>3. PICK l \in i + 1 .. k - 1 : messages[r][l].role = "user"
        BY <4>2 DEF Role
      <4>4. DOMAIN messages[r] = 1 .. Len(messages[r]) /\ Len(messages[r]) \in Nat
        <5>1. messages[r] \in Seq(Message(DOMAIN tools))
          BY TypesOf DEF Types
        <5> QED
          BY <5>1
      <4>5. l \in DOMAIN messages[r]
        BY <3>4, <4>4 DEF Place
      <4> QED
        BY <2>1, <4>3, <4>5 DEF Role
    <3> QED
      BY <2>1, <2>2, <3>3, <3>4
  <2> QED
    BY <2>2 DEF PartedInv
<1>6. ASSUME NEW c, NEW s, NEW n, AnswerDoes(c, s, n)
      PROVE  PartedInv'
  <2>1. /\ \A r \in Session : \A i, t :
              /\ Answers(messages'[r], i, t) <=> Answers(messages[r], i, t)
              /\ Uses(messages'[r], i, t) <=>
                   \/ Uses(messages[r], i, t)
                   \/ r = s /\ i = Len(messages[s]) + 1 /\ t \in Fresh(n)
        /\ \A r \in Session : \A i \in DOMAIN messages[r] :
              i \in DOMAIN messages'[r] /\ messages'[r][i] = messages[r][i]
    BY <1>6, AnswerUses
  <2>2. \A t \in Fresh(n) : t \notin DOMAIN tools
    BY <1>6 DEF AnswerDoes
  <2>3. ASSUME NEW r \in Session, NEW i \in Nat, NEW j \in Nat, NEW k \in Nat,
               NEW t \in Nat, NEW u \in Nat, Alone(r)', j < k,
               Uses(messages'[r], i, t), Answers(messages'[r], j, t),
               Uses(messages'[r], i, u), Answers(messages'[r], k, u)
        PROVE  Role(messages'[r], i, k, "user")
    <3>1. Answers(messages[r], j, t) /\ Answers(messages[r], k, u)
      BY <2>1, <2>3
    <3>2. t \in DOMAIN tools /\ u \in DOMAIN tools
      BY <3>1, NamesTools
    <3>3. Uses(messages[r], i, t) /\ Uses(messages[r], i, u)
      BY <2>1, <2>2, <2>3, <3>2
    <3> QED
      BY <1>1, <2>1, <2>3, <3>1, <3>3
  <2> QED
    BY <2>3 DEF PartedInv
<1> QED
  BY <1>3, <1>4, <1>5, <1>6, StepCases DEF Frame, ShutdownDoes

LEMMA ContextStep ==
  ASSUME TypeOK, ContextInv, [Next]_vars
  PROVE  ContextInv'
<1>0. current # 0 => current \in DOMAIN calls /\ calls[current].session \in Session
  <2>1. /\ current = 0 \/ current \in DOMAIN calls
        /\ calls \in Seq(Call)
    BY TypesOf DEF Types
  <2>2. \A c \in DOMAIN calls : calls[c] \in Call
    BY <2>1
  <2> QED
    BY <2>1, <2>2 DEF Call
<1>1. CASE Frame
  <2>1. CASE current = 0
    BY <1>1, <2>1 DEF ContextInv, Frame
  <2>2. CASE current # 0
    <3>1. /\ calls'[current].session = calls[current].session
          /\ calls'[current].context = calls[current].context
          /\ messages' = messages /\ current' = current
      BY <1>0, <1>1, <2>2 DEF Frame
    <3> QED
      BY <2>2, <3>1 DEF ContextInv
  <2> QED
    BY <2>1, <2>2
<1>2. CASE current' = 0
  BY <1>2 DEF ContextInv
<1>3. ASSUME NEW s \in Session, calls'[current'].session = s,
             calls'[current'].context = messages'[s]
      PROVE  ContextInv'
  BY <1>3 DEF ContextInv
<1>4. CASE ResultDoes(Event.tool, tools[Event.tool].session)
  <2>1. CASE current' = current /\ calls' = calls
    <3>1. \A r \in Session : Positions(messages'[r], "user") = Positions(messages[r], "user")
      BY <1>4, ResultUses
    <3> QED
      BY <1>0, <2>1, <3>1 DEF ContextInv
  <2> QED
    BY <1>3, <1>4, <2>1 DEF ResultDoes
<1> QED
  BY <1>1, <1>2, <1>3, <1>4, StepCases DEF HumanDoes, AnswerDoes, ShutdownDoes

(* A call that is started waits for no tool: what its context leaves open    *)
(* was parked.                                                               *)
LEMMA StartedParked ==
  ASSUME TypeOK', OpenUses', running', active' = {}, NEW s \in Session, Alone(s)',
         NEW i \in DOMAIN messages'[s], messages'[s][i].role = "assistant",
         ~(messages'[s][i].ids \subseteq Ids(messages'[s], "results"))
  PROVE  Role(messages'[s], i, Len(messages'[s]) + 1, "user")
<1> DEFINE n == messages'[s]
<1>1. n \in Seq(Message(DOMAIN tools')) /\ DOMAIN tools' \subseteq Nat
  <2>1. Types'
    BY TypesOfNext
  <2> QED
    BY <2>1 DEF Types
<1>2. DOMAIN n = 1 .. Len(n) /\ Len(n) \in Nat /\ n[i].ids \subseteq DOMAIN tools'
  <2>1. n[i] \in Message(DOMAIN tools')
    BY <1>1
  <2>2. n[i].ids \subseteq DOMAIN tools'
    BY <2>1 DEF Message
  <2> QED
    BY <1>1, <2>2
<1>3. PICK u \in n[i].ids : u \notin Ids(n, "results")
  OBVIOUS
<1>4. Uses(n, i, u)
  BY <1>3 DEF Uses
<1>5. \A j \in Nat : ~Answers(n, j, u)
  BY <1>3 DEF Ids, Positions, Answers
<1>6. i \in Nat /\ u \in Nat
  BY <1>1, <1>2, <1>3
<1>7. Parked(n, i)
  BY <1>4, <1>5, <1>6 DEF OpenUses
<1>8. PICK k \in DOMAIN n : i < k /\ n[k].role = "user"
  BY <1>7 DEF Parked
<1> HIDE DEF n
<1>9. k \in i + 1 .. Len(n) + 1 - 1
  BY <1>2, <1>6, <1>8
<1>10. Role(n, i, Len(n) + 1, "user")
  BY <1>8, <1>9 DEF Role
<1> QED
  BY <1>10 DEF n

(* What UnansweredWereParked says of one context.                            *)
Fits(m, context, s) ==
  \A i \in DOMAIN context :
    /\ AloneIn(m, s)
    /\ context[i].role = "assistant"
    /\ ~(context[i].ids \subseteq Ids(context, "results"))
    => Role(context, i, Len(context) + 1, "user")

LEMMA ParkedStep ==
  ASSUME TypeOK, TypeOK', OpenUses', UnansweredWereParked, [Next]_vars
  PROVE  UnansweredWereParked'
<1>1. /\ UnansweredWereParked <=>
           \A c \in DOMAIN calls : Fits(messages, calls[c].context, calls[c].session)
      /\ UnansweredWereParked' <=>
           \A c \in DOMAIN calls' : Fits(messages', calls'[c].context, calls'[c].session)
  BY DEF UnansweredWereParked, Fits, Alone, AloneIn
<1>2. \A c \in DOMAIN calls : calls[c].session \in Session
  <2>1. \A c \in DOMAIN calls : calls[c] \in Call
    BY TypesOf DEF Types
  <2> QED
    BY <2>1 DEF Call
<1>3. ASSUME NEW c \in DOMAIN calls, calls'[c].context = calls[c].context,
             calls'[c].session = calls[c].session
      PROVE  Fits(messages', calls'[c].context, calls'[c].session)
  <2>1. AloneIn(messages', calls[c].session) => AloneIn(messages, calls[c].session)
    BY <1>2, AloneBefore
  <2>2. Fits(messages, calls[c].context, calls[c].session)
    BY <1>1
  <2> QED
    BY <1>3, <2>1, <2>2 DEF Fits
<1>4. ASSUME NEW s \in Session, running', active' = {},
             calls'[current'].session = s, calls'[current'].context = messages'[s]
      PROVE  Fits(messages', calls'[current'].context, calls'[current'].session)
  <2>1. SUFFICES ASSUME Alone(s)',
                        NEW i \in DOMAIN messages'[s], messages'[s][i].role = "assistant",
                        ~(messages'[s][i].ids \subseteq Ids(messages'[s], "results"))
                 PROVE  Role(messages'[s], i, Len(messages'[s]) + 1, "user")
    BY <1>4 DEF Fits, AloneIn, Alone
  <2> QED
    BY <1>4, <2>1, StartedParked
<1>5. CASE Frame
  BY <1>1, <1>3, <1>5 DEF Frame
<1>6. ASSUME run, HumanDoes(Event.session)
      PROVE  UnansweredWereParked'
  <2>1. running' /\ active' = {}
    BY <1>6 DEF run, HumanDoes
  <2>2. \A c \in DOMAIN calls : Fits(messages', calls'[c].context, calls'[c].session)
    BY <1>3, <1>6 DEF HumanDoes
  <2>3. CASE DOMAIN calls' = DOMAIN calls
    BY <1>1, <2>2, <2>3
  <2>4. CASE /\ DOMAIN calls' = DOMAIN calls \cup {current'}
             /\ calls'[current'].session = Event.session
             /\ calls'[current'].context = messages'[Event.session]
    <3>1. Event.session \in Session
      BY <1>6 DEF HumanDoes
    <3>2. Fits(messages', calls'[current'].context, calls'[current'].session)
      BY <1>4, <2>1, <2>4, <3>1
    <3> QED
      BY <1>1, <2>2, <2>4, <3>2
  <2> QED
    BY <1>6, <2>3, <2>4 DEF HumanDoes
<1>7. ASSUME run, NEW t, NEW s, ResultDoes(t, s)
      PROVE  UnansweredWereParked'
  <2>1. running' /\ active' = active \ {t} /\ s \in Session
    BY <1>7 DEF run, ResultDoes
  <2>2. \A c \in DOMAIN calls : Fits(messages', calls'[c].context, calls'[c].session)
    BY <1>3, <1>7 DEF ResultDoes
  <2>3. CASE calls' = calls
    BY <1>1, <2>2, <2>3
  <2>4. CASE /\ active \ {t} = {}
             /\ DOMAIN calls' = DOMAIN calls \cup {current'}
             /\ calls'[current'].session = s
             /\ calls'[current'].context = messages'[s]
    <3>1. Fits(messages', calls'[current'].context, calls'[current'].session)
      BY <1>4, <2>1, <2>4
    <3> QED
      BY <1>1, <2>2, <2>4, <3>1
  <2> QED
    BY <1>7, <2>3, <2>4 DEF ResultDoes
<1>8. ASSUME NEW c, NEW s, NEW n, AnswerDoes(c, s, n)
      PROVE  UnansweredWereParked'
  BY <1>1, <1>3, <1>8 DEF AnswerDoes
<1>9. CASE ShutdownDoes
  BY <1>1, <1>3, <1>9 DEF ShutdownDoes
<1> QED
  BY <1>5, <1>6, <1>7, <1>8, <1>9, StepCases

LEMMA StoppedStep ==
  ASSUME TypeOK, Stopped, [Next]_vars
  PROVE  Stopped'
<1>1. CASE Frame
  BY <1>1 DEF Stopped, Frame
<1>2. CASE run /\ running' = running
  BY <1>2 DEF Stopped, run
<1>3. CASE ShutdownDoes
  BY <1>3 DEF Stopped, ShutdownDoes
<1> QED
  BY <1>1, <1>2, <1>3, StepCases DEF HumanDoes, ResultDoes, AnswerDoes

-----------------------------------------------------------------------------
(* What the calls cost.                                                      *)

Placed ==
  /\ \A s \in Session : \A i :
       <<s, i>> \in UserMessages <=> i \in Positions(messages[s], "user")
  /\ \A x \in UserMessages : \E s \in Session :
       \E i \in Positions(messages[s], "user") : x = <<s, i>>

LEMMA InUserMessages == Placed
<1>1. ASSUME NEW s \in Session, NEW i \in Positions(messages[s], "user")
      PROVE  <<s, i>> \in UserMessages
  <2> DEFINE placed(r) == {<<r, j>> : j \in Positions(messages[r], "user")}
  <2>1. <<s, i>> \in placed(s)
    OBVIOUS
  <2>2. UserMessages = UNION {placed(r) : r \in Session}
    BY DEF UserMessages
  <2> HIDE DEF placed
  <2> QED
    BY <2>1, <2>2
<1>2. ASSUME NEW x \in UserMessages
      PROVE  \E s \in Session : \E i \in Positions(messages[s], "user") : x = <<s, i>>
  BY DEF UserMessages
<1>3. ASSUME NEW s \in Session, NEW i, <<s, i>> \in UserMessages
      PROVE  i \in Positions(messages[s], "user")
  BY <1>2, <1>3
<1> QED
  BY <1>1, <1>2, <1>3 DEF Placed

LEMMA InUserMessagesNext == Placed'
<1>1. Placed
  BY InUserMessages
<1> QED
  BY InUserMessages, PTL

LEMMA SameUserMessages ==
  ASSUME \A r \in Session : Positions(messages'[r], "user") = Positions(messages[r], "user")
  PROVE  UserMessages' = UserMessages
<1>1. \A x \in UserMessages : x \in UserMessages'
  BY InUserMessages, InUserMessagesNext DEF Placed
<1>2. \A x \in UserMessages' : x \in UserMessages
  BY InUserMessages, InUserMessagesNext DEF Placed
<1> QED
  BY <1>1, <1>2

LEMMA OneMoreUserMessage ==
  ASSUME TypeOK, NEW s, HumanDoes(s), IsFiniteSet(UserMessages)
  PROVE  /\ IsFiniteSet(UserMessages')
         /\ Cardinality(UserMessages') = Cardinality(UserMessages) + 1
<1> DEFINE x == <<s, Len(messages[s]) + 1>>
<1>0. s \in Session
  BY DEF HumanDoes
<1>1. /\ \A r \in Session \ {s} : messages'[r] = messages[r]
      /\ Len(messages[s]) \in Nat /\ DOMAIN messages[s] = 1 .. Len(messages[s])
      /\ Positions(messages'[s], "user")
           = Positions(messages[s], "user") \cup {Len(messages[s]) + 1}
  BY <1>0, HumanUses
<1>2. Len(messages[s]) + 1 \notin Positions(messages[s], "user")
  BY <1>1 DEF Positions
<1>3. x \notin UserMessages
  BY <1>0, <1>2, InUserMessages DEF Placed
<1>4. \A y \in UserMessages' : y \in UserMessages \cup {x}
  <2>1. SUFFICES ASSUME NEW y \in UserMessages'
                 PROVE  y \in UserMessages \cup {x}
    OBVIOUS
  <2>2. PICK r \in Session : \E i \in Positions(messages'[r], "user") : y = <<r, i>>
    BY InUserMessagesNext DEF Placed
  <2>3. PICK i \in Positions(messages'[r], "user") : y = <<r, i>>
    BY <2>2
  <2>4. CASE r = s
    BY <1>1, <2>3, <2>4, InUserMessages DEF Placed
  <2>5. CASE r # s
    BY <1>1, <2>3, <2>5, InUserMessages DEF Placed
  <2> QED
    BY <2>4, <2>5
<1>5. \A y \in UserMessages \cup {x} : y \in UserMessages'
  <2>1. x \in UserMessages'
    BY <1>0, <1>1, InUserMessagesNext DEF Placed
  <2>2. ASSUME NEW y \in UserMessages
        PROVE  y \in UserMessages'
    <3>1. PICK r \in Session : \E i \in Positions(messages[r], "user") : y = <<r, i>>
      BY InUserMessages DEF Placed
    <3>2. PICK i \in Positions(messages[r], "user") : y = <<r, i>>
      BY <3>1
    <3>3. i \in Positions(messages'[r], "user")
      BY <1>1, <3>2
    <3> QED
      BY <3>2, <3>3, InUserMessagesNext DEF Placed
  <2> QED
    BY <2>1, <2>2
<1>6. UserMessages' = UserMessages \cup {x}
  BY <1>4, <1>5
<1> HIDE DEF x
<1> QED
  BY <1>3, <1>6, FS_AddElement

LEMMA PaidStep ==
  ASSUME TypeOK, TypeOK', Paid, [Next]_vars
  PROVE  Paid'
<1> DEFINE M == max_tool_iterations
           U == Cardinality(UserMessages)
<1>0. /\ calls \in Seq(Call)
      /\ Len(calls) \in Nat /\ DOMAIN calls = 1 .. Len(calls) /\ Len(calls') \in Nat
      /\ tool_iterations \in Nat /\ M \in Nat /\ Budget \in Nat
  <2>1. Types
    BY TypesOf
  <2>2. Types'
    BY TypesOfNext
  <2>3. calls \in Seq(Call) /\ tool_iterations \in Nat
    BY <2>1 DEF Types
  <2>4. calls' \in Seq(Call')
    BY <2>2 DEF Types
  <2>5. Budget \in Nat
    BY <2>3 DEF Budget
  <2> QED
    BY <2>3, <2>4, <2>5
<1>1. U \in Nat
  BY FS_CardinalityType DEF Paid
<1>2. Len(calls) = 0 => DOMAIN tools = {}
  BY DEF Paid
<1>3. ASSUME UserMessages' = UserMessages, Len(calls') = Len(calls),
             DOMAIN tools' = DOMAIN tools, Budget' <= Budget
      PROVE  Paid'
  <2>1. Budget' \in Nat
    BY TypesOfNext DEF Types, Budget
  <2> HIDE DEF U
  <2>2. Len(calls) > 0 => Len(calls) + Budget <= (M + 1) * U
    BY DEF Paid, U
  <2>3. (M + 1) * U \in Nat
    BY <1>0, <1>1
  <2>4. Len(calls') > 0 => Len(calls') + Budget' <= (M + 1) * U
    BY <1>0, <1>3, <2>1, <2>2, <2>3
  <2> QED
    BY <1>3, <2>4 DEF Paid, U
<1>4. CASE Frame
  <2>1. UserMessages' = UserMessages
    BY <1>4, SameUserMessages DEF Frame
  <2>2. Budget' = Budget
    BY <1>4 DEF Frame, Budget
  <2> QED
    BY <1>0, <1>3, <1>4, <2>1, <2>2 DEF Frame
<1>5. ASSUME handle_human_message(Event), HumanDoes(Event.session)
      PROVE  Paid'
  <2>1. /\ IsFiniteSet(UserMessages')
        /\ Cardinality(UserMessages') = U + 1
    BY <1>5, OneMoreUserMessage DEF Paid
  <2>2. tool_iterations' = 0 /\ Budget' = M
    <3>1. tool_iterations' = 0
      BY <1>5 DEF handle_human_message
    <3> QED
      BY <1>0, <3>1 DEF Budget
  <2>3. Len(calls') = Len(calls) \/ Len(calls') = Len(calls) + 1
    BY <1>5 DEF HumanDoes
  <2>4. DOMAIN tools' = DOMAIN tools
    BY <1>5 DEF HumanDoes
  <2>5. Len(calls) <= (M + 1) * U
    <3>1. Len(calls) > 0 => Len(calls) + Budget <= (M + 1) * U
      BY DEF Paid
    <3>2. (M + 1) * U \in Nat
      BY <1>0, <1>1
    <3> QED
      BY <1>0, <3>1, <3>2
  <2> HIDE DEF U, M
  <2>6. (M + 1) * (U + 1) = (M + 1) * U + (M + 1) /\ (M + 1) * U \in Nat
    BY <1>0, <1>1
  <2>7. Len(calls') + M <= (M + 1) * (U + 1)
    BY <1>0, <2>3, <2>5, <2>6
  <2> QED
    BY <1>0, <1>2, <2>1, <2>2, <2>3, <2>4, <2>7 DEF Paid, U, M
<1>6. ASSUME NEW t, NEW s, ResultDoes(t, s)
      PROVE  Paid'
  <2>1. UserMessages' = UserMessages
    <3>1. \A r \in Session : Positions(messages'[r], "user") = Positions(messages[r], "user")
      BY <1>6, ResultUses
    <3> QED
      BY <3>1, SameUserMessages
  <2>2. tools' = tools /\ t \in DOMAIN tools
    BY <1>6 DEF ResultDoes
  <2>3. Len(calls) > 0 /\ Len(calls) + Budget <= (M + 1) * U
    BY <1>0, <1>2, <2>2 DEF Paid
  <2>4. CASE /\ calls' = calls
             /\ \/ tool_iterations' = tool_iterations
                \/ tool_iterations' = tool_iterations + 1 /\ tool_iterations' > M
    <3>1. Budget' <= Budget
      BY <1>0, <2>4 DEF Budget
    <3> QED
      BY <1>3, <2>1, <2>2, <2>4, <3>1
  <2>5. CASE /\ tool_iterations' = tool_iterations + 1 /\ ~(tool_iterations' > M)
             /\ Len(calls') = Len(calls) + 1
    <3>1. Budget = Budget' + 1 /\ Budget' \in Nat
      BY <1>0, <2>5 DEF Budget
    <3> HIDE DEF U, M
    <3>2. (M + 1) * U \in Nat
      BY <1>0, <1>1
    <3>3. Len(calls') + Budget' <= (M + 1) * U
      BY <1>0, <2>3, <2>5, <3>1, <3>2
    <3> QED
      BY <1>0, <2>1, <2>5, <3>3 DEF Paid, U, M
  <2> QED
    BY <1>6, <2>4, <2>5 DEF ResultDoes
<1>7. ASSUME handle_llm_complete(Event), NEW c, NEW s, NEW n, AnswerDoes(c, s, n)
      PROVE  Paid'
  <2>1. UserMessages' = UserMessages
    <3>1. \A r \in Session : Positions(messages'[r], "user") = Positions(messages[r], "user")
      BY <1>7, AnswerUses
    <3> QED
      BY <3>1, SameUserMessages
  <2>2. calls' = calls /\ c \in DOMAIN calls
    BY <1>7 DEF AnswerDoes
  <2>3. Budget' = Budget
    BY <1>7 DEF handle_llm_complete, Budget
  <2>4. Len(calls') > 0
    BY <1>0, <2>2
  <2> QED
    BY <1>0, <2>1, <2>2, <2>3, <2>4 DEF Paid
<1>8. CASE ShutdownDoes
  <2>1. UserMessages' = UserMessages
    BY <1>8, SameUserMessages DEF ShutdownDoes
  <2>2. Budget' = Budget
    BY <1>8 DEF ShutdownDoes, Budget
  <2> QED
    BY <1>0, <1>3, <1>8, <2>1, <2>2 DEF ShutdownDoes
<1> QED
  BY <1>4, <1>5, <1>6, <1>7, <1>8, StepCases

-----------------------------------------------------------------------------
(* The theorems.                                                             *)

LEMMA InvInit == Init => Inv
<1> SUFFICES ASSUME Init PROVE Inv
  OBVIOUS
<1>1. /\ channel = <<>> /\ buffer = <<>> /\ active = {} /\ current = 0
      /\ messages = [s \in Session |-> <<>>] /\ running = TRUE
      /\ calls = <<>> /\ tools = <<>>
  BY DEF Init
<1>2. TypeOK
  BY TypeInit
<1>3. AwaitedIsComing
  BY <1>1, <1>2, AwaitedIs DEF CallComing, ToolsComing
<1>4. \A s \in Session : /\ messages[s] = <<>> /\ Len(messages[s]) = 0
                         /\ DOMAIN messages[s] = {}
  BY <1>1
<1>5. \A s \in Session : \A i, t : ~Uses(messages[s], i, t) /\ ~Answers(messages[s], i, t)
  BY <1>4 DEF Uses, Answers
<1>6. DOMAIN calls = {} /\ DOMAIN tools = {} /\ Len(calls) = 0
  BY <1>1
<1>7. OneThingAtATime /\ UnansweredWereParked
  BY <1>1, <1>6 DEF OneThingAtATime, UnansweredWereParked
<1>8. QueueInv
  <2>1. Queue \in Seq(Events) /\ Len(Queue) = 0 + 0
    <3>1. buffer \in Seq(Events) /\ channel \in Seq(Events) /\ Len(buffer) = 0
          /\ Len(channel) = 0
      BY <1>1
    <3> QED
      BY <3>1, ConcatProperties DEF Queue
  <2>2. DOMAIN Queue = {}
    BY <2>1
  <2> QED
    BY <2>2 DEF QueueInv
<1>9. UsesInv /\ AnswersInv
  BY <1>5, <1>6 DEF UsesInv, OfItsSession, UsedOnce, Used, AnswersInv, AnswersUse,
                    AnsweredOnce
<1>10. OpenInv /\ PartedInv
  <2>1. Apart
    BY <1>4 DEF Apart
  <2> QED
    BY <1>5, <2>1 DEF OpenInv, UsedLast, OpenUses, PartedInv
<1>11. ContextInv
  BY <1>1 DEF ContextInv
<1>12. CallsInv
  <2>1. \A s \in Session : Positions(messages[s], "user") = {}
    BY <1>4 DEF Positions
  <2>2. UserMessages = {}
    BY <2>1, InUserMessages DEF Placed
  <2> QED
    BY <1>1, <1>6, <2>2, FS_EmptySet DEF CallsInv, Stopped, Paid
<1> QED
  BY <1>3, <1>7, <1>8, <1>9, <1>10, <1>11, <1>12 DEF Inv

LEMMA InvStep == Inv /\ [Next]_vars => Inv'
<1> SUFFICES ASSUME Inv, [Next]_vars PROVE Inv'
  OBVIOUS
<1>1. TypeOK /\ CallComing /\ ToolsComing
  BY AwaitedIs DEF Inv
<1>2. TypeOK'
  BY <1>1, TypeStep
<1>3. AwaitedIsComing'
  <2>1. CallComing'
    BY <1>1, CallComingStep DEF Inv
  <2>2. ToolsComing'
    BY <1>1, ToolsComingStep
  <2> QED
    BY <1>2, <2>1, <2>2, AwaitedIsNext
<1>4. OneThingAtATime' /\ QueueInv' /\ UsesInv' /\ AnswersInv'
  BY <1>1, OneThingStep, QueueStep, UsesStep, AnswersStep DEF Inv
<1>5. OpenInv' /\ PartedInv' /\ ContextInv'
  BY <1>1, OpenStep, PartedStep, ContextStep DEF Inv
<1>6. UnansweredWereParked'
  BY <1>1, <1>2, <1>5, ParkedStep DEF Inv, OpenInv
<1>7. CallsInv'
  BY <1>1, <1>2, StoppedStep, PaidStep DEF Inv, CallsInv
<1> QED
  BY <1>3, <1>4, <1>5, <1>6, <1>7 DEF Inv

LEMMA InvHolds == Spec => []Inv
BY InvInit, InvStep, PTL DEF Spec

(* What the loop waits for is running or its event is queued, however many   *)
(* calls were cancelled, failed or answered late before: the loop can only   *)
(* hang on a call whose stream failed (queue.rs:384-514).                    *)
THEOREM AwaitedHolds == Spec => []AwaitedIsComing
<1>1. Inv => AwaitedIsComing
  BY DEF Inv
<1> QED
  BY <1>1, InvHolds, PTL

(* One call or some tools run, a call that nobody waits for is cancelled,    *)
(* each user message pays for max_tool_iterations + 1 calls and no more, and *)
(* Shutdown leaves nothing running uncancelled (queue.rs:342-514).           *)
THEOREM CallsInHandHolds == Spec => []CallsInHand
<1>1. ASSUME Inv PROVE CallsInHand
  <2>1. TypeOK
    BY <1>1, AwaitedIs DEF Inv
  <2>2. Len(calls) \in Nat /\ DOMAIN calls \subseteq Nat \ {0}
    <3>1. calls \in Seq(Call)
      BY <2>1, TypesOf DEF Types
    <3> QED
      BY <3>1
  <2>3. \A c \in DOMAIN calls : calls[c].cancelled \in BOOLEAN
    <3>1. \A c \in DOMAIN calls : calls[c] \in Call
      BY <2>1, TypesOf DEF Types
    <3> QED
      BY <3>1 DEF Call
  <2>4. OneThingAtATime /\ Stopped /\ Paid
    BY <1>1 DEF Inv, CallsInv
  <2>5. StoppedIsQuiet
    BY <2>2, <2>3, <2>4 DEF OneThingAtATime, Stopped, StoppedIsQuiet
  <2>6. CallsPaidFor
    <3> DEFINE M == max_tool_iterations
               U == Cardinality(UserMessages)
    <3>1. M \in Nat /\ U \in Nat
      BY <2>4, FS_CardinalityType DEF Paid
    <3>2. Budget \in Nat
      BY <2>1 DEF TypeOK, Budget
    <3>3. Len(calls) > 0 => Len(calls) + Budget <= (M + 1) * U
      BY <2>4 DEF Paid
    <3> HIDE DEF M, U
    <3>4. (M + 1) * U \in Nat
      BY <3>1
    <3>5. Len(calls) <= (M + 1) * U
      BY <2>2, <3>2, <3>3, <3>4
    <3> QED
      BY <3>5 DEF CallsPaidFor, M, U
  <2> QED
    BY <2>4, <2>5, <2>6 DEF CallsInHand
<1> QED
  BY <1>1, InvHolds, PTL

LEMMA ResultsInOrder ==
  ASSUME TypeOK, AnswersInv
  PROVE  ResultsFollowUses
<1>1. SUFFICES ASSUME NEW s \in Session, NEW i \in DOMAIN messages[s],
                      messages[s][i].role = "results"
               PROVE  /\ messages[s][i].ids
                           \subseteq Ids(SubSeq(messages[s], 1, i - 1), "assistant")
                      /\ messages[s][i].ids
                           \cap Ids(SubSeq(messages[s], 1, i - 1), "results") = {}
  BY DEF ResultsFollowUses
<1> DEFINE m == messages[s]
           before == SubSeq(m, 1, i - 1)
<1>2. m \in Seq(Message(DOMAIN tools)) /\ DOMAIN tools \subseteq Nat
  BY TypesOf DEF Types
<1>3. i \in 1 .. Len(m) /\ Len(m) \in Nat /\ m[i].ids \subseteq Nat
  <2>1. m[i] \in Message(DOMAIN tools)
    BY <1>2
  <2> QED
    BY <1>2, <2>1 DEF Message
<1>4. DOMAIN before = 1 .. i - 1 /\ \A j \in 1 .. i - 1 : before[j] = m[j]
  BY <1>2, <1>3
<1> HIDE DEF before
<1>5. ASSUME NEW t \in m[i].ids
      PROVE  t \in Ids(before, "assistant") /\ t \notin Ids(before, "results")
  <2>1. Answers(m, i, t) /\ i \in Nat /\ t \in Nat
    BY <1>1, <1>3, <1>5 DEF Answers
  <2>2. PICK j \in 1 .. i - 1 : Uses(m, j, t)
    BY <2>1 DEF AnswersInv, AnswersUse
  <2>3. j \in Positions(before, "assistant") /\ t \in before[j].ids
    BY <1>4, <2>2 DEF Uses, Positions
  <2>4. ASSUME NEW k \in Positions(before, "results"), t \in before[k].ids
        PROVE  FALSE
    <3>1. k \in 1 .. i - 1 /\ Answers(m, k, t)
      BY <1>3, <1>4, <2>4 DEF Positions, Answers
    <3>2. k = i
      BY <2>1, <3>1 DEF AnswersInv, AnsweredOnce
    <3> QED
      BY <1>3, <3>1, <3>2
  <2> QED
    BY <2>3, <2>4 DEF Ids
<1> QED
  BY <1>5 DEF before

LEMMA ResultsInOneMessage ==
  ASSUME TypeOK, PartedInv
  PROVE  PartedByMessage
<1>1. SUFFICES ASSUME NEW s \in Session, NEW i \in DOMAIN messages[s],
                      NEW j \in DOMAIN messages[s], NEW k \in DOMAIN messages[s],
                      Alone(s), messages[s][i].role = "assistant", j < k,
                      messages[s][j].role = "results",
                      messages[s][i].ids \cap messages[s][j].ids # {},
                      messages[s][k].role = "results",
                      messages[s][i].ids \cap messages[s][k].ids # {}
               PROVE  Role(messages[s], i, k, "user")
  BY DEF PartedByMessage
<1>2. PICK t : t \in messages[s][i].ids /\ t \in messages[s][j].ids
  BY <1>1
<1>3. PICK u : u \in messages[s][i].ids /\ u \in messages[s][k].ids
  BY <1>1
<1>4. /\ Uses(messages[s], i, t) /\ Answers(messages[s], j, t)
      /\ Uses(messages[s], i, u) /\ Answers(messages[s], k, u)
  BY <1>1, <1>2, <1>3 DEF Uses, Answers
<1>5. i \in Nat /\ j \in Nat /\ k \in Nat /\ t \in Nat /\ u \in Nat
  BY <1>4, NamesTools
<1> QED
  BY <1>1, <1>4, <1>5 DEF PartedInv

(* The conversations the model is called with: every result behind its use   *)
(* and once, beside the results of the same answer, and no use open in a     *)
(* call's context, but for what a human message came between (queue.rs:384-  *)
(* 514, session.rs:315-355).                                                 *)
THEOREM ConversationHoldsAlways == Spec => []ConversationHolds
<1>1. ASSUME Inv PROVE ConversationHolds
  <2>1. TypeOK
    BY <1>1, AwaitedIs DEF Inv
  <2> QED
    BY <1>1, <2>1, ResultsInOrder, ResultsInOneMessage DEF Inv, ConversationHolds
<1> QED
  BY <1>1, InvHolds, PTL

(* An answer is added only to the conversation its call knew: a stale answer *)
(* is dropped, whatever is cancelled, finished or queued (queue.rs:455-514). *)
THEOREM AnswersLatestHolds == Spec => AnswersLatest
<1> DEFINE Latest ==
      \A s \in Session :
        Positions(messages'[s], "assistant") # Positions(messages[s], "assistant") =>
          Positions(messages[s], "user") = Positions(calls[Event.call].context, "user")
<1>1. ASSUME Inv, [Next]_vars PROVE Latest
  <2>1. TypeOK /\ ContextInv
    BY <1>1, AwaitedIs DEF Inv
  <2>2. CASE messages' = messages
    BY <2>2
  <2>3. CASE HumanDoes(Event.session)
    BY <2>1, <2>3, HumanUses
  <2>4. CASE ResultDoes(Event.tool, tools[Event.tool].session)
    BY <2>1, <2>4, ResultUses
  <2>5. CASE AnswerDoes(Event.call, calls[Event.call].session, Event.reply.tools)
    <3>1. Event.call = current /\ current \in DOMAIN calls
      BY <2>5 DEF AnswerDoes
    <3>2. current # 0
      <4>1. calls \in Seq(Call)
        BY <2>1, TypesOf DEF Types
      <4> QED
        BY <3>1, <4>1
    <3>3. Positions(calls[current].context, "user")
            = Positions(messages[calls[current].session], "user")
      BY <2>1, <3>2 DEF ContextInv
    <3>4. \A r \in Session \ {calls[Event.call].session} : messages'[r] = messages[r]
      BY <2>5 DEF AnswerDoes
    <3> QED
      BY <3>1, <3>3, <3>4
  <2> QED
    BY <1>1, <2>1, <2>2, <2>3, <2>4, <2>5, StepCases DEF Frame, ShutdownDoes
<1>2. Inv /\ [Next]_vars => [Latest]_vars
  BY <1>1
<1>3. Spec => [][Latest]_vars
  BY <1>2, InvHolds, PTL DEF Spec
<1> QED
  BY <1>3 DEF AnswersLatest

=============================================================================
