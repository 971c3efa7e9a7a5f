-------------------------- MODULE WriteBehindProofs --------------------------
(***************************************************************************)
(* Theorems about WriteBehind, for every set of flush() calls and every    *)
(* number of events: the queue is complete and attended to, and the write  *)
(* path implements DurableLog.                                             *)
(*                                                                         *)
(* The inductive invariant: the batch and the queue are consecutive events *)
(* that end with the last accepted one and leave no gap to the stored log; *)
(* and the barrier, the write and the continuations that are due exclude   *)
(* each other.                                                             *)
(***************************************************************************)
EXTENDS WriteBehind, FiniteSetTheorems, SequenceTheorems, TLAPS

\* Events before the batch, and events that are stored or will be by init.
Offset == accepted - (Len(batch) + Len(pending))
Stored == IF init = "ready" THEN Len(durable) ELSE seed

\* The queue continues the stored log up to the last accepted event.
SequenceOK ==
  /\ durable = Log!FirstEvents(Len(durable))
  /\ init # "ready" => durable = <<>>
  /\ Len(batch) + Len(pending) <= accepted
  /\ \A i \in 1..Len(batch) : batch[i] = Offset + i
  /\ \A i \in 1..Len(pending) : pending[i] = Offset + Len(batch) + i
  /\ Offset <= Stored /\ Stored <= accepted
  /\ \A c \in Caller : asked[c] <= accepted

\* Who may touch the queue next.
ControlOK ==
  /\ write # "writing" => batch = <<>>
  /\ resume # "none" => write = "none" /\ barrier # "none"
  /\ continuing => write = "none" \/ (write = "writing" /\ barrier # "none")
  /\ write # "none" => background \/ barrier = "draining"
  /\ barrier # "none" => init = "ready" /\ ~timer /\ ~deadlineExpired
  /\ barrier = "draining" /\ write = "failed" => automaticPaused
  /\ resume = "throw" => automaticPaused

\* Why queued events are written although no barrier is open.
AttendedOK ==
  pending # <<>> /\ barrier = "none" =>
    \/ timer \/ automaticPaused \/ init = "failed"
    \/ \E c \in Caller : answer[c] = "awaitInit"
    \/ deadlineExpired /\ (continuing \/ (background /\ write \in {"writing", "succeeded"}))

IInv == TypeOK /\ SequenceOK /\ ControlOK /\ AttendedOK

-----------------------------------------------------------------------------
(* Filtering consecutive events *)

\* Of consecutive events, the ones after n are the last ones.
LEMMA AfterConsecutive ==
  ASSUME NEW S, NEW s \in Seq(S), NEW a \in Nat, NEW n \in Nat, a <= n,
         \A i \in 1..Len(s) : s[i] = a + i
  PROVE  After(s, n) = [j \in 1..(IF a + Len(s) > n THEN (a + Len(s)) - n ELSE 0) |-> n + j]
<1> DEFINE b == n - a
           kept == {i \in 1..Len(s) : s[i] > n}
           upto(i) == {k \in kept : k <= i}
           nth(j) == CHOOSE i \in kept : Cardinality(upto(i)) = j
           m == IF a + Len(s) > n THEN (a + Len(s)) - n ELSE 0
<1>1. b \in Nat /\ Len(s) \in Nat
  BY LenProperties
<1>2. kept = (b + 1)..Len(s)
  BY <1>1
<1>3. Cardinality(kept) = m
  <2>1. b + 1 \in Int /\ Len(s) \in Int
    BY <1>1
  <2>2. Cardinality((b + 1)..Len(s)) = IF b + 1 > Len(s) THEN 0 ELSE Len(s) - (b + 1) + 1
    BY <2>1, FS_Interval
  <2>3. (IF b + 1 > Len(s) THEN 0 ELSE Len(s) - (b + 1) + 1) = m
    BY <1>1
  <2> QED BY <1>2, <2>2, <2>3
<1>4. \A i \in kept : Cardinality(upto(i)) = i - b
  <2> TAKE i \in kept
  <2>1. i \in (b + 1)..Len(s)
    BY <1>2
  <2>2. upto(i) = (b + 1)..i
    BY <1>1, <1>2, <2>1
  <2>3. b + 1 \in Int /\ i \in Int /\ ~(b + 1 > i)
    BY <1>1, <2>1
  <2>4. Cardinality((b + 1)..i) = i - (b + 1) + 1
    BY <2>3, FS_Interval
  <2> HIDE DEF upto, b
  <2> QED BY <1>1, <2>2, <2>3, <2>4
<1>5. \A j \in 1..m : nth(j) = b + j
  <2> TAKE j \in 1..m
  <2>1. b + j \in kept /\ \A i \in kept : i - b = j <=> i = b + j
    BY <1>1, <1>2
  <2> HIDE DEF kept
  <2>2. \A i \in kept : Cardinality(upto(i)) = j <=> i = b + j
    BY <1>4, <2>1
  <2> QED BY <2>1, <2>2
<1>6. \A j \in 1..m : s[b + j] = n + j
  BY <1>1
<1>7. After(s, n) = [j \in 1..Cardinality(kept) |-> s[nth(j)]]
  BY DEF After
<1> QED BY <1>3, <1>5, <1>6, <1>7

\* The first n events are a sequence of length n.
LEMMA FirstEventsSeq ==
  ASSUME NEW n \in Nat
  PROVE  /\ Log!FirstEvents(n) \in Seq(Nat) /\ Len(Log!FirstEvents(n)) = n
         /\ \A i \in 1..n : Log!FirstEvents(n)[i] = i
  BY DEF Log!FirstEvents

\* Storing what is new of consecutive events extends the stored prefix.
LEMMA StoreAfter ==
  ASSUME NEW S, NEW s \in Seq(S), NEW a \in Nat, NEW n \in Nat, a <= n,
         \A i \in 1..Len(s) : s[i] = a + i
  PROVE  Log!FirstEvents(n) \o After(s, n) =
           Log!FirstEvents(IF a + Len(s) > n THEN a + Len(s) ELSE n)
<1> DEFINE m == IF a + Len(s) > n THEN (a + Len(s)) - n ELSE 0
           f == [j \in 1..m |-> n + j]
           e == Log!FirstEvents(n)
<1>1. After(s, n) = f
  BY AfterConsecutive
<1>2. m \in Nat /\ n + m = (IF a + Len(s) > n THEN a + Len(s) ELSE n)
  BY LenProperties
<1> HIDE DEF m
<1>3. f \in Seq(Nat) /\ Len(f) = m /\ \A j \in 1..m : f[j] = n + j
  BY <1>2
<1>4. e \in Seq(Nat) /\ Len(e) = n /\ \A i \in 1..n : e[i] = i
  BY FirstEventsSeq
<1> HIDE DEF e, f
<1>5. /\ e \o f \in Seq(Nat) /\ Len(e \o f) = n + m
      /\ \A i \in 1..(n + m) : (e \o f)[i] = i
  <2>1. Len(e \o f) = n + m /\ e \o f \in Seq(Nat)
    BY <1>3, <1>4, ConcatProperties
  <2>2. ASSUME NEW i \in 1..(n + m)
        PROVE  (e \o f)[i] = i
    <3>1. (e \o f)[i] = IF i <= n THEN e[i] ELSE f[i - n]
      BY <1>2, <1>3, <1>4, ConcatProperties
    <3>2. CASE i <= n
      BY <1>4, <3>1, <3>2
    <3>3. CASE i > n
      <4>1. i - n \in 1..m /\ n + (i - n) = i
        BY <1>2, <3>3
      <4> QED BY <1>3, <3>1, <3>3, <4>1
    <3>4. i <= n \/ i > n
      OBVIOUS
    <3> QED BY <3>2, <3>3, <3>4
  <2> QED BY <2>1, <2>2
<1>6. n + m \in Nat
  BY <1>2
<1>7. e \o f = Log!FirstEvents(n + m)
  BY <1>5, <1>6, FirstEventsSeq, SeqEqual
<1> QED BY <1>1, <1>2, <1>7 DEF e

-----------------------------------------------------------------------------
(* The sequence of events *)

\* What SequenceOK reads.
queueVars == <<accepted, seed, init, durable, pending, batch, asked>>

\* Types and shape of the queue's part of the state.
Shape ==
  /\ accepted \in 0..MaxEvents /\ seed \in 0..MaxSeed
  /\ durable \in Seq(Event) /\ pending \in Seq(Event) /\ batch \in Seq(Event)
  /\ asked \in [Caller -> 0..MaxEvents]
  /\ SequenceOK

\* Numbers that the other lemmas compute with.
LEMMA QueueNumbers ==
  ASSUME Shape
  PROVE  /\ accepted \in Nat /\ seed \in Nat /\ MaxEvents \in Nat
         /\ Len(durable) \in Nat /\ Len(batch) \in Nat /\ Len(pending) \in Nat
         /\ Offset \in Nat /\ Stored \in Nat
         /\ Offset + Len(batch) + Len(pending) = accepted
  BY WriteBehindAssumption, LenProperties DEF Shape, SequenceOK, Offset, Stored

LEMMA ShapeFrame ==
  ASSUME Shape, UNCHANGED queueVars
  PROVE  Shape'
  BY DEF Shape, SequenceOK, Offset, Stored, queueVars, Event, Log!FirstEvents

\* An event is appended to the queue.
LEMMA EnqueueShape ==
  ASSUME Shape, Enqueue
  PROVE  Shape'
<1>1. /\ accepted' = accepted + 1 /\ accepted < MaxEvents
      /\ pending' = Append(pending, accepted + 1)
      /\ UNCHANGED <<seed, init, durable, batch, asked>>
  BY DEF Enqueue, writeVars, callVars
<1>2. accepted + 1 \in Event
  BY <1>1, QueueNumbers DEF Event
<1>3. /\ pending' \in Seq(Event) /\ Len(pending') = Len(pending) + 1
      /\ \A i \in 1..Len(pending) : pending'[i] = pending[i]
      /\ pending'[Len(pending) + 1] = accepted + 1
  BY <1>1, <1>2, AppendProperties DEF Shape
<1>4. Offset' = Offset /\ Stored' = Stored
  BY <1>1, <1>3, QueueNumbers DEF Offset, Stored
<1>5. \A i \in 1..Len(pending') : pending'[i] = Offset + Len(batch) + i
  <2> TAKE i \in 1..Len(pending')
  <2>1. CASE i \in 1..Len(pending)
    BY <1>3, <2>1 DEF Shape, SequenceOK
  <2>2. CASE i = Len(pending) + 1
    <3>1. Offset + Len(batch) + i = accepted + 1
      BY <2>2, QueueNumbers
    <3> QED BY <1>3, <2>2, <3>1
  <2> QED BY <1>3, <2>1, <2>2, QueueNumbers
<1>6. \A c \in Caller : asked'[c] <= accepted'
  BY <1>1, QueueNumbers DEF Shape, SequenceOK
<1>7. Len(batch') + Len(pending') <= accepted' /\ Offset' <= Stored' /\ Stored' <= accepted'
  BY <1>1, <1>3, <1>4, QueueNumbers DEF Shape, SequenceOK
<1>8. accepted' \in 0..MaxEvents
  BY <1>1, QueueNumbers
<1>9. /\ \A i \in 1..Len(batch') : batch'[i] = Offset' + i
      /\ \A i \in 1..Len(pending') : pending'[i] = Offset' + Len(batch') + i
  BY <1>1, <1>4, <1>5 DEF Shape, SequenceOK
<1> QED BY <1>1, <1>3, <1>6, <1>7, <1>8, <1>9 DEF Shape, SequenceOK, Log!FirstEvents, Event

\* A write takes the whole queue.
LEMMA StartWriteShape ==
  ASSUME Shape, batch = <<>>, NEW isBackground, StartWrite(pending, isBackground),
         UNCHANGED <<accepted, seed, init, durable, asked>>
  PROVE  Shape'
<1>1. batch' = pending /\ pending' = <<>> /\ Len(batch) = 0 /\ Len(pending') = 0
  BY DEF StartWrite
<1>2. pending' \in Seq(Event)
  BY <1>1
<1>3. Offset' = Offset /\ Stored' = Stored
  BY <1>1, QueueNumbers DEF Offset, Stored
<1>4. \A i \in 1..Len(batch') : batch'[i] = Offset' + i
  <2> TAKE i \in 1..Len(batch')
  <2>1. batch'[i] = Offset + 0 + i
    BY <1>1 DEF Shape, SequenceOK
  <2> QED BY <1>1, <1>3, <2>1, QueueNumbers
<1>5. \A i \in 1..Len(pending') : pending'[i] = Offset' + Len(batch') + i
  BY <1>1
<1>6. Len(batch') + Len(pending') <= accepted' /\ Offset' <= Stored' /\ Stored' <= accepted'
  BY <1>1, <1>3, QueueNumbers DEF Shape, SequenceOK
<1> QED BY <1>1, <1>2, <1>4, <1>5, <1>6 DEF Shape, SequenceOK, Log!FirstEvents, Event

\* A write that succeeds extends the stored prefix.
LEMMA WriteSucceedsShape ==
  ASSUME Shape, WriteSucceeds
  PROVE  /\ Shape'
         /\ \E n \in Len(durable)..accepted : durable' = Log!FirstEvents(n)
<1> DEFINE n == IF Offset + Len(batch) > Len(durable) THEN Offset + Len(batch) ELSE Len(durable)
<1>1. /\ init = "ready" /\ durable' = durable \o After(batch, Len(durable)) /\ batch' = <<>>
      /\ UNCHANGED <<accepted, seed, init, pending, asked>>
  BY DEF WriteSucceeds, Fresh, sessionVars, callVars
<1>2. Stored = Len(durable) /\ Offset <= Len(durable) /\ Len(durable) <= accepted
  BY <1>1 DEF Shape, SequenceOK, Stored
<1>3. Log!FirstEvents(Len(durable)) \o After(batch, Len(durable)) = Log!FirstEvents(n)
  BY <1>2, QueueNumbers, StoreAfter DEF Shape, SequenceOK
<1>4. durable' = Log!FirstEvents(n)
  BY <1>1, <1>3 DEF Shape, SequenceOK
<1>5. n \in Len(durable)..accepted /\ n \in Nat /\ Offset + Len(batch) <= n
  BY <1>2, QueueNumbers
<1> HIDE DEF n
<1>6. Len(durable') = n /\ durable' \in Seq(Event)
  <2>1. Len(durable') = n /\ durable' = [i \in 1..n |-> i]
    BY <1>4, <1>5, FirstEventsSeq DEF Log!FirstEvents
  <2>2. \A i \in 1..n : i \in Event
    BY <1>5, QueueNumbers DEF Event, Shape
  <2> QED BY <1>5, <2>1, <2>2
<1>7. Len(batch') = 0 /\ batch' \in Seq(Event)
  BY <1>1
<1>8. Offset' = Offset + Len(batch) /\ Stored' = n
  BY <1>1, <1>6, <1>7, QueueNumbers DEF Offset, Stored
<1>9. \A i \in 1..Len(pending') : pending'[i] = Offset' + Len(batch') + i
  <2> TAKE i \in 1..Len(pending')
  <2>1. pending'[i] = Offset + Len(batch) + i
    BY <1>1 DEF Shape, SequenceOK
  <2> QED BY <1>1, <1>7, <1>8, <2>1, QueueNumbers
<1>10. Len(batch') + Len(pending') <= accepted' /\ Offset' <= Stored' /\ Stored' <= accepted'
  BY <1>1, <1>5, <1>7, <1>8, QueueNumbers
<1>11. \A i \in 1..Len(batch') : batch'[i] = Offset' + i
  BY <1>7
<1>12. durable' = Log!FirstEvents(Len(durable))'
  BY <1>4, <1>6 DEF Log!FirstEvents
<1> QED
  <2>1. Shape'
    BY <1>1, <1>6, <1>7, <1>9, <1>10, <1>11, <1>12 DEF Shape, SequenceOK, Event
  <2> QED BY <1>4, <1>5, <2>1

\* A write that fails puts its batch back in front of the queue.
LEMMA WriteFailsShape ==
  ASSUME Shape, WriteFails
  PROVE  Shape'
<1>1. /\ pending' = batch \o pending /\ batch' = <<>>
      /\ UNCHANGED <<accepted, seed, init, durable, asked>>
  BY DEF WriteFails, sessionVars, callVars
<1>2. /\ pending' \in Seq(Event) /\ Len(pending') = Len(batch) + Len(pending)
      /\ \A i \in 1..(Len(batch) + Len(pending)) :
           pending'[i] = IF i <= Len(batch) THEN batch[i] ELSE pending[i - Len(batch)]
  BY <1>1, ConcatProperties DEF Shape
<1>3. Len(batch') = 0 /\ batch' \in Seq(Event)
  BY <1>1
<1>4. Offset' = Offset /\ Stored' = Stored
  BY <1>1, <1>2, <1>3, QueueNumbers DEF Offset, Stored
<1>5. \A i \in 1..Len(pending') : pending'[i] = Offset + i
  <2> TAKE i \in 1..Len(pending')
  <2>1. CASE i <= Len(batch)
    <3>1. i \in 1..Len(batch) /\ i \in 1..(Len(batch) + Len(pending))
      BY <1>2, <2>1, QueueNumbers
    <3>2. batch[i] = Offset + i
      BY <3>1 DEF Shape, SequenceOK
    <3> QED BY <1>2, <2>1, <3>1, <3>2
  <2>2. CASE i > Len(batch)
    <3> DEFINE k == i - Len(batch)
    <3>1. k \in 1..Len(pending) /\ Offset + Len(batch) + k = Offset + i
      BY <1>2, <2>2, QueueNumbers
    <3>2. pending'[i] = pending[k]
      BY <1>2, <2>2, QueueNumbers
    <3>3. pending[k] = Offset + Len(batch) + k
      BY <3>1 DEF Shape, SequenceOK
    <3> HIDE DEF k
    <3> QED BY <3>1, <3>2, <3>3
  <2> QED BY <1>2, <2>1, <2>2, QueueNumbers
<1>6. \A i \in 1..Len(pending') : pending'[i] = Offset' + Len(batch') + i
  BY <1>3, <1>4, <1>5, QueueNumbers
<1>7. Len(batch') + Len(pending') <= accepted' /\ Offset' <= Stored' /\ Stored' <= accepted'
  BY <1>1, <1>2, <1>3, <1>4, QueueNumbers DEF Shape, SequenceOK
<1>8. \A i \in 1..Len(batch') : batch'[i] = Offset' + i
  BY <1>3
<1> QED BY <1>1, <1>2, <1>3, <1>6, <1>7, <1>8 DEF Shape, SequenceOK, Log!FirstEvents, Event

\* Initialization stores the seed, or nothing.
LEMMA InitSettlesShape ==
  ASSUME Shape, NEW outcome \in {"ready", "failed"}, InitSettles(outcome)
  PROVE  /\ Shape'
         /\ \E n \in Len(durable)..accepted : durable' = Log!FirstEvents(n)
<1>1. /\ init = "pending" /\ init' = outcome
      /\ durable' = (IF outcome = "ready" THEN Log!FirstEvents(seed) ELSE durable)
      /\ UNCHANGED <<accepted, seed, pending, batch, asked>>
  BY DEF InitSettles, sessionVars, writeVars, callVars
<1>2. durable = <<>> /\ Len(durable) = 0 /\ Stored = seed /\ seed <= accepted
  BY <1>1 DEF Shape, SequenceOK, Stored
<1>3. Len(Log!FirstEvents(seed)) = seed /\ Log!FirstEvents(seed) \in Seq(Event)
  <2>1. \A i \in 1..seed : i \in Event
    BY <1>2, QueueNumbers DEF Event, Shape
  <2>2. Log!FirstEvents(seed) \in Seq(Event)
    BY <2>1, QueueNumbers DEF Log!FirstEvents
  <2> QED BY <2>2, QueueNumbers, FirstEventsSeq
<1>4. /\ durable' \in Seq(Event) /\ Stored' = seed
      /\ init' # "ready" => durable' = <<>>
      /\ durable' = Log!FirstEvents(Len(durable))'
      /\ \E n \in Len(durable)..accepted : durable' = Log!FirstEvents(n)
  <2>1. CASE outcome = "ready"
    <3>1. durable' = Log!FirstEvents(seed) /\ Len(durable') = seed
      BY <1>1, <1>3, <2>1
    <3>2. seed \in Len(durable)..accepted
      BY <1>2, QueueNumbers
    <3>3. durable' = Log!FirstEvents(Len(durable))'
      BY <3>1 DEF Log!FirstEvents
    <3>4. Stored' = seed
      BY <1>1, <2>1, <3>1 DEF Stored
    <3> QED BY <1>1, <1>3, <2>1, <3>1, <3>2, <3>3, <3>4
  <2>2. CASE outcome = "failed"
    <3>1. durable' = durable /\ Stored' = seed
      BY <1>1, <2>2 DEF Stored
    <3>2. durable = Log!FirstEvents(Len(durable))
      BY DEF Shape, SequenceOK
    <3>3. durable' = Log!FirstEvents(Len(durable))'
      BY <3>1, <3>2 DEF Log!FirstEvents
    <3>4. Len(durable) \in Len(durable)..accepted
      BY <1>2, QueueNumbers
    <3> QED BY <1>2, <3>1, <3>2, <3>3, <3>4 DEF Shape
  <2> QED BY <2>1, <2>2
<1>5. Offset' = Offset
  BY <1>1 DEF Offset
<1> QED
  <2>1. Shape'
    BY <1>1, <1>2, <1>4, <1>5 DEF Shape, SequenceOK, Event
  <2> QED BY <1>4, <2>1

-----------------------------------------------------------------------------
(* The inductive invariant *)

LEMMA InvShape ==
  ASSUME IInv
  PROVE  Shape
  BY DEF IInv, TypeOK, Shape

\* The control part of TypeOK.
ControlType ==
  /\ init \in {"pending", "ready", "failed"}
  /\ timer \in BOOLEAN /\ deadlineExpired \in BOOLEAN /\ automaticPaused \in BOOLEAN
  /\ write \in {"none", "writing", "succeeded", "failed"}
  /\ background \in BOOLEAN /\ continuing \in BOOLEAN
  /\ barrier \in {"none", "overlapping", "draining"}
  /\ resume \in {"none", "next", "throw"}
  /\ answer \in [Caller -> {"none", "awaitInit", "joined", "flushed", "refused"}]

LEMMA InvFromParts ==
  ASSUME Shape, ControlType, ControlOK, AttendedOK
  PROVE  IInv
  BY DEF IInv, TypeOK, Shape, ControlType

LEMMA InitInv ==
  ASSUME Init
  PROVE  IInv
<1>1. /\ accepted \in 0..MaxEvents /\ seed \in 0..MaxSeed /\ accepted = seed
      /\ MaxEvents \in Nat /\ seed \in Nat
  BY WriteBehindAssumption DEF Init
<1>2. /\ batch = <<>> /\ durable = <<>> /\ Len(batch) = 0 /\ Len(durable) = 0
      /\ init = "pending" /\ asked = [c \in Caller |-> 0]
  BY DEF Init
<1>3. \/ pending = <<>> /\ Len(pending) = 0
      \/ seed > 0 /\ pending = <<seed>> /\ Len(pending) = 1 /\ pending[1] = seed
  BY DEF Init
<1>4. pending \in Seq(Event)
  <2>1. seed > 0 => seed \in Event
    BY <1>1 DEF Event
  <2>2. \A e \in Event : <<e>> \in Seq(Event)
    OBVIOUS
  <2>3. <<>> \in Seq(Event)
    OBVIOUS
  <2> HIDE DEF Event
  <2> QED BY <2>1, <2>2, <2>3 DEF Init
<1>5. Shape
  <2>1. /\ Len(batch) + Len(pending) <= accepted /\ Offset <= Stored /\ Stored <= accepted
        /\ \A i \in 1..Len(pending) : pending[i] = Offset + Len(batch) + i
    <3>1. CASE Len(pending) = 0
      BY <1>1, <1>2, <3>1 DEF Offset, Stored
    <3>2. CASE seed > 0 /\ Len(pending) = 1 /\ pending[1] = seed
      BY <1>1, <1>2, <3>2 DEF Offset, Stored
    <3> QED BY <1>3, <3>1, <3>2
  <2>2. durable = Log!FirstEvents(Len(durable))
    BY <1>2 DEF Log!FirstEvents
  <2>3. \A c \in Caller : asked[c] <= accepted
    BY <1>1, <1>2
  <2>4. \A i \in 1..Len(batch) : batch[i] = Offset + i
    BY <1>2
  <2>5. /\ durable \in Seq(Event) /\ batch \in Seq(Event)
        /\ asked \in [Caller -> 0..MaxEvents]
    BY <1>1, <1>2
  <2> QED BY <1>1, <1>2, <1>4, <2>1, <2>2, <2>3, <2>4, <2>5 DEF Shape, SequenceOK
<1>6. ControlType /\ ControlOK
  BY DEF Init, ControlType, ControlOK
<1>7. AttendedOK
  BY DEF Init, AttendedOK
<1> QED BY <1>5, <1>6, <1>7, InvFromParts

\* Every operation of the controller and of flush() keeps the invariant.
LEMMA StepInv ==
  ASSUME IInv, [Next]_vars
  PROVE  IInv'
<1>0. ControlType /\ ControlOK /\ AttendedOK /\ Shape
  BY InvShape DEF IInv, TypeOK, ControlType
<1> SUFFICES Shape' /\ ControlType' /\ ControlOK' /\ AttendedOK'
  BY InvFromParts DEF IInv, TypeOK, Shape, ControlType
<1>1. ASSUME Enqueue
      PROVE  Shape' /\ ControlType' /\ ControlOK' /\ AttendedOK'
  <2>1. Shape'
    BY <1>0, <1>1, EnqueueShape
  <2>2. ControlType'
    BY <1>0, <1>1 DEF Enqueue, ControlType, timerVars, writeVars, barrierVars, callVars, sessionVars
  <2>3. ControlOK'
    BY <1>0, <1>1 DEF Enqueue, ControlType, ControlOK, timerVars, writeVars, barrierVars, callVars, sessionVars
  <2>4. AttendedOK'
    BY <1>0, <1>1 DEF Enqueue, ControlType, ControlOK, AttendedOK, timerVars, writeVars, barrierVars, callVars, sessionVars
  <2> QED BY <2>1, <2>2, <2>3, <2>4
<1>2. ASSUME NEW c \in Caller, FlushCalled(c)
      PROVE  Shape' /\ ControlType' /\ ControlOK' /\ AttendedOK'
  <2>1. Shape'
    <3>1. /\ UNCHANGED <<accepted, seed, init, durable, pending, batch>>
          /\ asked' = [asked EXCEPT ![c] = accepted]
      BY <1>2 DEF FlushCalled, sessionVars, writeVars
    <3>2. asked' \in [Caller -> 0..MaxEvents] /\ \A b \in Caller : asked'[b] <= accepted
      BY <1>0, <3>1, QueueNumbers DEF Shape, SequenceOK
    <3> QED BY <1>0, <3>1, <3>2 DEF Shape, SequenceOK, Offset, Stored, Log!FirstEvents, Event
  <2>2. ControlType'
    BY <1>0, <1>2 DEF FlushCalled, ControlType, timerVars, writeVars, barrierVars, callVars, sessionVars
  <2>3. ControlOK'
    BY <1>0, <1>2 DEF FlushCalled, ControlType, ControlOK, timerVars, writeVars, barrierVars, callVars, sessionVars
  <2>4. AttendedOK'
    BY <1>0, <1>2 DEF FlushCalled, ControlType, ControlOK, AttendedOK, timerVars, writeVars, barrierVars, callVars, sessionVars
  <2> QED BY <2>1, <2>2, <2>3, <2>4
<1>3. ASSUME Deadline
      PROVE  Shape' /\ ControlType' /\ ControlOK' /\ AttendedOK'
  <2>1. Shape'
    <3>1. CASE write = "none"
      <4>1. batch = <<>> /\ StartWrite(pending, TRUE)
        BY <1>0, <1>3, <3>1 DEF Deadline, ControlType, ControlOK
      <4>2. UNCHANGED <<accepted, seed, init, durable, asked>>
        BY <1>3 DEF Deadline, sessionVars, callVars
      <4> QED BY <1>0, <4>1, <4>2, StartWriteShape
    <3>2. CASE ~(write = "none")
      BY <1>0, <1>3, <3>2, ShapeFrame DEF Deadline, queueVars, sessionVars, writeVars, callVars
    <3> QED BY <3>1, <3>2
  <2>2. ControlType'
    BY <1>0, <1>3 DEF Deadline, StartWrite, MicrotasksRan, ControlType, timerVars, writeVars, barrierVars, callVars, sessionVars
  <2>3. ControlOK'
    BY <1>0, <1>3 DEF Deadline, StartWrite, MicrotasksRan, ControlType, ControlOK, timerVars, writeVars, barrierVars, callVars, sessionVars
  <2>4. AttendedOK'
    BY <1>0, <1>3 DEF Deadline, StartWrite, MicrotasksRan, ControlType, ControlOK, AttendedOK, timerVars, writeVars, barrierVars, callVars, sessionVars
  <2> QED BY <2>1, <2>2, <2>3, <2>4
<1>4. ASSUME ContinueAutomatic
      PROVE  Shape' /\ ControlType' /\ ControlOK' /\ AttendedOK'
  <2>1. Shape'
    <3>1. CASE barrier = "none" /\ pending # <<>> /\ deadlineExpired
      <4>1. batch = <<>> /\ StartWrite(pending, TRUE)
        BY <1>0, <1>4, <3>1 DEF ContinueAutomatic, ControlType, ControlOK
      <4>2. UNCHANGED <<accepted, seed, init, durable, asked>>
        BY <1>4 DEF ContinueAutomatic, sessionVars, callVars
      <4> QED BY <1>0, <4>1, <4>2, StartWriteShape
    <3>2. CASE ~(barrier = "none" /\ pending # <<>> /\ deadlineExpired)
      BY <1>0, <1>4, <3>2, ShapeFrame DEF ContinueAutomatic, queueVars, sessionVars, writeVars, callVars
    <3> QED BY <3>1, <3>2
  <2>2. ControlType'
    BY <1>0, <1>4 DEF ContinueAutomatic, StartWrite, ControlType, timerVars, writeVars, barrierVars, callVars, sessionVars
  <2>3. ControlOK'
    BY <1>0, <1>4 DEF ContinueAutomatic, StartWrite, ControlType, ControlOK, timerVars, writeVars, barrierVars, callVars, sessionVars
  <2>4. AttendedOK'
    BY <1>0, <1>4 DEF ContinueAutomatic, StartWrite, ControlType, ControlOK, AttendedOK, timerVars, writeVars, barrierVars, callVars, sessionVars
  <2> QED BY <2>1, <2>2, <2>3, <2>4
<1>5. ASSUME WriteSucceeds
      PROVE  Shape' /\ ControlType' /\ ControlOK' /\ AttendedOK'
  <2>1. Shape'
    BY <1>0, <1>5, WriteSucceedsShape
  <2>2. ControlType'
    BY <1>0, <1>5 DEF WriteSucceeds, MicrotasksRan, ControlType, timerVars, writeVars, barrierVars, callVars, sessionVars
  <2>3. ControlOK'
    BY <1>0, <1>5 DEF WriteSucceeds, MicrotasksRan, ControlType, ControlOK, timerVars, writeVars, barrierVars, callVars, sessionVars
  <2>4. AttendedOK'
    BY <1>0, <1>5 DEF WriteSucceeds, MicrotasksRan, ControlType, ControlOK, AttendedOK, timerVars, writeVars, barrierVars, callVars, sessionVars
  <2> QED BY <2>1, <2>2, <2>3, <2>4
<1>6. ASSUME WriteFails
      PROVE  Shape' /\ ControlType' /\ ControlOK' /\ AttendedOK'
  <2>1. Shape'
    BY <1>0, <1>6, WriteFailsShape
  <2>2. ControlType'
    BY <1>0, <1>6 DEF WriteFails, MicrotasksRan, ControlType, timerVars, writeVars, barrierVars, callVars, sessionVars
  <2>3. ControlOK'
    BY <1>0, <1>6 DEF WriteFails, MicrotasksRan, ControlType, ControlOK, timerVars, writeVars, barrierVars, callVars, sessionVars
  <2>4. AttendedOK'
    BY <1>0, <1>6 DEF WriteFails, MicrotasksRan, ControlType, ControlOK, AttendedOK, timerVars, writeVars, barrierVars, callVars, sessionVars
  <2> QED BY <2>1, <2>2, <2>3, <2>4
<1>7. ASSUME WriteReleased
      PROVE  Shape' /\ ControlType' /\ ControlOK' /\ AttendedOK'
  <2>1. Shape'
    BY <1>0, <1>7, ShapeFrame DEF WriteReleased, queueVars, sessionVars, writeVars, callVars
  <2>2. ControlType'
    BY <1>0, <1>7 DEF WriteReleased, ControlType, timerVars, writeVars, barrierVars, callVars, sessionVars
  <2>3. ControlOK'
    BY <1>0, <1>7 DEF WriteReleased, ControlType, ControlOK, timerVars, writeVars, barrierVars, callVars, sessionVars
  <2>4. AttendedOK'
    BY <1>0, <1>7 DEF WriteReleased, ControlType, ControlOK, AttendedOK, timerVars, writeVars, barrierVars, callVars, sessionVars
  <2> QED BY <2>1, <2>2, <2>3, <2>4
<1>8. ASSUME NEW c \in Caller, FlushRefused(c)
      PROVE  Shape' /\ ControlType' /\ ControlOK' /\ AttendedOK'
  <2>1. Shape'
    BY <1>0, <1>8, ShapeFrame DEF FlushRefused, queueVars, sessionVars, writeVars, callVars
  <2>2. ControlType'
    BY <1>0, <1>8 DEF FlushRefused, ControlType, timerVars, writeVars, barrierVars, callVars, sessionVars
  <2>3. ControlOK'
    BY <1>0, <1>8 DEF FlushRefused, ControlType, ControlOK, timerVars, writeVars, barrierVars, callVars, sessionVars
  <2>4. AttendedOK'
    BY <1>0, <1>8 DEF FlushRefused, ControlType, ControlOK, AttendedOK, timerVars, writeVars, barrierVars, callVars, sessionVars
  <2> QED BY <2>1, <2>2, <2>3, <2>4
<1>9. ASSUME NEW c \in Caller, JoinBarrier(c)
      PROVE  Shape' /\ ControlType' /\ ControlOK' /\ AttendedOK'
  <2>1. Shape'
    BY <1>0, <1>9, ShapeFrame DEF JoinBarrier, queueVars, sessionVars, writeVars, callVars
  <2>2. ControlType'
    BY <1>0, <1>9 DEF JoinBarrier, ControlType, timerVars, writeVars, barrierVars, callVars, sessionVars
  <2>3. ControlOK'
    BY <1>0, <1>9 DEF JoinBarrier, ControlType, ControlOK, timerVars, writeVars, barrierVars, callVars, sessionVars
  <2>4. AttendedOK'
    BY <1>0, <1>9 DEF JoinBarrier, ControlType, ControlOK, AttendedOK, timerVars, writeVars, barrierVars, callVars, sessionVars
  <2> QED BY <2>1, <2>2, <2>3, <2>4
<1>10. ASSUME NEW c \in Caller, OpenBarrier(c)
      PROVE  Shape' /\ ControlType' /\ ControlOK' /\ AttendedOK'
  <2>1. Shape'
    <3>1. CASE write = "none" /\ pending # <<>>
      <4>1. batch = <<>> /\ StartWrite(pending, FALSE)
        BY <1>0, <1>10, <3>1 DEF OpenBarrier, ControlType, ControlOK, DrainOrClose, CloseBarrier
      <4>2. UNCHANGED <<accepted, seed, init, durable, asked>>
        BY <1>10 DEF OpenBarrier, sessionVars, callVars
      <4> QED BY <1>0, <4>1, <4>2, StartWriteShape
    <3>2. CASE ~(write = "none" /\ pending # <<>>)
      BY <1>0, <1>10, <3>2, ShapeFrame DEF OpenBarrier, queueVars, sessionVars, writeVars, callVars, DrainOrClose, CloseBarrier
    <3> QED BY <3>1, <3>2
  <2>2. ControlType'
    BY <1>0, <1>10 DEF OpenBarrier, DrainOrClose, CloseBarrier, StartWrite, ControlType, timerVars, writeVars, barrierVars, callVars, sessionVars
  <2>3. ControlOK'
    BY <1>0, <1>10 DEF OpenBarrier, DrainOrClose, CloseBarrier, StartWrite, ControlType, ControlOK, timerVars, writeVars, barrierVars, callVars, sessionVars
  <2>4. AttendedOK'
    BY <1>0, <1>10 DEF OpenBarrier, DrainOrClose, CloseBarrier, StartWrite, ControlType, ControlOK, AttendedOK, timerVars, writeVars, barrierVars, callVars, sessionVars
  <2> QED BY <2>1, <2>2, <2>3, <2>4
<1>11. ASSUME DrainContinues
      PROVE  Shape' /\ ControlType' /\ ControlOK' /\ AttendedOK'
  <2>1. Shape'
    <3>1. CASE pending # <<>>
      <4>1. batch = <<>> /\ StartWrite(pending, FALSE)
        BY <1>0, <1>11, <3>1 DEF DrainContinues, ControlType, ControlOK, DrainOrClose, CloseBarrier
      <4>2. UNCHANGED <<accepted, seed, init, durable, asked>>
        BY <1>11 DEF DrainContinues, sessionVars, callVars
      <4> QED BY <1>0, <4>1, <4>2, StartWriteShape
    <3>2. CASE ~(pending # <<>>)
      BY <1>0, <1>11, <3>2, ShapeFrame DEF DrainContinues, queueVars, sessionVars, writeVars, callVars, DrainOrClose, CloseBarrier
    <3> QED BY <3>1, <3>2
  <2>2. ControlType'
    BY <1>0, <1>11 DEF DrainContinues, DrainOrClose, CloseBarrier, StartWrite, ControlType, timerVars, writeVars, barrierVars, callVars, sessionVars
  <2>3. ControlOK'
    BY <1>0, <1>11 DEF DrainContinues, DrainOrClose, CloseBarrier, StartWrite, ControlType, ControlOK, timerVars, writeVars, barrierVars, callVars, sessionVars
  <2>4. AttendedOK'
    BY <1>0, <1>11 DEF DrainContinues, DrainOrClose, CloseBarrier, StartWrite, ControlType, ControlOK, AttendedOK, timerVars, writeVars, barrierVars, callVars, sessionVars
  <2> QED BY <2>1, <2>2, <2>3, <2>4
<1>12. ASSUME DrainThrows
      PROVE  Shape' /\ ControlType' /\ ControlOK' /\ AttendedOK'
  <2>1. Shape'
    BY <1>0, <1>12, ShapeFrame DEF DrainThrows, queueVars, sessionVars, writeVars, callVars, CloseBarrier
  <2>2. ControlType'
    BY <1>0, <1>12 DEF DrainThrows, CloseBarrier, ControlType, timerVars, writeVars, barrierVars, callVars, sessionVars
  <2>3. ControlOK'
    BY <1>0, <1>12 DEF DrainThrows, CloseBarrier, ControlType, ControlOK, timerVars, writeVars, barrierVars, callVars, sessionVars
  <2>4. AttendedOK'
    BY <1>0, <1>12 DEF DrainThrows, CloseBarrier, ControlType, ControlOK, AttendedOK, timerVars, writeVars, barrierVars, callVars, sessionVars
  <2> QED BY <2>1, <2>2, <2>3, <2>4
<1>13. ASSUME NEW outcome \in {"ready", "failed"}, InitSettles(outcome)
      PROVE  Shape' /\ ControlType' /\ ControlOK' /\ AttendedOK'
  <2>1. Shape'
    BY <1>0, <1>13, InitSettlesShape
  <2>2. ControlType'
    BY <1>0, <1>13 DEF InitSettles, ControlType, timerVars, writeVars, barrierVars, callVars, sessionVars
  <2>3. ControlOK'
    BY <1>0, <1>13 DEF InitSettles, ControlType, ControlOK, timerVars, writeVars, barrierVars, callVars, sessionVars
  <2>4. AttendedOK'
    BY <1>0, <1>13 DEF InitSettles, ControlType, AttendedOK, timerVars, writeVars, barrierVars, callVars, sessionVars
  <2> QED BY <2>1, <2>2, <2>3, <2>4
<1>14. CASE UNCHANGED vars
  <2>1. Shape'
    BY <1>0, <1>14, ShapeFrame DEF vars, queueVars, timerVars, writeVars, barrierVars, callVars, sessionVars
  <2>2. ControlType' /\ ControlOK' /\ AttendedOK'
    BY <1>0, <1>14 DEF vars, ControlType, ControlOK, AttendedOK, timerVars, writeVars, barrierVars, callVars, sessionVars
  <2> QED BY <2>1, <2>2
<1> QED
  BY <1>1, <1>2, <1>3, <1>4, <1>5, <1>6, <1>7, <1>8, <1>9, <1>10, <1>11, <1>12, <1>13, <1>14 DEF Next, Continuations, Environment

\* The queue's invariant holds in every state of every behaviour: the batch
\* and the queue hold the newest events in order, with no gap to the stored log.
THEOREM QueueIsInductive == Spec => []IInv
<1>1. Init => IInv
  BY InitInv
<1>2. IInv /\ [Next]_vars => IInv'
  BY StepInv
<1> QED BY <1>1, <1>2, PTL DEF Spec

\* No accepted event is lost, duplicated or reordered between the store, the
\* write in progress and the queue; queued events are attended to by a timer, a
\* write, a barrier or a caller; and an open barrier has the queue to itself.
THEOREM QueueIsComplete == Spec => []QueueInv
<1>1. ASSUME IInv
      PROVE  NothingLost
  <2> DEFINE stored == IF init = "ready" THEN durable ELSE Log!FirstEvents(seed)
             queue == batch \o pending
             n == IF Offset + Len(queue) > Stored THEN Offset + Len(queue) ELSE Stored
  <2>1. Shape
    BY <1>1, InvShape
  <2>2. stored = Log!FirstEvents(Stored) /\ Len(stored) = Stored
    BY <2>1, QueueNumbers, FirstEventsSeq DEF Shape, SequenceOK, Stored
  <2>3. /\ queue \in Seq(Event) /\ Len(queue) = Len(batch) + Len(pending)
        /\ \A i \in 1..Len(queue) : queue[i] = Offset + i
    <3>1. /\ queue \in Seq(Event) /\ Len(queue) = Len(batch) + Len(pending)
          /\ \A i \in 1..(Len(batch) + Len(pending)) :
               queue[i] = IF i <= Len(batch) THEN batch[i] ELSE pending[i - Len(batch)]
      BY <2>1, ConcatProperties DEF Shape
    <3>2. ASSUME NEW i \in 1..(Len(batch) + Len(pending))
          PROVE  (IF i <= Len(batch) THEN batch[i] ELSE pending[i - Len(batch)]) = Offset + i
      <4>1. CASE i <= Len(batch)
        <5>1. i \in 1..Len(batch)
          BY <2>1, <4>1, QueueNumbers
        <5> QED BY <2>1, <4>1, <5>1 DEF Shape, SequenceOK
      <4>2. CASE i > Len(batch)
        <5> DEFINE k == i - Len(batch)
        <5>1. k \in 1..Len(pending) /\ Offset + Len(batch) + k = Offset + i /\ ~(i <= Len(batch))
          BY <2>1, <4>2, QueueNumbers
        <5>2. pending[k] = Offset + Len(batch) + k
          BY <2>1, <5>1 DEF Shape, SequenceOK
        <5> HIDE DEF Offset
        <5> QED BY <5>1, <5>2
      <4> QED BY <2>1, <4>1, <4>2, QueueNumbers
    <3> HIDE DEF queue
    <3> QED BY <3>1, <3>2
  <2> HIDE DEF queue
  <2>4. n = accepted
    BY <2>1, <2>3, QueueNumbers DEF Shape, SequenceOK
  <2>5. Log!FirstEvents(Stored) \o After(queue, Stored) = Log!FirstEvents(n)
    BY <2>1, <2>3, QueueNumbers, StoreAfter DEF Shape, SequenceOK
  <2> HIDE DEF n, stored
  <2>6. stored \o After(queue, Len(stored)) = Log!FirstEvents(accepted)
    BY <2>2, <2>4, <2>5
  <2> QED BY <2>6 DEF stored, queue, NothingLost
<1>2. ASSUME IInv
      PROVE  NoStrand
  BY <1>2 DEF IInv, AttendedOK, ControlOK, TypeOK, NoStrand
<1>3. ASSUME IInv
      PROVE  BarrierOwnsTheQueue
  BY <1>3 DEF IInv, ControlOK, BarrierOwnsTheQueue
<1>4. IInv => QueueInv
  BY <1>1, <1>2, <1>3 DEF QueueInv, IInv
<1> QED BY <1>4, QueueIsInductive, PTL

-----------------------------------------------------------------------------
(* The refinement of DurableLog *)

\* The answers that are given are given to waiting calls, and "flushed" only
\* when all that was asked for is stored.
LEMMA AnswersPersist ==
  ASSUME IInv, UNCHANGED <<accepted, asked>>, ControlType',
         \E n \in Len(durable)..accepted : durable' = Log!FirstEvents(n),
         \A c \in Caller : answer'[c] # answer[c] =>
           /\ answer[c] \in {"awaitInit", "joined"}
           /\ \/ answer'[c] \in {"joined", "refused"}
              \/ answer'[c] = "flushed" /\ asked[c] <= Len(durable')
  PROVE  Log!Persist
<1>1. Answered' \in [Caller -> {"none", "asked", "flushed", "refused"}]
  BY DEF ControlType, Answered
<1>2. ASSUME NEW c \in Caller, Answered'[c] # Answered[c]
      PROVE  /\ Answered[c] = "asked"
             /\ Answered'[c] = "refused" \/ asked[c] <= Len(durable')
  BY <1>2 DEF Answered
<1> QED BY <1>1, <1>2 DEF Log!Persist

\* The write path implements DurableLog: the stored log is always a prefix of
\* the accepted events, and a flush() that resolves is a barrier.
THEOREM WritePathImplementsDurableLog == Spec => ImplementsDurableLog
<1>1. Init => Log!Init
  <2> SUFFICES ASSUME Init PROVE Log!Init
    OBVIOUS
  <2>1. accepted \in Nat
    BY WriteBehindAssumption DEF Init
  <2>2. Answered = [c \in Caller |-> "none"]
    BY DEF Init, Answered
  <2> QED BY <2>1, <2>2 DEF Init, Log!Init
<1>2. ASSUME IInv, IInv', [Next]_vars
      PROVE  [Log!Next]_(Log!logVars)
  <2> USE DEF Log!logVars
  <2>1. Shape /\ ControlType' /\ ControlType /\ ControlOK
    BY <1>2, InvShape DEF IInv, TypeOK, ControlType
  <2>2. \E n \in Len(durable)..accepted : durable = Log!FirstEvents(n)
    <3>1. Len(durable) \in Len(durable)..accepted
      BY <2>1, QueueNumbers DEF Shape, SequenceOK, Stored
    <3> QED BY <2>1, <3>1 DEF Shape, SequenceOK
  <2>3. CASE Enqueue
    BY <2>3 DEF Enqueue, Log!Next, Log!Accept, Answered, callVars
  <2>4. ASSUME NEW c \in Caller, FlushCalled(c)
        PROVE  Log!Ask(c)
    <3>1. answer[c] = "none" /\ answer' = [answer EXCEPT ![c] = "awaitInit"]
      BY <2>4 DEF FlushCalled
    <3>2. Answered[c] = "none" /\ Answered' = [Answered EXCEPT ![c] = "asked"]
      BY <2>1, <3>1 DEF Answered, ControlType
    <3> QED BY <2>4, <3>2 DEF FlushCalled, Log!Ask, sessionVars
  <2>5. ASSUME NEW c \in Caller, FlushRefused(c)
        PROVE  Log!Persist
    <3>1. /\ UNCHANGED <<accepted, asked, durable>>
          /\ answer[c] = "awaitInit" /\ answer' = [answer EXCEPT ![c] = "refused"]
      BY <2>5 DEF FlushRefused, sessionVars
    <3> QED BY <1>2, <2>1, <2>2, <3>1, AnswersPersist DEF ControlType
  <2>6. ASSUME NEW c \in Caller, JoinBarrier(c)
        PROVE  Log!Persist
    <3>1. /\ UNCHANGED <<accepted, asked, durable>>
          /\ answer[c] = "awaitInit" /\ answer' = [answer EXCEPT ![c] = "joined"]
      BY <2>6 DEF JoinBarrier, sessionVars
    <3> QED BY <1>2, <2>1, <2>2, <3>1, AnswersPersist DEF ControlType
  <2>7. ASSUME init = "ready", write = "none", pending = <<>>
        PROVE  \A c \in Caller : asked[c] <= Len(durable)
    <3>1. Len(batch) = 0 /\ Len(pending) = 0
      BY <2>1, <2>7 DEF ControlOK
    <3>2. Len(durable) = accepted
      BY <2>1, <2>7, <3>1, QueueNumbers DEF Shape, SequenceOK, Offset, Stored
    <3> QED BY <2>1, <3>2 DEF Shape, SequenceOK
  <2>8. ASSUME NEW c \in Caller, OpenBarrier(c)
        PROVE  Log!Persist
    <3>1. UNCHANGED <<accepted, asked, durable>> /\ answer[c] = "awaitInit" /\ init = "ready"
      BY <2>8 DEF OpenBarrier, sessionVars
    <3>2. \A b \in Caller : answer'[b] # answer[b] =>
            /\ answer[b] \in {"awaitInit", "joined"}
            /\ \/ answer'[b] \in {"joined", "refused"}
               \/ answer'[b] = "flushed" /\ asked[b] <= Len(durable')
      BY <2>1, <2>7, <2>8, <3>1 DEF OpenBarrier, DrainOrClose, CloseBarrier, ControlType
    <3> QED BY <1>2, <2>1, <2>2, <3>1, <3>2, AnswersPersist
  <2>9. CASE DrainContinues
    <3>1. UNCHANGED <<accepted, asked, durable>> /\ init = "ready" /\ write = "none"
      BY <2>1, <2>9 DEF DrainContinues, sessionVars, ControlOK
    <3>2. \A b \in Caller : answer'[b] # answer[b] =>
            /\ answer[b] \in {"awaitInit", "joined"}
            /\ \/ answer'[b] \in {"joined", "refused"}
               \/ answer'[b] = "flushed" /\ asked[b] <= Len(durable')
      BY <2>1, <2>7, <2>9, <3>1 DEF DrainContinues, DrainOrClose, CloseBarrier, ControlType
    <3>3. Log!Persist
      BY <1>2, <2>1, <2>2, <3>1, <3>2, AnswersPersist
    <3> QED BY <3>3 DEF Log!Next
  <2>10. CASE DrainThrows
    <3>1. UNCHANGED <<accepted, asked, durable>>
      BY <2>10 DEF DrainThrows, sessionVars
    <3>2. \A b \in Caller : answer'[b] # answer[b] =>
            answer[b] = "joined" /\ answer'[b] = "refused"
      BY <2>1, <2>10 DEF DrainThrows, CloseBarrier, ControlType
    <3>3. Log!Persist
      BY <1>2, <2>1, <2>2, <3>1, <3>2, AnswersPersist
    <3> QED BY <3>3 DEF Log!Next
  <2>11. CASE WriteSucceeds
    <3>1. UNCHANGED <<accepted, asked, answer>>
      BY <2>11 DEF WriteSucceeds, sessionVars, callVars
    <3>2. Log!Persist
      BY <1>2, <2>1, <2>11, <3>1, WriteSucceedsShape, AnswersPersist
    <3> QED BY <3>2 DEF Log!Next
  <2>12. ASSUME NEW outcome \in {"ready", "failed"}, InitSettles(outcome)
         PROVE  Log!Persist
    <3>1. UNCHANGED <<accepted, asked, answer>>
      BY <2>12 DEF InitSettles, sessionVars, callVars
    <3> QED BY <1>2, <2>1, <2>12, <3>1, InitSettlesShape, AnswersPersist
  <2>13. CASE \/ Deadline \/ ContinueAutomatic \/ WriteFails \/ WriteReleased \/ UNCHANGED vars
    <3>1. UNCHANGED <<accepted, durable, asked, answer>>
      BY <2>13 DEF Deadline, ContinueAutomatic, WriteFails, WriteReleased, vars,
                   sessionVars, callVars
    <3> QED BY <3>1 DEF Answered
  <2> QED
    BY <1>2, <2>3, <2>4, <2>5, <2>6, <2>8, <2>9, <2>10, <2>11, <2>12, <2>13
    DEF Next, Continuations, Environment, Log!Next
<1> QED
  BY <1>1, <1>2, QueueIsInductive, PTL DEF Spec, ImplementsDurableLog, Log!Spec
=============================================================================
