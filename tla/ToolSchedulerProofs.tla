------------------------- MODULE ToolSchedulerProofs -------------------------
(***************************************************************************)
(* Theorems about ToolScheduler, for every number of calls, pool limit and *)
(* number of registry changes.                                             *)
(*                                                                         *)
(* The inductive invariant says where a call of the open group can be:     *)
(* being prepared, running, waiting for its commit, or committed; what the *)
(* log holds follows from the two counters.                                *)
(***************************************************************************)
EXTENDS ToolScheduler, FiniteSetTheorems, SequenceTheorems, TLAPS

\* Awaits of runGroup(); between groups nothing is dispatched.
InGroup == {"preparing", "commit", "finalizing", "race", "draining", "failed"}
Between == {"classify", "skip", "skipResult", "returned"}

\* The counters of the open group.
CountersOK ==
  /\ committed <= started
  /\ pc \in InGroup =>
       /\ base <= start /\ base <= committed /\ started <= limit /\ base < started
       /\ start = started \/ (pc \in {"preparing", "draining", "failed"} /\ start + 1 = started)
       /\ pc = "preparing" => start + 1 = started
  /\ pc = "classify" => committed = started
  /\ pc = "skipResult" => started < N
  /\ pc = "returned" => started = N
  /\ pc = "finalizing" => committed < started

\* Where the calls of the group are: dispatched calls belong to it, and one that
\* is neither committed nor under way has its slot, unless the group failed.
PoolOK ==
  /\ pc \in Between => inFlight = {} /\ ~failure
  /\ pc \in InGroup => inFlight \subseteq (base + 1)..start
  /\ \A c \in settled : c <= started /\ (pc = "preparing" => c # started)
  /\ \A c \in Call : slots[c] # "none" => c <= started
  /\ pc \in InGroup /\ ~failure =>
       \A c \in (committed + 1)..started :
         slots[c] # "none" \/ c \in Running \/ (pc = "preparing" /\ c = started)
  /\ pc = "failed" => Running = {}
  /\ pc = "preparing" => Cardinality(inFlight) < MaxParallel
  /\ Cardinality(inFlight) <= MaxParallel

\* An exclusive group has one call; a parallel group started none as exclusive.
ModeOK ==
  /\ pc \in {"classify"} \union InGroup => \A c \in alone : c <= started
  /\ pc \in InGroup =>
       /\ mode = "exclusive" => limit = base + 1
       /\ mode = "parallel" => \A c \in alone : c <= base

\* What the log holds, by the counters; the loop over the skipped calls moves
\* started alone.
LogOK ==
  /\ Logged("call") = 1..(IF pc = "skipResult" THEN started + 1 ELSE started)
  /\ Logged("result") = 1..(IF pc \in {"skip", "skipResult", "returned"} THEN started
                                                                        ELSE committed)

IInv == TypeOK /\ CountersOK /\ PoolOK /\ ModeOK /\ LogOK /\ ModelOrder

-----------------------------------------------------------------------------
(* The log *)

EventType == {"call", "result"} \X Call

\* What the first n events mention depends on them alone.
LEMMA MentionedPrefix ==
  ASSUME NEW l, NEW m, NEW n, \A i \in 1..n : m[i] = l[i], NEW k
  PROVE  Mentioned(m, n, k) = Mentioned(l, n, k)
  BY DEF Mentioned

\* m is l with one more event.
Extends(l, m, kind, c) ==
  /\ l \in Seq(EventType) /\ m \in Seq(EventType)
  /\ Len(l) \in Nat /\ Len(m) = Len(l) + 1
  /\ m[Len(l) + 1] = <<kind, c>>
  /\ \A i \in 1..Len(l) : m[i] = l[i]

LEMMA AppendExtends ==
  ASSUME log \in Seq(EventType), NEW kind \in {"call", "result"}, NEW c \in Call,
         AppendEvent(kind, c)
  PROVE  Extends(log, log', kind, c)
<1>1. <<kind, c>> \in EventType
  BY DEF EventType
<1> QED BY <1>1, AppendProperties, LenProperties DEF Extends, AppendEvent

\* Appending mentions one more call.
LEMMA ExtendsMentions ==
  ASSUME NEW l, NEW m, NEW kind, NEW c, Extends(l, m, kind, c), NEW k
  PROVE  Mentioned(m, Len(m), k) =
           Mentioned(l, Len(l), k) \union (IF k = kind THEN {c} ELSE {})
<1>1. 1..Len(m) = 1..Len(l) \union {Len(l) + 1}
  BY DEF Extends
<1>2. m[Len(l) + 1][1] = kind /\ m[Len(l) + 1][2] = c
  BY DEF Extends
<1> QED BY <1>1, <1>2 DEF Extends, Mentioned

\* An event that continues its kind keeps the model's order.
LEMMA ExtendsKeepsOrder ==
  ASSUME NEW l, NEW m, NEW kind, NEW c, Extends(l, m, kind, c), InModelOrder(l),
         Mentioned(l, Len(l), kind) = 1..(c - 1),
         kind = "result" => c \in Mentioned(l, Len(l), "call")
  PROVE  InModelOrder(m)
<1> SUFFICES ASSUME NEW n \in 1..Len(m)
             PROVE  /\ Mentioned(m, n - 1, m[n][1]) = 1..(m[n][2] - 1)
                    /\ m[n][1] = "result" => m[n][2] \in Mentioned(m, n - 1, "call")
  BY DEF InModelOrder
<1>1. n \in 1..Len(l) \/ n = Len(l) + 1
  BY DEF Extends
<1>2. \A k : Mentioned(m, n - 1, k) = Mentioned(l, n - 1, k)
  <2>1. \A i \in 1..(n - 1) : m[i] = l[i]
    BY DEF Extends
  <2> QED BY <2>1, MentionedPrefix
<1>3. CASE n \in 1..Len(l)
  <2>1. m[n] = l[n]
    BY <1>3 DEF Extends
  <2>2. /\ Mentioned(l, n - 1, l[n][1]) = 1..(l[n][2] - 1)
        /\ l[n][1] = "result" => l[n][2] \in Mentioned(l, n - 1, "call")
    BY <1>3 DEF InModelOrder
  <2> QED BY <1>2, <2>1, <2>2
<1>4. CASE n = Len(l) + 1
  <2>1. m[n][1] = kind /\ m[n][2] = c /\ n - 1 = Len(l)
    BY <1>4 DEF Extends
  <2> QED BY <1>2, <2>1
<1> QED BY <1>1, <1>3, <1>4

\* appendToolCall() and appendToolResult() of the next call of their kind.
LEMMA AppendStep ==
  ASSUME log \in Seq(EventType), ModelOrder,
         NEW kind \in {"call", "result"}, NEW c \in Call, AppendEvent(kind, c),
         Logged(kind) = 1..(c - 1), kind = "result" => c \in Logged("call")
  PROVE  /\ log' \in Seq(EventType) /\ ModelOrder'
         /\ Logged(kind)' = 1..c
         /\ kind = "call" => Logged("result")' = Logged("result")
         /\ kind = "result" => Logged("call")' = Logged("call")
<1>1. Extends(log, log', kind, c)
  BY AppendExtends
<1>2. log' \in Seq(EventType)
  BY <1>1 DEF Extends
<1>3. ModelOrder'
  BY <1>1, ExtendsKeepsOrder DEF ModelOrder, Logged
<1>4. \A k : Mentioned(log', Len(log'), k) =
            Mentioned(log, Len(log), k) \union (IF k = kind THEN {c} ELSE {})
  BY <1>1, ExtendsMentions
<1>5. Logged(kind)' = 1..(c - 1) \union {c}
  BY <1>4 DEF Logged
<1>6. 1..(c - 1) \union {c} = 1..c
  BY SchedulerAssumption DEF Call
<1>7. kind = "call" => Logged("result")' = Logged("result")
  BY <1>4 DEF Logged
<1>8. kind = "result" => Logged("call")' = Logged("call")
  BY <1>4 DEF Logged
<1> QED BY <1>2, <1>3, <1>5, <1>6, <1>7, <1>8

-----------------------------------------------------------------------------
(* Steps *)

\* The pool is finite, so that its size is a number.
LEMMA PoolFinite ==
  ASSUME inFlight \subseteq Call
  PROVE  IsFiniteSet(inFlight) /\ Cardinality(inFlight) \in Nat
<1>1. IsFiniteSet(Call)
  BY FS_Interval, SchedulerAssumption DEF Call
<1> QED BY <1>1, FS_Subset, FS_CardinalityType

\* fillPool() from a state in which the group's earlier calls are accounted for.
\* Either the next call starts, or the loop leaves with nothing lost.
LEMMA CommittedStep ==
  ASSUME IInv, Committed
  PROVE  IInv'
<1> USE SchedulerAssumption
<1>0. /\ TypeOK /\ CountersOK /\ PoolOK /\ ModeOK /\ LogOK /\ ModelOrder
      /\ pc = "commit" /\ ~Ready
      /\ UNCHANGED <<parallelSafe, reclassified, signal, base, limit, mode, start, committed,
                     inFlight, settled, slots, failure>>
  BY DEF IInv, Committed, envVars, groupVars, poolVars
<1>1. CASE failure
  <2>1. pc' = "draining" /\ UNCHANGED <<aborted, started, log, alone>>
    BY <1>1 DEF Committed, logVars
  <2>2. TypeOK'
    BY <1>0, <2>1 DEF TypeOK, PCs
  <2>3. CountersOK' /\ ModeOK' 
    BY <1>0, <2>1 DEF CountersOK, ModeOK, InGroup, TypeOK
  <2>4. PoolOK'
    BY <1>0, <1>1, <2>1 DEF PoolOK, InGroup, Between, Running, TypeOK
  <2>5. LogOK' /\ ModelOrder'
    BY <1>0, <2>1 DEF LogOK, ModelOrder, Logged
  <2> QED BY <2>2, <2>3, <2>4, <2>5 DEF IInv
<1>2. CASE ~failure /\ MayStart(aborted \/ signal, start, base, limit, mode)
  <2>1. StartCall(start + 1) /\ aborted' = (aborted \/ signal)
    BY <1>2 DEF Committed, Fill
  <2>2. /\ start = started /\ start < limit /\ start + 1 \in Call
        /\ Cardinality(inFlight) < MaxParallel /\ base < start
        /\ mode = "parallel" => start + 1 \in parallelSafe
    BY <1>0, <1>2 DEF MayStart, CountersOK, InGroup, TypeOK, Call
  <2>3. pc' = "preparing" /\ started' = start + 1 /\ AppendEvent("call", start + 1)
        /\ alone' = IF start + 1 \in parallelSafe THEN alone ELSE alone \union {start + 1}
    BY <2>1 DEF StartCall
  <2>4. /\ log' \in Seq(EventType) /\ ModelOrder'
        /\ Logged("call")' = 1..(start + 1) /\ Logged("result")' = Logged("result")
    <3>1. Logged("call") = 1..((start + 1) - 1)
      BY <1>0, <2>2 DEF LogOK, TypeOK
    <3> QED BY <1>0, <2>2, <2>3, <3>1, AppendStep DEF TypeOK, EventType
  <2>5. TypeOK'
    <3>1. aborted' \in BOOLEAN
      BY <1>0, <2>1, Zenon DEF TypeOK
    <3> QED BY <1>0, <2>2, <2>3, <2>4, <3>1 DEF TypeOK, PCs, EventType, Call
  <2>6. CountersOK'
    BY <1>0, <2>2, <2>3 DEF CountersOK, InGroup, TypeOK
  <2>7. ModeOK'
    BY <1>0, <2>2, <2>3 DEF ModeOK, CountersOK, InGroup, TypeOK, Call
  <2>8. PoolOK'
    BY <1>0, <1>2, <2>2, <2>3 DEF PoolOK, InGroup, Between, Running, TypeOK, Call
  <2>9. LogOK'
    BY <1>0, <2>3, <2>4 DEF LogOK
  <2> QED BY <2>4, <2>5, <2>6, <2>7, <2>8, <2>9 DEF IInv
<1>3. CASE ~failure /\ ~MayStart(aborted \/ signal, start, base, limit, mode)
  <2>1. /\ pc' = IF inFlight # {} THEN "race" ELSE IF aborted \/ signal THEN "skip" ELSE "classify"
        /\ UNCHANGED <<started, log, alone>>
        /\ aborted' = (aborted \/ signal)
    BY <1>3 DEF Committed, Fill, LeaveFill, logVars
  <2>2. TypeOK'
    <3>1. aborted' \in BOOLEAN
      BY <1>0, <2>1, Zenon DEF TypeOK
    <3> QED BY <1>0, <2>1, <3>1 DEF TypeOK, PCs
  <2>3. inFlight = {} => committed = started
    <3> SUFFICES ASSUME inFlight = {}, committed # started
                 PROVE  FALSE
      OBVIOUS
    <3>1. committed < limit /\ committed + 1 \in (committed + 1)..started
      BY <1>0 DEF CountersOK, InGroup, TypeOK
    <3>2. slots[committed + 1] # "none"
      BY <1>0, <1>3, <3>1 DEF PoolOK, InGroup, Running
    <3> QED BY <1>0, <3>1, <3>2 DEF Ready
  <2>4. start = started
    BY <1>0 DEF CountersOK, InGroup
  <2>5. CountersOK'
    BY <1>0, <2>1, <2>3, <2>4 DEF CountersOK, InGroup, TypeOK
  <2>6. ModeOK'
    BY <1>0, <2>1 DEF ModeOK, InGroup
  <2>7. PoolOK'
    BY <1>0, <1>3, <2>1 DEF PoolOK, InGroup, Between, Running
  <2>8. LogOK' /\ ModelOrder'
    BY <1>0, <2>1, <2>3 DEF LogOK, ModelOrder, Logged
  <2> QED BY <2>2, <2>5, <2>6, <2>7, <2>8 DEF IInv
<1> QED BY <1>1, <1>2, <1>3

\* The loop of executeToolCalls(): the first call of a group always starts,
\* unless the signal is aborted.
LEMMA OpenGroupStep ==
  ASSUME IInv, OpenGroup
  PROVE  IInv'
<1> USE SchedulerAssumption
<1>0. /\ TypeOK /\ CountersOK /\ PoolOK /\ ModeOK /\ LogOK /\ ModelOrder
      /\ pc = "classify" /\ committed = started /\ inFlight = {} /\ ~failure
      /\ UNCHANGED <<parallelSafe, reclassified, signal, committed, inFlight, settled, slots,
                     failure>>
  BY DEF IInv, OpenGroup, envVars, poolVars, CountersOK, PoolOK, Between
<1>1. CASE started = N
  <2>1. pc' = "returned" /\ UNCHANGED <<base, limit, mode, start, aborted, started, log, alone>>
    BY <1>1 DEF OpenGroup, groupVars, logVars
  <2>2. TypeOK'
    BY <1>0, <2>1 DEF TypeOK, PCs
  <2>3. CountersOK' /\ ModeOK' /\ PoolOK'
    BY <1>0, <1>1, <2>1 DEF CountersOK, ModeOK, PoolOK, InGroup, Between, TypeOK
  <2>4. LogOK' /\ ModelOrder'
    BY <1>0, <2>1 DEF LogOK, ModelOrder, Logged
  <2> QED BY <2>2, <2>3, <2>4 DEF IInv
<1>2. CASE started # N
  <2> DEFINE groupMode == IF started + 1 \in parallelSafe THEN "parallel" ELSE "exclusive"
             last == IF groupMode = "parallel" THEN N ELSE started + 1
  <2>1. /\ base' = started /\ limit' = last /\ mode' = groupMode /\ start' = started
        /\ aborted' = signal
        /\ Fill(signal, started, started, last, groupMode)
    BY <1>2 DEF OpenGroup
  <2>2. started + 1 \in Call /\ last \in Call /\ started < last
    BY <1>0, <1>2 DEF TypeOK, Call
  <2>3. groupMode \in {"parallel", "exclusive"} /\ (groupMode = "exclusive" => last = started + 1)
        /\ (groupMode = "parallel" => started + 1 \in parallelSafe)
    OBVIOUS
  <2> HIDE DEF groupMode, last
  <2>4. CASE signal
    <3>1. pc' = "skip" /\ UNCHANGED <<started, log, alone>>
      BY <1>0, <2>1, <2>4 DEF Fill, MayStart, LeaveFill, logVars
    <3>2. TypeOK'
      BY <1>0, <2>1, <2>2, <2>3, <3>1 DEF TypeOK, PCs, Call
    <3>3. CountersOK' /\ ModeOK' /\ PoolOK'
      BY <1>0, <3>1 DEF CountersOK, ModeOK, PoolOK, InGroup, Between, TypeOK
    <3>4. LogOK' /\ ModelOrder'
      BY <1>0, <3>1 DEF LogOK, ModelOrder, Logged
    <3> QED BY <3>2, <3>3, <3>4 DEF IInv
  <2>5. CASE ~signal
    <3>1. Cardinality(inFlight) < MaxParallel
      BY <1>0, FS_EmptySet
    <3>2. StartCall(started + 1)
      BY <1>0, <2>1, <2>2, <2>5, <3>1 DEF Fill, MayStart, TypeOK
    <3>3. pc' = "preparing" /\ started' = started + 1 /\ AppendEvent("call", started + 1)
          /\ alone' = IF started + 1 \in parallelSafe THEN alone ELSE alone \union {started + 1}
      BY <3>2 DEF StartCall
    <3>4. /\ log' \in Seq(EventType) /\ ModelOrder'
          /\ Logged("call")' = 1..(started + 1) /\ Logged("result")' = Logged("result")
      <4>1. Logged("call") = 1..((started + 1) - 1)
        BY <1>0 DEF LogOK, TypeOK
      <4> QED BY <1>0, <2>2, <3>3, <4>1, AppendStep DEF TypeOK, EventType
    <3>5. TypeOK'
      BY <1>0, <2>1, <2>2, <2>3, <3>3, <3>4 DEF TypeOK, PCs, EventType, Call
    <3>6. CountersOK'
      BY <1>0, <2>1, <2>2, <3>3 DEF CountersOK, InGroup, TypeOK, Call
    <3>7. ModeOK'
      BY <1>0, <2>1, <2>3, <3>3 DEF ModeOK, InGroup, TypeOK, Call
    <3>8. PoolOK'
      BY <1>0, <2>1, <3>1, <3>3 DEF PoolOK, InGroup, Between, Running, TypeOK, Call
    <3>9. LogOK'
      BY <1>0, <3>3, <3>4 DEF LogOK
    <3> QED BY <3>4, <3>5, <3>6, <3>7, <3>8, <3>9 DEF IInv
  <2> QED BY <2>4, <2>5
<1> QED BY <1>1, <1>2

\* startCall() after policy: the call is dispatched, has its slot, or failed.
LEMMA PreparedStep ==
  ASSUME IInv, NEW answer \in {"dispatch", "post", "final", "throw"}, Prepared(answer)
  PROVE  IInv'
<1> USE SchedulerAssumption
<1>0. /\ TypeOK /\ CountersOK /\ PoolOK /\ ModeOK /\ LogOK /\ ModelOrder
      /\ pc = "preparing"
      /\ UNCHANGED <<parallelSafe, reclassified, signal, base, limit, mode, started, log, alone,
                     committed, aborted, settled>>
  BY DEF IInv, Prepared, envVars, groupVars, logVars
<1>1. start + 1 = started /\ started \in Call
  BY <1>0 DEF CountersOK, InGroup, TypeOK, Call
<1>2. pc' \in {"draining", "commit"}
  BY DEF Prepared
<1>3. LogOK' /\ ModelOrder'
  BY <1>0, <1>2 DEF LogOK, ModelOrder, Logged
<1>4. ModeOK'
  BY <1>0, <1>2 DEF ModeOK, InGroup
<1>5. CASE failure \/ answer = "throw"
  <2>1. failure' = TRUE /\ pc' = "draining" /\ UNCHANGED <<inFlight, slots, start>>
    BY <1>5 DEF Prepared
  <2>2. TypeOK'
    BY <1>0, <2>1 DEF TypeOK, PCs
  <2>3. CountersOK'
    BY <1>0, <2>1 DEF CountersOK, InGroup
  <2>4. PoolOK'
    BY <1>0, <2>1 DEF PoolOK, InGroup, Between, Running
  <2> QED BY <1>3, <1>4, <2>2, <2>3, <2>4 DEF IInv
<1>6. CASE ~failure /\ answer = "dispatch"
  <2>1. /\ pc' = "commit" /\ start' = started /\ inFlight' = inFlight \union {started}
        /\ UNCHANGED <<slots, failure>>
    BY <1>6 DEF Prepared
  <2>2. TypeOK'
    BY <1>0, <1>1, <2>1 DEF TypeOK, PCs
  <2>3. CountersOK'
    BY <1>0, <1>1, <2>1 DEF CountersOK, InGroup, TypeOK
  <2>4. IsFiniteSet(inFlight) /\ Cardinality(inFlight) \in Nat
    BY <1>0, PoolFinite DEF TypeOK
  <2>5. Cardinality(inFlight') <= MaxParallel
    <3>1. Cardinality(inFlight \union {started}) <= Cardinality(inFlight) + 1
      BY <2>4, FS_AddElement
    <3>2. Cardinality(inFlight \union {started}) \in Nat
      BY <2>4, FS_AddElement, FS_CardinalityType
    <3>3. Cardinality(inFlight) < MaxParallel
      BY <1>0 DEF PoolOK
    <3> QED BY <2>1, <2>4, <3>1, <3>2, <3>3
  <2>6. started \notin settled
    BY <1>0, <1>1 DEF PoolOK
  <2>7. PoolOK'
    BY <1>0, <1>1, <2>1, <2>5, <2>6 DEF PoolOK, CountersOK, InGroup, Between, Running, TypeOK, Call
  <2> QED BY <1>3, <1>4, <2>2, <2>3, <2>7 DEF IInv
<1>7. CASE ~failure /\ answer \in {"post", "final"}
  <2>1. /\ pc' = "commit" /\ start' = started /\ slots' = [slots EXCEPT ![started] = answer]
        /\ UNCHANGED <<inFlight, failure>>
    BY <1>7 DEF Prepared
  <2>2. TypeOK'
    BY <1>0, <1>1, <1>7, <2>1 DEF TypeOK, PCs
  <2>3. CountersOK'
    BY <1>0, <1>1, <2>1 DEF CountersOK, InGroup, TypeOK
  <2>4. PoolOK'
    BY <1>0, <1>1, <1>7, <2>1 DEF PoolOK, CountersOK, InGroup, Between, Running, TypeOK, Call
  <2> QED BY <1>3, <1>4, <2>2, <2>3, <2>4 DEF IInv
<1> QED BY <1>5, <1>6, <1>7

\* commitReady(): the next result in the model's order.
LEMMA CommitStep ==
  ASSUME IInv, CommitFinal \/ Finalized(FALSE)
  PROVE  IInv'
<1> USE SchedulerAssumption
<1>0. /\ TypeOK /\ CountersOK /\ PoolOK /\ ModeOK /\ LogOK /\ ModelOrder
      /\ pc \in {"commit", "finalizing"} /\ pc' = "commit"
      /\ AppendEvent("result", committed + 1) /\ committed' = committed + 1
      /\ UNCHANGED <<parallelSafe, reclassified, signal, base, limit, mode, start, started,
                     alone, aborted, inFlight, settled, slots, failure>>
  BY DEF IInv, CommitFinal, Finalized, CommitResult, envVars, groupVars, poolVars
<1>1. committed < started
  <2>1. CASE CommitFinal
    BY <1>0, <2>1 DEF CommitFinal, Ready, PoolOK, TypeOK, Call
  <2>2. CASE Finalized(FALSE)
    BY <1>0, <2>2 DEF Finalized, CountersOK
  <2> QED BY <2>1, <2>2
<1>2. committed + 1 \in Call
  BY <1>0, <1>1 DEF TypeOK, Call
<1>3. /\ log' \in Seq(EventType) /\ ModelOrder'
      /\ Logged("result")' = 1..(committed + 1) /\ Logged("call")' = Logged("call")
  <2>1. Logged("result") = 1..((committed + 1) - 1) /\ committed + 1 \in Logged("call")
    BY <1>0, <1>1 DEF LogOK, TypeOK
  <2> QED BY <1>0, <1>2, <2>1, AppendStep DEF TypeOK, EventType
<1>4. TypeOK'
  BY <1>0, <1>2, <1>3 DEF TypeOK, PCs, EventType, Call
<1>5. CountersOK'
  BY <1>0, <1>1 DEF CountersOK, InGroup, TypeOK
<1>6. PoolOK'
  BY <1>0 DEF PoolOK, InGroup, Between, Running, TypeOK
<1>7. ModeOK'
  BY <1>0 DEF ModeOK, InGroup
<1>8. LogOK'
  BY <1>0, <1>3 DEF LogOK
<1> QED BY <1>3, <1>4, <1>5, <1>6, <1>7, <1>8 DEF IInv

\* Promise.race: one settled call leaves the pool.
LEMMA RaceStep ==
  ASSUME IInv, NEW c \in Call, Race(c)
  PROVE  IInv'
<1> USE SchedulerAssumption
<1>0. /\ TypeOK /\ CountersOK /\ PoolOK /\ ModeOK /\ LogOK /\ ModelOrder
      /\ pc = "race" /\ c \in inFlight /\ c \in settled
      /\ pc' = IF failure THEN "draining" ELSE "commit"
      /\ inFlight' = inFlight \ {c}
      /\ UNCHANGED <<parallelSafe, reclassified, signal, base, limit, mode, start, started,
                     committed, log, alone, aborted, settled, slots, failure>>
  BY DEF IInv, Race, envVars, groupVars, logVars
<1>1. TypeOK'
  BY <1>0 DEF TypeOK, PCs
<1>2. CountersOK' /\ ModeOK'
  BY <1>0 DEF CountersOK, ModeOK, InGroup
<1>3. Cardinality(inFlight') <= MaxParallel
  <2>1. IsFiniteSet(inFlight) /\ Cardinality(inFlight) \in Nat
    BY <1>0, PoolFinite DEF TypeOK
  <2>2. Cardinality(inFlight \ {c}) = Cardinality(inFlight) - 1
    BY <1>0, <2>1, FS_RemoveElement
  <2>3. Cardinality(inFlight) <= MaxParallel
    BY <1>0 DEF PoolOK
  <2> QED BY <1>0, <2>1, <2>2, <2>3
<1>4. Running' = Running
  BY <1>0 DEF Running
<1>5. PoolOK'
  BY <1>0, <1>3, <1>4 DEF PoolOK, InGroup, Between
<1>6. LogOK' /\ ModelOrder'
  BY <1>0 DEF LogOK, ModelOrder, Logged
<1> QED BY <1>1, <1>2, <1>5, <1>6 DEF IInv

\* A body settles: it has its slot, or the group fails.
LEMMA SettleStep ==
  ASSUME IInv, NEW c \in Call, NEW outcome \in {"post", "final", "reject"}, Settle(c, outcome)
  PROVE  IInv'
<1> USE SchedulerAssumption
<1>0. /\ TypeOK /\ CountersOK /\ PoolOK /\ ModeOK /\ LogOK /\ ModelOrder
      /\ c \in Running /\ settled' = settled \union {c}
      /\ UNCHANGED <<parallelSafe, reclassified, signal, pc, base, limit, mode, start, started,
                     committed, log, alone, aborted, inFlight>>
  BY DEF IInv, Settle, envVars, groupVars, logVars
<1>1. pc \in InGroup /\ c \in (base + 1)..start /\ pc # "failed"
  BY <1>0 DEF PoolOK, Running, InGroup, Between, TypeOK, PCs
<1>2. CountersOK' /\ ModeOK'
  BY <1>0 DEF CountersOK, ModeOK
<1>3. LogOK' /\ ModelOrder'
  BY <1>0 DEF LogOK, ModelOrder, Logged
<1>4. c <= started /\ (pc = "preparing" => c # started)
  BY <1>0, <1>1 DEF CountersOK, TypeOK
<1>5. Running' = Running \ {c}
  BY <1>0 DEF Running
<1>6. CASE outcome = "reject"
  <2>1. failure' = TRUE /\ UNCHANGED slots
    BY <1>6 DEF Settle
  <2>2. TypeOK'
    BY <1>0, <2>1 DEF TypeOK
  <2>3. PoolOK'
    BY <1>0, <1>1, <1>4, <2>1 DEF PoolOK, InGroup, Between
  <2> QED BY <1>2, <1>3, <2>2, <2>3 DEF IInv
<1>7. CASE outcome # "reject"
  <2>1. slots' = [slots EXCEPT ![c] = outcome] /\ UNCHANGED failure
    BY <1>7 DEF Settle
  <2>2. TypeOK'
    BY <1>0, <1>7, <2>1 DEF TypeOK
  <2>3. \A d \in Call : slots'[d] = IF d = c THEN outcome ELSE slots[d]
    BY <1>0, <2>1 DEF TypeOK
  <2>4. \A d \in (committed + 1)..started : d \in Call
    BY <1>0 DEF TypeOK, Call
  <2>5. PoolOK'
    BY <1>0, <1>1, <1>4, <1>5, <1>7, <2>1, <2>3, <2>4 DEF PoolOK, InGroup, Between
  <2> QED BY <1>2, <1>3, <2>2, <2>5 DEF IInv
<1> QED BY <1>6, <1>7

\* appendSkippedToolCall(): a synthetic call and its result.
LEMMA SkipStep ==
  ASSUME IInv, SkipCall \/ SkipResult
  PROVE  IInv'
<1> USE SchedulerAssumption
<1>0. /\ TypeOK /\ CountersOK /\ PoolOK /\ ModeOK /\ LogOK /\ ModelOrder
      /\ UNCHANGED <<parallelSafe, reclassified, signal, base, limit, mode, start, committed,
                     alone, aborted, inFlight, settled, slots, failure>>
  BY DEF IInv, SkipCall, SkipResult, envVars, groupVars, poolVars
<1>1. CASE SkipCall /\ started = N
  <2>1. pc = "skip" /\ pc' = "returned" /\ UNCHANGED <<log, started>>
    BY <1>1 DEF SkipCall
  <2>2. TypeOK'
    BY <1>0, <2>1 DEF TypeOK, PCs
  <2>3. CountersOK' /\ PoolOK' /\ ModeOK'
    BY <1>0, <1>1, <2>1 DEF CountersOK, PoolOK, ModeOK, InGroup, Between
  <2>4. LogOK' /\ ModelOrder'
    BY <1>0, <2>1 DEF LogOK, ModelOrder, Logged
  <2> QED BY <2>2, <2>3, <2>4 DEF IInv
<1>2. CASE SkipCall /\ started # N
  <2>1. /\ pc = "skip" /\ pc' = "skipResult" /\ UNCHANGED started
        /\ AppendEvent("call", started + 1) /\ started + 1 \in Call /\ started < N
    BY <1>0, <1>2 DEF SkipCall, TypeOK, Call
  <2>2. /\ log' \in Seq(EventType) /\ ModelOrder'
        /\ Logged("call")' = 1..(started + 1) /\ Logged("result")' = Logged("result")
    <3>1. Logged("call") = 1..((started + 1) - 1)
      BY <1>0, <2>1 DEF LogOK, TypeOK
    <3> QED BY <1>0, <2>1, <3>1, AppendStep DEF TypeOK, EventType
  <2>3. TypeOK'
    BY <1>0, <2>1, <2>2 DEF TypeOK, PCs, EventType
  <2>4. CountersOK' /\ PoolOK' /\ ModeOK'
    BY <1>0, <2>1 DEF CountersOK, PoolOK, ModeOK, InGroup, Between
  <2>5. LogOK'
    BY <1>0, <2>1, <2>2 DEF LogOK
  <2> QED BY <2>2, <2>3, <2>4, <2>5 DEF IInv
<1>3. CASE SkipResult
  <2>1. /\ pc = "skipResult" /\ pc' = "skip" /\ started' = started + 1
        /\ AppendEvent("result", started + 1) /\ started + 1 \in Call
    BY <1>0, <1>3 DEF SkipResult, CountersOK, TypeOK, Call
  <2>2. /\ log' \in Seq(EventType) /\ ModelOrder'
        /\ Logged("result")' = 1..(started + 1) /\ Logged("call")' = Logged("call")
    <3>1. Logged("result") = 1..((started + 1) - 1) /\ started + 1 \in Logged("call")
      BY <1>0, <2>1 DEF LogOK, TypeOK
    <3> QED BY <1>0, <2>1, <3>1, AppendStep DEF TypeOK, EventType
  <2>3. TypeOK'
    BY <1>0, <2>1, <2>2 DEF TypeOK, PCs, EventType, Call
  <2>4. CountersOK' /\ PoolOK' /\ ModeOK'
    BY <1>0, <2>1 DEF CountersOK, PoolOK, ModeOK, InGroup, Between, TypeOK
  <2>5. LogOK'
    BY <1>0, <2>1, <2>2 DEF LogOK
  <2> QED BY <2>2, <2>3, <2>4, <2>5 DEF IInv
<1> QED BY <1>1, <1>2, <1>3

LEMMA Inductive == IInv /\ [Next]_vars => IInv'
<1> SUFFICES ASSUME IInv, [Next]_vars
             PROVE  IInv'
  OBVIOUS
<1> USE DEF envVars, groupVars, logVars, poolVars
<1>1. CASE UNCHANGED vars
  BY <1>1 DEF vars, IInv, TypeOK, CountersOK, PoolOK, ModeOK, LogOK, ModelOrder, Logged, Running
<1>2. CASE OpenGroup
  BY <1>2, OpenGroupStep
<1>3. ASSUME NEW answer \in {"dispatch", "post", "final", "throw"}, Prepared(answer)
      PROVE  IInv'
  BY <1>3, PreparedStep
<1>4. CASE CommitFinal
  BY <1>4, CommitStep
<1>5. CASE Finalize
  <2>1. TypeOK'
    BY <1>5 DEF IInv, TypeOK, Finalize, PCs
  <2>2. committed < started
    BY <1>5, SchedulerAssumption DEF IInv, Finalize, Ready, PoolOK, TypeOK, Call
  <2>3. CountersOK' /\ ModeOK'
    BY <1>5, <2>2 DEF IInv, CountersOK, ModeOK, Finalize, InGroup
  <2>4. PoolOK'
    BY <1>5 DEF IInv, PoolOK, Finalize, InGroup, Between, Running
  <2>5. LogOK' /\ ModelOrder'
    BY <1>5 DEF IInv, LogOK, ModelOrder, Logged, Finalize
  <2> QED BY <2>1, <2>3, <2>4, <2>5 DEF IInv
<1>6. CASE Committed
  BY <1>6, CommittedStep
<1>7. CASE Finalized(FALSE)
  BY <1>7, CommitStep
<1>8. CASE Finalized(TRUE)
  <2>1. TypeOK'
    BY <1>8 DEF IInv, TypeOK, Finalized, PCs
  <2>2. CountersOK' /\ ModeOK'
    BY <1>8 DEF IInv, CountersOK, ModeOK, Finalized, InGroup
  <2>3. PoolOK'
    BY <1>8 DEF IInv, PoolOK, Finalized, InGroup, Between, Running
  <2>4. LogOK' /\ ModelOrder'
    BY <1>8 DEF IInv, LogOK, ModelOrder, Logged, Finalized
  <2> QED BY <2>1, <2>2, <2>3, <2>4 DEF IInv
<1>9. ASSUME NEW c \in Call, Race(c)
      PROVE  IInv'
  BY <1>9, RaceStep
<1>10. CASE Drained
  <2>1. TypeOK'
    BY <1>10 DEF IInv, TypeOK, Drained, PCs
  <2>2. CountersOK' /\ ModeOK'
    BY <1>10 DEF IInv, CountersOK, ModeOK, Drained, InGroup
  <2>3. PoolOK'
    BY <1>10 DEF IInv, PoolOK, Drained, InGroup, Between, Running
  <2>4. LogOK' /\ ModelOrder'
    BY <1>10 DEF IInv, LogOK, ModelOrder, Logged, Drained
  <2> QED BY <2>1, <2>2, <2>3, <2>4 DEF IInv
<1>11. CASE SkipCall \/ SkipResult
  BY <1>11, SkipStep
<1>12. ASSUME NEW c \in Call, NEW outcome \in {"post", "final", "reject"}, Settle(c, outcome)
       PROVE  IInv'
  BY <1>12, SettleStep
<1>13. CASE Abort
  BY <1>13 DEF Abort, IInv, TypeOK, CountersOK, PoolOK, ModeOK, LogOK, ModelOrder, Logged, Running
<1>14. ASSUME NEW c \in Call, Reclassify(c)
       PROVE  IInv'
  <2>1. TypeOK'
    BY <1>14, SchedulerAssumption DEF IInv, TypeOK, Reclassify
  <2> QED BY <1>14, <2>1 DEF Reclassify, IInv, CountersOK, PoolOK, ModeOK, LogOK, ModelOrder,
                             Logged, Running
<1> QED
  BY <1>1, <1>2, <1>3, <1>4, <1>5, <1>6, <1>7, <1>8, <1>9, <1>10, <1>11, <1>12, <1>13, <1>14
  DEF Next, Scheduler, Bodies

LEMMA InitOK == Init => IInv
<1> SUFFICES ASSUME Init
             PROVE  IInv
  OBVIOUS
<1> USE SchedulerAssumption
<1>1. TypeOK
  <2>1. log \in Seq({"call", "result"} \X Call)
    BY EmptySeq DEF Init
  <2>2. signal \in BOOLEAN /\ aborted \in BOOLEAN /\ failure \in BOOLEAN
    BY Zenon DEF Init
  <2>3. 0 \in 0..N /\ 0 \in 0..MaxReclassify
    OBVIOUS
  <2>4. slots \in [Call -> {"none", "post", "final"}]
    BY DEF Init
  <2> QED BY <2>1, <2>2, <2>3, <2>4 DEF Init, TypeOK, PCs
<1>2. CountersOK /\ ModeOK
  BY DEF Init, CountersOK, ModeOK, InGroup
<1>3. PoolOK
  BY FS_EmptySet DEF Init, PoolOK, InGroup, Between
<1>4. LogOK /\ ModelOrder
  BY EmptySeq DEF Init, LogOK, ModelOrder, InModelOrder, Logged, Mentioned
<1> QED BY <1>1, <1>2, <1>3, <1>4 DEF IInv

-----------------------------------------------------------------------------
(* Theorems *)

\* Every reachable state satisfies the inductive invariant.
THEOREM SchedulerIsInductive == Spec => []IInv
<1>1. Init => IInv
  BY InitOK
<1>2. IInv /\ [Next]_vars => IInv'
  BY Inductive
<1> QED BY <1>1, <1>2, PTL DEF Spec

\* runGroup() keeps its pool within maxParallelToolCalls, commits what it started
\* before the next group (the assertion at its end cannot fail), and leaves no
\* body running behind a return or a throw.
THEOREM PoolDiscipline == Spec => []SchedulerInv
<1>1. IInv => SchedulerInv
  BY DEF IInv, SchedulerInv, CountersOK, PoolOK, PoolIsBounded, GroupsCommitWhatTheyStart,
         NothingOutlivesTheStep, Between, Running
<1> QED BY <1>1, SchedulerIsInductive, PTL

\* The tool/call and tool/result events reach the session log in the model's
\* order, in whatever order bodies, policy and post-execute listeners answer.
THEOREM ResultsInModelOrder == Spec => []ModelOrder
<1>1. IInv => ModelOrder
  BY DEF IInv
<1> QED BY <1>1, SchedulerIsInductive, PTL

\* When executeToolCalls() returns, every call of the message has its call and
\* its result in the log, the skipped ones included.
THEOREM ReturnAnswersEveryCall == Spec => []EveryCallIsAnswered
<1>1. IInv => EveryCallIsAnswered
  BY DEF IInv, CountersOK, LogOK, EveryCallIsAnswered, Call
<1> QED BY <1>1, SchedulerIsInductive, PTL

\* A call that was started as exclusive shares the tools with no other call,
\* although the registry may change a mode between the start of a group and the
\* start of its later calls.
THEOREM ExclusiveCallsRunAlone == Spec => []ExclusiveRunsAlone
<1>1. IInv => ExclusiveRunsAlone
  <2> SUFFICES ASSUME IInv
               PROVE  ExclusiveRunsAlone
    OBVIOUS
  <2>1. TypeOK /\ CountersOK /\ PoolOK /\ ModeOK
    BY DEF IInv
  <2>2. CASE pc \in Between
    BY <2>1, <2>2 DEF PoolOK, ExclusiveRunsAlone, Between
  <2>3. CASE pc \in InGroup /\ mode = "parallel"
    <3>1. \A c \in alone : c <= base
      BY <2>1, <2>3 DEF ModeOK
    <3>2. inFlight \intersect alone = {}
      BY <2>1, <2>3, <3>1 DEF PoolOK, TypeOK
    <3>3. started \notin alone
      BY <2>1, <2>3, <3>1 DEF CountersOK, TypeOK
    <3> QED BY <3>2, <3>3 DEF ExclusiveRunsAlone
  <2>4. CASE pc \in InGroup /\ mode = "exclusive"
    <3>1. limit = base + 1 /\ start <= limit
      BY <2>1, <2>4 DEF ModeOK, CountersOK, TypeOK
    <3>2. inFlight \subseteq {base + 1}
      BY <2>1, <2>4, <3>1 DEF PoolOK, TypeOK
    <3>3. pc = "preparing" => start = base
      BY <2>1, <2>4, <3>1 DEF CountersOK, TypeOK
    <3>4. pc = "preparing" => inFlight = {}
      BY <2>1, <2>4, <3>3 DEF PoolOK, TypeOK
    <3>5. inFlight # {} => Cardinality(inFlight) = 1
      <4>1. inFlight # {} => inFlight = {base + 1}
        BY <3>2
      <4> QED BY <4>1, FS_Singleton
    <3> QED BY <3>4, <3>5 DEF ExclusiveRunsAlone
  <2> QED BY <2>1, <2>2, <2>3, <2>4 DEF TypeOK, PCs, InGroup, Between
<1> QED BY <1>1, SchedulerIsInductive, PTL

\* A step appends at most one event.
LEMMA AppendsOne ==
  ASSUME IInv, Next
  PROVE  UNCHANGED log \/ \E kind \in {"call", "result"}, c \in Call : AppendEvent(kind, c)
<1> USE SchedulerAssumption DEF envVars, groupVars, logVars, poolVars
<1>0. TypeOK /\ CountersOK /\ PoolOK
  BY DEF IInv
<1>1. CASE OpenGroup
  <2>1. CASE started = N
    BY <1>1, <2>1 DEF OpenGroup
  <2>2. CASE started # N
    <3>1. started + 1 \in Call
      BY <1>0, <2>2 DEF TypeOK, Call
    <3>2. UNCHANGED log \/ AppendEvent("call", started + 1)
      BY <1>1, <2>2 DEF OpenGroup, Fill, StartCall, LeaveFill
    <3> QED BY <3>1, <3>2
  <2> QED BY <2>1, <2>2
<1>2. CASE Committed
  <2>1. UNCHANGED log \/ (start < limit /\ AppendEvent("call", start + 1))
    BY <1>2 DEF Committed, Fill, MayStart, StartCall, LeaveFill
  <2>2. start < limit => start + 1 \in Call
    BY <1>0 DEF TypeOK, Call
  <2> QED BY <2>1, <2>2
<1>3. CASE CommitFinal \/ \E throws \in BOOLEAN : Finalized(throws)
  <2>1. UNCHANGED log \/ (committed < N /\ AppendEvent("result", committed + 1))
    BY <1>0, <1>3 DEF CommitFinal, Finalized, CommitResult, Ready, CountersOK, TypeOK
  <2>2. committed < N => committed + 1 \in Call
    BY <1>0 DEF TypeOK, Call
  <2> QED BY <2>1, <2>2
<1>4. CASE SkipCall \/ SkipResult
  <2>1. UNCHANGED log \/ (started < N /\ \E kind \in {"call", "result"} :
                                             AppendEvent(kind, started + 1))
    BY <1>0, <1>4 DEF SkipCall, SkipResult, CountersOK, TypeOK
  <2>2. started < N => started + 1 \in Call
    BY <1>0 DEF TypeOK, Call
  <2> QED BY <2>1, <2>2
<1>5. CASE \/ \E answer \in {"dispatch", "post", "final", "throw"} : Prepared(answer)
           \/ Finalize \/ Drained \/ (\E c \in Call : Race(c)) \/ Bodies \/ Abort
           \/ \E c \in Call : Reclassify(c)
  BY <1>5 DEF Prepared, Finalize, Drained, Race, Bodies, Settle, Abort, Reclassify
<1> QED BY <1>1, <1>2, <1>3, <1>4, <1>5 DEF Next, Scheduler

\* Every append is one that validateEvent accepts inside the open step: a result
\* answers a call that is pending (SessionTrace).
THEOREM AppendsAreAccepted == Spec => AppendsAreLegal
<1>1. ASSUME IInv, IInv', [Next]_vars
      PROVE  [\E c \in Call : Trace!ToolCall(c) \/ Trace!ToolResult(c)]_log
  <2>1. CASE UNCHANGED log
    BY <2>1
  <2>2. ASSUME NEW kind \in {"call", "result"}, NEW c \in Call, AppendEvent(kind, c)
        PROVE  Trace!ToolCall(c) \/ Trace!ToolResult(c)
    <3>1. Extends(log, log', kind, c)
      BY <1>1, <2>2, AppendExtends DEF IInv, TypeOK, EventType
    <3>2. \A k : Mentioned(log', Len(log'), k) =
                Mentioned(log, Len(log), k) \union (IF k = kind THEN {c} ELSE {})
      BY <3>1, ExtendsMentions
    <3>3. Logged("result") \subseteq Logged("call")
      <4>1. /\ TypeOK /\ committed <= started
            /\ Logged("call") = 1..(IF pc = "skipResult" THEN started + 1 ELSE started)
            /\ Logged("result") = 1..(IF pc \in {"skip", "skipResult", "returned"}
                                      THEN started ELSE committed)
        BY <1>1 DEF IInv, LogOK, CountersOK
      <4>2. started \in Nat /\ committed \in Nat
        BY <4>1, SchedulerAssumption DEF TypeOK
      <4> QED BY <4>1, <4>2
    <3>4. c \notin Logged(kind) /\ (kind = "result" => c \in Logged("call"))
      <4> DEFINE n == Len(log) + 1
      <4>1. n \in 1..Len(log') /\ log'[n] = <<kind, c>> /\ n - 1 = Len(log)
        BY <3>1 DEF Extends
      <4>2. /\ Mentioned(log', n - 1, log'[n][1]) = 1..(log'[n][2] - 1)
            /\ log'[n][1] = "result" => log'[n][2] \in Mentioned(log', n - 1, "call")
        BY <1>1, <4>1 DEF IInv, ModelOrder, InModelOrder
      <4>3. \A k : Mentioned(log', Len(log), k) = Mentioned(log, Len(log), k)
        BY <3>1, MentionedPrefix DEF Extends
      <4>4. Logged(kind) = 1..(c - 1) /\ (kind = "result" => c \in Logged("call"))
        BY <4>1, <4>2, <4>3 DEF Logged
      <4> QED BY <4>4, SchedulerAssumption DEF Call
    <3>5. CASE kind = "call"
      <4>1. PendingCalls' = PendingCalls \union {c}
        BY <3>2, <3>3, <3>4, <3>5 DEF PendingCalls, Logged
      <4> QED BY <4>1 DEF Trace!ToolCall
    <3>6. CASE kind = "result"
      <4>1. PendingCalls' = PendingCalls \ {c} /\ c \in PendingCalls
        BY <3>2, <3>4, <3>6 DEF PendingCalls, Logged
      <4> QED BY <4>1 DEF Trace!ToolResult
    <3> QED BY <3>5, <3>6
  <2>3. CASE Next
    BY <1>1, <2>1, <2>2, <2>3, AppendsOne
  <2>4. CASE UNCHANGED vars
    BY <2>1, <2>4 DEF vars
  <2> QED BY <1>1, <2>3, <2>4
<1> QED BY <1>1, SchedulerIsInductive, PTL DEF Spec, AppendsAreLegal
=============================================================================
