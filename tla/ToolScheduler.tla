---------------------------- MODULE ToolScheduler ----------------------------
(***************************************************************************)
(* executeToolCalls() and runGroup() of agent-loop/src/tool-calls.ts: the  *)
(* tool calls of one assistant message run in groups, an exclusive call    *)
(* alone, parallel-safe calls in a rolling pool, and their results are     *)
(* appended to the session log in the model's order.                       *)
(*                                                                         *)
(* Calls are the positions 1..N of the message.  base, limit, start,       *)
(* started and committed count positions of the whole message, where the   *)
(* code counts from the first call of the group.                           *)
(***************************************************************************)
EXTENDS Naturals, Sequences, FiniteSets

CONSTANTS
  N,                \* tool calls in the assistant message
  MaxParallel,      \* config.maxParallelToolCalls
  MaxReclassify     \* bound: changes of the tool registry during the step

ASSUME SchedulerAssumption ==
  N \in Nat \ {0} /\ MaxParallel \in Nat \ {0} /\ MaxReclassify \in Nat

Call == 1..N

VARIABLES
  parallelSafe,     \* calls the registry classifies as parallel now
  reclassified,     \* registry changes so far
  signal,           \* signal.aborted
  pc,
  base, limit,      \* the group is base+1..limit
  mode,             \* the mode the group was opened with
  start,            \* base + nextToStart
  started,          \* calls whose tool/call is appended by a start
  committed,        \* calls whose slot is committed
  aborted,          \* runGroup's local copy of the signal
  inFlight,         \* keys of the inFlight map
  settled,          \* dispatched calls whose promise has settled
  slots,            \* outcomes waiting for their commit
  failure,          \* schedulerFailure is set
  log,              \* the tool/call and tool/result events of the step
  alone             \* history: calls started as exclusive

vars == <<parallelSafe, reclassified, signal, pc, base, limit, mode, start,
          started, committed, aborted, inFlight, settled, slots, failure, log,
          alone>>
envVars   == <<parallelSafe, reclassified, signal>>
groupVars == <<base, limit, mode>>
poolVars  == <<inFlight, settled, slots, failure>>
logVars   == <<started, log, alone>>

PCs == {"classify", "preparing", "commit", "finalizing", "race", "draining",
        "skip", "skipResult", "returned", "failed"}

TypeOK ==
  /\ parallelSafe \subseteq Call
  /\ reclassified \in 0..MaxReclassify
  /\ signal \in BOOLEAN /\ aborted \in BOOLEAN /\ failure \in BOOLEAN
  /\ pc \in PCs
  /\ base \in 0..N /\ limit \in 0..N /\ start \in 0..N
  /\ started \in 0..N /\ committed \in 0..N
  /\ mode \in {"parallel", "exclusive"}
  /\ inFlight \subseteq Call /\ settled \subseteq Call /\ alone \subseteq Call
  /\ slots \in [Call -> {"none", "post", "final"}]
  /\ log \in Seq({"call", "result"} \X Call)

Running == inFlight \ settled

AppendEvent(kind, c) == log' = Append(log, <<kind, c>>)

-----------------------------------------------------------------------------
(* Environment: cancellation, the tool registry and the tool bodies *)

Abort ==
  /\ pc \notin {"returned", "failed"}
  /\ ~signal /\ signal' = TRUE
  /\ UNCHANGED <<parallelSafe, reclassified, pc, groupVars, start, logVars,
                 committed, aborted, poolVars>>

Reclassify(c) ==
  /\ reclassified < MaxReclassify /\ c > started
  /\ reclassified' = reclassified + 1
  /\ parallelSafe' = IF c \in parallelSafe THEN parallelSafe \ {c}
                                           ELSE parallelSafe \union {c}
  /\ UNCHANGED <<signal, pc, groupVars, start, logVars, committed, aborted,
                 poolVars>>

\* A dispatched body settles with a result, or the dispatch itself rejects.
Settle(c, outcome) ==
  /\ c \in Running
  /\ settled' = settled \union {c}
  /\ IF outcome = "reject"
       THEN failure' = TRUE /\ UNCHANGED slots
       ELSE slots' = [slots EXCEPT ![c] = outcome] /\ UNCHANGED failure
  /\ UNCHANGED <<envVars, pc, groupVars, start, logVars, committed, aborted,
                 inFlight>>

-----------------------------------------------------------------------------
(* runGroup *)

\* Mutant: the mode of a later call is not read again.
MayStartByFirstMode(isAborted, from, first, last, groupMode) ==
  ~isAborted /\ from < last /\ Cardinality(inFlight) < MaxParallel

\* fillPool()'s loop condition, with the mode of a later call read again.
MayStart(isAborted, from, first, last, groupMode) ==
  /\ ~isAborted /\ from < last
  /\ Cardinality(inFlight) < MaxParallel
  /\ ~(from > first /\ groupMode = "parallel" /\ from + 1 \notin parallelSafe)

\* startCall() up to its await: the durable tool/call, then policy.
StartCall(c) ==
  /\ AppendEvent("call", c)
  /\ started' = c
  /\ alone' = IF c \in parallelSafe THEN alone ELSE alone \union {c}
  /\ pc' = "preparing"

\* The pool is full, the group is exhausted, or no start is allowed: wait for
\* a dispatch, or leave the group.
LeaveFill(isAborted) ==
  /\ pc' = IF inFlight # {} THEN "race"
           ELSE IF isAborted THEN "skip" ELSE "classify"
  /\ UNCHANGED logVars

Fill(isAborted, from, first, last, groupMode) ==
  IF MayStart(isAborted, from, first, last, groupMode)
    THEN StartCall(from + 1)
    ELSE LeaveFill(isAborted)

\* The loop of executeToolCalls(): classify the first unconsumed call and open
\* its group, or return.
OpenGroup ==
  /\ pc = "classify"
  /\ IF started = N
       THEN pc' = "returned" /\ UNCHANGED <<groupVars, start, aborted,
                                            logVars>>
       ELSE LET groupMode == IF started + 1 \in parallelSafe THEN "parallel"
                                                             ELSE "exclusive"
                last == IF groupMode = "parallel" THEN N ELSE started + 1
            IN  /\ base' = started /\ limit' = last /\ mode' = groupMode
                /\ start' = started
                /\ aborted' = signal
                /\ Fill(signal, started, started, last, groupMode)
  /\ UNCHANGED <<envVars, committed, poolVars>>

\* Policy answers: dispatch the body, or a result without one, or a throw.  A
\* failure recorded meanwhile stops the dispatch.
Prepared(answer) ==
  /\ pc = "preparing"
  /\ IF failure \/ answer = "throw"
       THEN /\ failure' = TRUE /\ pc' = "draining"
            /\ UNCHANGED <<inFlight, slots, start>>
       ELSE /\ pc' = "commit" /\ start' = started
            /\ IF answer = "dispatch"
                 THEN inFlight' = inFlight \union {started} /\ UNCHANGED slots
                 ELSE slots' = [slots EXCEPT ![started] = answer]
                      /\ UNCHANGED inFlight
            /\ UNCHANGED failure
  /\ UNCHANGED <<envVars, groupVars, logVars, committed, aborted, settled>>

\* The next slot in model order can be committed.
Ready == committed < limit /\ slots[committed + 1] # "none"

\* Mutant: results are appended as the calls complete.
CommitAsCompleted ==
  /\ \E c \in Call : slots[c] # "none" /\ AppendEvent("result", c)
  /\ committed' = committed + 1

CommitResult ==
  /\ AppendEvent("result", committed + 1)
  /\ committed' = committed + 1

\* commitReady(): a final result is appended at once.
CommitFinal ==
  /\ pc = "commit" /\ Ready /\ slots[committed + 1] = "final"
  /\ CommitResult
  /\ UNCHANGED <<envVars, pc, groupVars, start, started, aborted, poolVars,
                 alone>>

\* commitReady(): any other result first passes the post-execute listeners.
Finalize ==
  /\ pc = "commit" /\ Ready /\ slots[committed + 1] = "post"
  /\ pc' = "finalizing"
  /\ UNCHANGED <<envVars, groupVars, start, logVars, committed, aborted,
                 poolVars>>

Finalized(throws) ==
  /\ pc = "finalizing"
  /\ IF throws
       THEN pc' = "draining" /\ failure' = TRUE /\ UNCHANGED <<log, committed>>
       ELSE pc' = "commit" /\ CommitResult /\ UNCHANGED failure
  /\ UNCHANGED <<envVars, groupVars, start, started, aborted, inFlight,
                 settled, slots, alone>>

\* commitReady() is done: stop on a failure, observe the signal, fill the pool.
Committed ==
  /\ pc = "commit" /\ ~Ready
  /\ IF failure
       THEN pc' = "draining" /\ UNCHANGED <<aborted, logVars>>
       ELSE /\ aborted' = (aborted \/ signal)
            /\ Fill(aborted \/ signal, start, base, limit, mode)
  /\ UNCHANGED <<envVars, groupVars, start, committed, poolVars>>

\* Mutant: a settled call stays in the pool.
RaceKeepsCall(c) ==
  /\ pc = "race" /\ c \in inFlight \intersect settled
  /\ pc' = IF failure THEN "draining" ELSE "commit"
  /\ UNCHANGED <<envVars, groupVars, start, logVars, committed, aborted,
                 poolVars>>

\* Promise.race over the pool.
Race(c) ==
  /\ pc = "race" /\ c \in inFlight \intersect settled
  /\ inFlight' = inFlight \ {c}
  /\ pc' = IF failure THEN "draining" ELSE "commit"
  /\ UNCHANGED <<envVars, groupVars, start, logVars, committed, aborted,
                 settled, slots, failure>>

\* Mutant: the failure is thrown at once.
DrainedAtOnce ==
  /\ pc = "draining" /\ pc' = "failed"
  /\ UNCHANGED <<envVars, groupVars, start, logVars, committed, aborted,
                 poolVars>>

\* The catch of runGroup: rethrow once every dispatched call has settled.
Drained ==
  /\ pc = "draining" /\ Running = {}
  /\ pc' = "failed"
  /\ UNCHANGED <<envVars, groupVars, start, logVars, committed, aborted,
                 poolVars>>

\* Mutants: only the rest of the group is skipped; a skipped call has no
\* tool/call event.
SkipGroupOnly ==
  /\ pc = "skip"
  /\ IF started >= limit
       THEN pc' = "returned" /\ UNCHANGED log
       ELSE pc' = "skipResult" /\ AppendEvent("call", started + 1)
  /\ UNCHANGED <<envVars, groupVars, start, started, committed, aborted,
                 poolVars, alone>>

SkipWithoutCall ==
  /\ pc = "skip"
  /\ pc' = IF started = N THEN "returned" ELSE "skipResult"
  /\ UNCHANGED <<envVars, groupVars, start, logVars, committed, aborted,
                 poolVars>>

\* appendSkippedToolCall() for every call not started: the rest of the group,
\* then the rest of the message.  started is reused as the loop's position.
SkipCall ==
  /\ pc = "skip"
  /\ IF started = N
       THEN pc' = "returned" /\ UNCHANGED log
       ELSE pc' = "skipResult" /\ AppendEvent("call", started + 1)
  /\ UNCHANGED <<envVars, groupVars, start, started, committed, aborted,
                 poolVars, alone>>

SkipResult ==
  /\ pc = "skipResult"
  /\ pc' = "skip"
  /\ AppendEvent("result", started + 1)
  /\ started' = started + 1
  /\ UNCHANGED <<envVars, groupVars, start, committed, aborted, poolVars,
                 alone>>

-----------------------------------------------------------------------------
Init ==
  /\ parallelSafe \in SUBSET Call
  /\ reclassified = 0
  /\ signal \in BOOLEAN
  /\ pc = "classify"
  /\ base = 0 /\ limit = 0 /\ mode = "exclusive"
  /\ start = 0 /\ started = 0 /\ committed = 0
  /\ aborted = FALSE /\ failure = FALSE
  /\ inFlight = {} /\ settled = {} /\ alone = {}
  /\ slots = [c \in Call |-> "none"]
  /\ log = <<>>

Scheduler ==
  \/ OpenGroup
  \/ \E answer \in {"dispatch", "post", "final", "throw"} : Prepared(answer)
  \/ CommitFinal \/ Finalize \/ Committed
  \/ \E throws \in BOOLEAN : Finalized(throws)
  \/ \E c \in Call : Race(c)
  \/ Drained \/ SkipCall \/ SkipResult

Bodies == \E c \in Call, outcome \in {"post", "final", "reject"} : Settle(c, outcome)

Next ==
  \/ Scheduler \/ Bodies \/ Abort
  \/ \E c \in Call : Reclassify(c)

Spec == Init /\ [][Next]_vars

\* Policy and post-execute listeners answer; tool bodies obey their signal.
FairSpec == Spec /\ WF_vars(Scheduler) /\ \A c \in Call :
  WF_vars(\E outcome \in {"post", "final", "reject"} : Settle(c, outcome))

-----------------------------------------------------------------------------
(* Properties *)

\* The calls that the first n of some events mention as kind.
Mentioned(events, n, kind) ==
  {events[i][2] : i \in {i \in 1..n : events[i][1] = kind}}

Logged(kind) == Mentioned(log, Len(log), kind)

\* Each event comes exactly after those of the calls before it, and a result
\* after its call.
InModelOrder(events) ==
  \A n \in 1..Len(events) :
    LET kind == events[n][1]
        c == events[n][2]
    IN  /\ Mentioned(events, n - 1, kind) = 1..(c - 1)
        /\ kind = "result" => c \in Mentioned(events, n - 1, "call")

\* Calls and results are appended in the model's order, however the bodies
\* finish, and a result only after its call (commitReady, callSeqs).
ModelOrder == InModelOrder(log)

\* A return without failure leaves no call of the message unanswered: started
\* calls have their result and skipped calls a synthetic pair.
EveryCallIsAnswered ==
  pc = "returned" => Logged("call") = Call /\ Logged("result") = Call

\* A call started as exclusive has the tools for itself from its start
\* until it settles, although modes change while the group runs.
ExclusiveRunsAlone ==
  /\ pc = "preparing" /\ started \in alone => inFlight = {}
  /\ inFlight \intersect alone # {} => Cardinality(inFlight) = 1

\* The pool never exceeds its limit (maxParallelToolCalls).
PoolIsBounded == Cardinality(inFlight) <= MaxParallel

\* A group that ends without abort or failure has committed every call it
\* started (the assertion at tool-calls.ts:244).
GroupsCommitWhatTheyStart == pc = "classify" => committed = started

\* No tool body outlives the step that dispatched it, on a return or a throw.
NothingOutlivesTheStep == pc \in {"returned", "failed"} => Running = {}

\* What holds of the pool at every await of runGroup(): its limit, its commits
\* at a group's end, and no body running once the step's calls are over.
SchedulerInv ==
  TypeOK /\ PoolIsBounded /\ GroupsCommitWhatTheyStart /\ NothingOutlivesTheStep

PendingCalls == Logged("call") \ Logged("result")

Trace == INSTANCE SessionTrace WITH Calls <- Call, openTurn <- 1, openStep <- 1,
           nextTurnNo <- 1, nextStepNo <- 1, pendingCalls <- PendingCalls

\* Within the open step the appended calls and results are those the session
\* log accepts: a result answers a pending call.
AppendsAreLegal ==
  [][\E c \in Call : Trace!ToolCall(c) \/ Trace!ToolResult(c)]_log

\* Every step's tool calls come to an end.
SchedulerFinishes == <>(pc \in {"returned", "failed"})
=============================================================================
