----------------------------- MODULE WriteBehind -----------------------------
(***************************************************************************)
(* SessionWriteBehind (session-persistence/src/write-behind.ts), the write *)
(* controller of one live session, with the flush() and the write sink the *)
(* coordinator wraps around it (coordinator.ts).                           *)
(*                                                                         *)
(* An action is one synchronous stretch.  enqueue() and flush() may be     *)
(* called between any two of them; timers and backend answers only run     *)
(* once the promise continuations that are due have run.                   *)
(***************************************************************************)
EXTENDS Naturals, Sequences, FiniteSets

CONSTANTS
  Caller,           \* calls of flush(), each at most once
  MaxEvents,        \* bound: events the session appends
  MaxSeed           \* bound: events it already had when it was tracked

ASSUME WriteBehindAssumption == MaxEvents \in Nat /\ MaxSeed \in 0..MaxEvents

VARIABLES
  accepted,         \* events of the session; event n has seq n - 1
  seed,             \* the first events, which initialization stores
  init,             \* live.init
  durable,          \* external: the log the backend has stored
  pending,
  timer,            \* an armed timer
  deadlineExpired,
  automaticPaused,
  write,            \* this.active: "none", or how far its promise is
  batch,            \* the prefix that active writes
  background,       \* whether active was started by startBackground()
  continuing,       \* continueAutomatic() is due
  barrier,          \* this.barrier: "none", or what drainBarrier() awaits
  resume,           \* what drainBarrier() resumes with, once it is due
  asked, answer     \* flush() calls, see DurableLog

timerVars  == <<timer, deadlineExpired, automaticPaused>>
writeVars  == <<write, batch, background, continuing>>
barrierVars == <<barrier, resume>>
callVars   == <<asked, answer>>
sessionVars == <<accepted, seed>>
vars == <<sessionVars, init, durable, pending, timerVars, writeVars,
          barrierVars, callVars>>

Event == 1..MaxEvents

TypeOK ==
  /\ accepted \in 0..MaxEvents /\ seed \in 0..MaxSeed
  /\ init \in {"pending", "ready", "failed"}
  /\ durable \in Seq(Event) /\ pending \in Seq(Event) /\ batch \in Seq(Event)
  /\ timer \in BOOLEAN /\ deadlineExpired \in BOOLEAN
  /\ automaticPaused \in BOOLEAN
  /\ write \in {"none", "writing", "succeeded", "failed"}
  /\ background \in BOOLEAN /\ continuing \in BOOLEAN
  /\ barrier \in {"none", "overlapping", "draining"}
  /\ resume \in {"none", "next", "throw"}
  /\ asked \in [Caller -> 0..MaxEvents]
  /\ answer \in [Caller -> {"none", "awaitInit", "joined", "flushed", "refused"}]

\* No promise continuation is due, so the event loop may turn.
MicrotasksRan ==
  write \in {"none", "writing"} /\ ~continuing /\ resume = "none"

\* A caller of flush() does not see what its call waits for.
Answered ==
  [c \in Caller |-> IF answer[c] \in {"awaitInit", "joined"} THEN "asked" ELSE answer[c]]

Log == INSTANCE DurableLog WITH answer <- Answered

-----------------------------------------------------------------------------
(* The controller's operations *)

\* startWrite(): take all of the queue under one active write.
StartWrite(queue, isBackground) ==
  /\ write' = "writing" /\ batch' = queue /\ pending' = <<>>
  /\ background' = isBackground
  /\ timer' = FALSE /\ deadlineExpired' = FALSE

\* enqueue(), behind session/event.
Enqueue ==
  /\ accepted < MaxEvents
  /\ accepted' = accepted + 1
  /\ pending' = Append(pending, accepted + 1)
  /\ timer' = (timer \/ (barrier = "none" /\ (automaticPaused \/ pending = <<>>)))
  /\ IF barrier = "none" /\ automaticPaused
       THEN automaticPaused' = FALSE /\ deadlineExpired' = FALSE
       ELSE UNCHANGED <<automaticPaused, deadlineExpired>>
  /\ UNCHANGED <<seed, init, durable, writeVars, barrierVars, callVars>>

\* onDeadline().
Deadline ==
  /\ timer /\ MicrotasksRan
  /\ IF write # "none"
       THEN /\ timer' = FALSE /\ deadlineExpired' = TRUE
            /\ UNCHANGED <<pending, write, batch, background>>
       ELSE StartWrite(pending, TRUE)
  /\ UNCHANGED <<sessionVars, init, durable, automaticPaused, continuing,
                 barrierVars, callVars>>

\* Mutant: a deadline that expired during the write is forgotten.
ContinueNever ==
  /\ continuing /\ continuing' = FALSE
  /\ UNCHANGED <<sessionVars, init, durable, pending, timerVars, write, batch,
                 background, barrierVars, callVars>>

\* continueAutomatic(), after a background write that succeeded.
ContinueAutomatic ==
  /\ continuing /\ continuing' = FALSE
  /\ IF barrier = "none" /\ pending # <<>> /\ deadlineExpired
       THEN StartWrite(pending, TRUE)
       ELSE UNCHANGED <<pending, timer, deadlineExpired, write, batch, background>>
  /\ UNCHANGED <<sessionVars, init, durable, automaticPaused, barrierVars,
                 callVars>>

\* The events of s after event n, in their order: the j-th of them is the one
\* with j such events up to it.
After(s, n) ==
  LET kept == {i \in 1..Len(s) : s[i] > n}
      nth(j) == CHOOSE i \in kept : Cardinality({k \in kept : k <= i}) = j
  IN  [j \in 1..Cardinality(kept) |-> s[nth(j)]]

\* appendLiveBatch(): events below the stored cursor were in the seed.
Fresh == After(batch, Len(durable))

\* The sink succeeds, after initialization.
WriteSucceeds ==
  /\ write = "writing" /\ init = "ready" /\ MicrotasksRan
  /\ durable' = durable \o Fresh
  /\ write' = "succeeded" /\ batch' = <<>>
  /\ UNCHANGED <<sessionVars, init, pending, timerVars, background, continuing,
                 barrierVars, callVars>>

\* Mutant: the failed batch is queued behind newer events.
WriteFailsAppends ==
  /\ write = "writing" /\ init # "pending" /\ MicrotasksRan
  /\ pending' = pending \o batch
  /\ timer' = FALSE /\ deadlineExpired' = FALSE /\ automaticPaused' = TRUE
  /\ write' = "failed" /\ batch' = <<>>
  /\ UNCHANGED <<sessionVars, init, durable, background, continuing,
                 barrierVars, callVars>>

\* It fails: the catch of startWrite() retains the batch in order.
WriteFails ==
  /\ write = "writing" /\ init # "pending" /\ MicrotasksRan
  /\ pending' = batch \o pending
  /\ timer' = FALSE /\ deadlineExpired' = FALSE /\ automaticPaused' = TRUE
  /\ write' = "failed" /\ batch' = <<>>
  /\ UNCHANGED <<sessionVars, init, durable, background, continuing,
                 barrierVars, callVars>>

\* finally: active is undefined; whoever awaited it becomes due.
WriteReleased ==
  /\ write \in {"succeeded", "failed"}
  /\ write' = "none"
  /\ continuing' = (background /\ write = "succeeded")
  /\ resume' = IF barrier = "none" THEN "none"
               ELSE IF barrier = "draining" /\ write = "failed" THEN "throw"
               ELSE "next"
  /\ UNCHANGED <<sessionVars, init, durable, pending, timerVars, batch,
                 background, barrier, callVars>>

-----------------------------------------------------------------------------
(* flush(): the coordinator's, then the controller's *)

\* cancelAutomaticWait() before the await of live.init.
FlushCalled(c) ==
  /\ answer[c] = "none"
  /\ answer' = [answer EXCEPT ![c] = "awaitInit"]
  /\ asked' = [asked EXCEPT ![c] = accepted]
  /\ timer' = FALSE /\ deadlineExpired' = FALSE
  /\ UNCHANGED <<sessionVars, init, durable, pending, automaticPaused,
                 writeVars, barrierVars>>

FlushRefused(c) ==
  /\ answer[c] = "awaitInit" /\ init = "failed"
  /\ answer' = [answer EXCEPT ![c] = "refused"]
  /\ timer' = FALSE /\ deadlineExpired' = FALSE
  /\ UNCHANGED <<sessionVars, init, durable, pending, automaticPaused,
                 writeVars, barrierVars, asked>>

\* A barrier in progress is shared.
JoinBarrier(c) ==
  /\ answer[c] = "awaitInit" /\ init = "ready" /\ barrier # "none"
  /\ answer' = [answer EXCEPT ![c] = "joined"]
  /\ UNCHANGED <<sessionVars, init, durable, pending, timerVars, writeVars,
                 barrierVars, asked>>

\* The callers of the barrier get their answer, and the barrier is closed.
CloseBarrier(calls, result) ==
  /\ barrier' = "none"
  /\ answer' = [c \in Caller |-> IF answer[c] = "joined" \/ c \in calls
                                   THEN result ELSE answer[c]]

\* The drain loop: write what is pending, or close in the same stretch.
DrainOrClose(calls) ==
  IF pending # <<>>
    THEN /\ StartWrite(pending, FALSE)
         /\ barrier' = "draining"
         /\ answer' = [c \in Caller |-> IF c \in calls THEN "joined" ELSE answer[c]]
    ELSE /\ CloseBarrier(calls, "flushed")
         /\ UNCHANGED <<pending, write, batch, background>>

\* Mutant: the drain does not await an overlapping write.
OpenBarrierAtOnce(c) ==
  /\ answer[c] = "awaitInit" /\ init = "ready" /\ barrier = "none"
  /\ timer' = FALSE /\ deadlineExpired' = FALSE /\ automaticPaused' = FALSE
  /\ DrainOrClose({c})
  /\ UNCHANGED <<sessionVars, init, durable, continuing, resume, asked>>

\* flush() opens a barrier and runs drainBarrier() up to its first await.
OpenBarrier(c) ==
  /\ answer[c] = "awaitInit" /\ init = "ready" /\ barrier = "none"
  /\ timer' = FALSE /\ deadlineExpired' = FALSE /\ automaticPaused' = FALSE
  /\ IF write # "none"
       THEN /\ barrier' = "overlapping"
            /\ answer' = [answer EXCEPT ![c] = "joined"]
            /\ UNCHANGED <<pending, write, batch, background>>
       ELSE DrainOrClose({c})
  /\ UNCHANGED <<sessionVars, init, durable, continuing, resume, asked>>

\* drainBarrier() continues after the write it awaited.
DrainContinues ==
  /\ resume = "next" /\ resume' = "none"
  /\ automaticPaused' = (automaticPaused /\ barrier # "overlapping")
  /\ DrainOrClose({})
  /\ pending = <<>> => UNCHANGED <<timer, deadlineExpired>>
  /\ UNCHANGED <<sessionVars, init, durable, continuing, asked>>

\* Mutant: a failed barrier never rejects.
DrainThrowsSilently ==
  /\ resume = "throw" /\ resume' = "none" /\ barrier' = "none"
  /\ UNCHANGED <<sessionVars, init, durable, pending, timerVars, writeVars,
                 callVars>>

DrainThrows ==
  /\ resume = "throw" /\ resume' = "none"
  /\ CloseBarrier({}, "refused")
  /\ UNCHANGED <<sessionVars, init, durable, pending, timerVars, writeVars, asked>>

-----------------------------------------------------------------------------
\* initFor(): onCreated() stores the seed, or fails for good.
InitSettles(outcome) ==
  /\ init = "pending" /\ init' = outcome
  /\ durable' = IF outcome = "ready" THEN Log!FirstEvents(seed) ELSE durable
  /\ UNCHANGED <<sessionVars, pending, timerVars, writeVars, barrierVars, callVars>>

\* The session is first seen at its creation, or with the event it appends:
\* that event is then in the seed and in the queue.
Init ==
  /\ seed \in 0..MaxSeed /\ accepted = seed
  /\ pending \in {<<>>} \union (IF seed > 0 THEN {<<seed>>} ELSE {})
  /\ timer = (pending # <<>>)
  /\ init = "pending" /\ durable = <<>>
  /\ deadlineExpired = FALSE /\ automaticPaused = FALSE
  /\ write = "none" /\ batch = <<>> /\ background = FALSE /\ continuing = FALSE
  /\ barrier = "none" /\ resume = "none"
  /\ asked = [c \in Caller |-> 0] /\ answer = [c \in Caller |-> "none"]

Continuations ==
  \/ ContinueAutomatic \/ WriteReleased \/ DrainContinues \/ DrainThrows
  \/ \E c \in Caller : FlushRefused(c) \/ JoinBarrier(c) \/ OpenBarrier(c)

Environment ==
  \/ Deadline \/ WriteSucceeds \/ WriteFails
  \/ \E outcome \in {"ready", "failed"} : InitSettles(outcome)

Next == Enqueue \/ (\E c \in Caller : FlushCalled(c)) \/ Continuations \/ Environment

Spec == Init /\ [][Next]_vars

\* Timers fire, the backend answers, and due continuations run.
FairSpec == Spec /\ WF_vars(Continuations) /\ WF_vars(Environment)

-----------------------------------------------------------------------------
(* Properties *)

\* No accepted event is lost, duplicated or reordered between the stored log,
\* the write in progress and the queue, whichever writes fail.
NothingLost ==
  LET stored == IF init = "ready" THEN durable ELSE Log!FirstEvents(seed)
  IN  stored \o After(batch \o pending, Len(stored)) = Log!FirstEvents(accepted)

\* Queued events are never stranded: something is under way that will write
\* them, or automatic writing is paused by a failure, or every write must fail.
NoStrand ==
  pending # <<>> =>
    \/ timer \/ write # "none" \/ barrier # "none" \/ (continuing /\ deadlineExpired)
    \/ automaticPaused \/ init = "failed"
    \/ \E c \in Caller : answer[c] = "awaitInit"

\* While an explicit barrier is open, no batching wait competes with it, so no
\* timer can start a second write beside the barrier's.
BarrierOwnsTheQueue == barrier # "none" => ~timer /\ ~deadlineExpired

\* What holds of the queue at every await of the controller: it is complete, it
\* is attended to, and a barrier has it to itself.
QueueInv == TypeOK /\ NothingLost /\ NoStrand /\ BarrierOwnsTheQueue

\* The write path keeps the promise of DurableLog: a prefix in order, and a
\* successful flush is a barrier.
ImplementsDurableLog == Log!Spec

\* flush() always answers.
FlushAnswers ==
  \A c \in Caller : answer[c] = "awaitInit" ~> answer[c] \in {"flushed", "refused"}

\* An accepted event becomes durable without any flush, unless a failure pauses
\* automatic writing.
EventsBecomeDurable ==
  \A n \in Event : accepted >= n ~>
    (Len(durable) >= n \/ automaticPaused \/ init = "failed")
=============================================================================
