------------------------------ MODULE AgentLoop ------------------------------
(***************************************************************************)
(* One agent: its inbox (agent/src/inbox.ts), its driver                   *)
(* (agent-loop/src/agent.ts, ReactLoopAgent) and its teardown, which waits *)
(* for the driver, unwinds the agent's scope and then lets go of the agent *)
(* (dispose(), agent-loop/src/index.ts).                                   *)
(*                                                                         *)
(* The program is single threaded.  An action is one synchronous stretch   *)
(* of the driver, from one await or one event emission to the next, or one *)
(* call of the agent's public surface.  A call can fall between any two    *)
(* stretches: from another task while the driver awaits, or from a         *)
(* listener while the driver publishes an event.  A listener of an append  *)
(* cannot append itself: Session.append() throws when it is reentered.     *)
(***************************************************************************)
EXTENDS Integers, Sequences, Functions

CONSTANTS
  Msg,              \* message identities; each is submitted at most once
  MaxSteps,         \* config.maxStepsPerTurn
  MaxRetries,       \* bound: request-error recoveries granted in one step
  MaxMaintenance,   \* bound: maintenance tasks the agent runs
  Decisions         \* what agent/pre-step listeners may answer

ASSUME BoundsAssumption ==
  /\ MaxSteps \in Nat \ {0}
  /\ MaxRetries \in Nat
  /\ MaxMaintenance \in Nat

\* "enter" is the default answer; "empty" an enter rewritten to no message.
ASSUME DecisionsAssumption == Decisions \subseteq {"enter", "empty", "reject"}

VARIABLES
  kind,             \* phase.kind
  turn,             \* phase.turn, phase.lastTurn while idle or in maintenance
  step,             \* phase.step of the latest running phase
  abort,            \* reason of phase.abort.signal, "none" while unaborted
  wakeRequested,    \* phase.wakeRequested
  inbox,            \* the two pending lists
  pc,               \* where the driver is; "none" without a driver
  target,           \* local of turn(): the list the next claim also takes from
  turnEnds,         \* local of turn(), kept until the next turn starts
  batch,            \* messages claimed for the proposed step
  decision,         \* the resolved pre-step decision, until turn() acts on it
  stepEnd,          \* what step() returned, until turn() has taken it
  retries,          \* recoveries granted in the open step
  openTurn, openStep, nextTurnNo, nextStepNo,   \* the log, see SessionTrace
  activity,         \* identity of the activityDone promise
  resolved,         \* activities up to this one have resolved
  awaited,          \* the activity the disposer's whenIdle() awaits or awaited
  disposal,         \* progress of the lifecycle owner's dispose()
  maintained,       \* maintenance tasks started so far
  fate,             \* history: where each message is
  owed,             \* history: a wake was accepted and no turn opened yet
  joined,           \* history: waking messages accepted while a turn ran
  late              \* history: ... between a turn's end and the driver's

phaseVars == <<kind, turn, step, abort, wakeRequested>>
turnVars  == <<target, turnEnds, batch, decision, stepEnd, retries>>
traceVars == <<openTurn, openStep, nextTurnNo, nextStepNo>>
lifeVars  == <<activity, resolved, awaited, disposal, maintained>>
msgVars   == <<inbox, fate>>
histVars  == <<owed, joined, late>>
agentVars == <<phaseVars, lifeVars, histVars>>  \* left alone inside a turn
vars == <<phaseVars, pc, turnVars, traceVars, lifeVars, msgVars, histVars>>

Targets == {"next-turn", "next-step"}
Causes  == {"user", "disposed"}           \* "parent" acts like "user"
Kinds   == {"idle", "maintenance", "running"}
Reasons == {"completed", "max-tokens", "blocked", "error", "aborted"}
PCs     == {"none", "start", "boundary", "pre-step", "decided", "entered",
            "request", "stream", "request-error", "tools", "step-done",
            "after-step", "stopping", "failing", "drain", "exit"}
Fates   == {"unsent", "pending", "claimed", "entered", "discarded", "dropped"}

\* The driver has a turn open, or has just closed one that ended normally.
TurnPCs == PCs \ {"none", "start", "exit"}

\* The driver is inside Session.append(), with turn/start, step/start, step/end
\* or turn/end published to the listeners of session/event.
Publishing == pc \in {"boundary", "entered", "after-step", "drain"}

\* Until the registries let go of the agent, its callers may use it.
Registered == disposal \in {"live", "waiting", "unwinding"}

\* A step is open.
StepPCs == {"entered", "request", "stream", "request-error", "tools", "step-done"}

TypeOK ==
  /\ kind \in Kinds
  /\ turn \in Nat /\ step \in Nat
  /\ abort \in Causes \union {"none"}
  /\ wakeRequested \in BOOLEAN
  /\ inbox \in [Targets -> Seq(Msg)]
  /\ pc \in PCs
  /\ target \in Targets
  /\ turnEnds \in Reasons \union {"none"}
  /\ batch \in Seq(Msg)
  /\ decision \in {"none", "reject", "messages", "nothing"}
  /\ stepEnd \in {"none", "completed", "max-tokens"}
  /\ retries \in 0..MaxRetries
  /\ openTurn \in Nat /\ openStep \in Nat
  /\ nextTurnNo \in Nat /\ nextStepNo \in Nat
  /\ activity \in Nat /\ resolved \in Nat /\ awaited \in Nat
  /\ disposal \in {"live", "waiting", "unwinding", "detached", "failed"}
  /\ maintained \in 0..MaxMaintenance
  /\ fate \in [Msg -> Fates]
  /\ owed \in BOOLEAN
  /\ joined \subseteq Msg /\ late \subseteq Msg

-----------------------------------------------------------------------------
(* The inbox *)

Pending == Range(inbox["next-turn"]) \union Range(inbox["next-step"])
HasPending == inbox["next-turn"] # <<>> \/ inbox["next-step"] # <<>>

Become(set, f) == fate' = [m \in Msg |-> IF m \in set THEN f ELSE fate[m]]

\* Inbox.clear(): every pending message is discarded.
Clear ==
  /\ inbox' = [t \in Targets |-> <<>>]
  /\ Become(Pending, "discarded")

\* Inbox.claim(): all next-step input, and one prompt at a turn boundary.
ClaimedPrompt ==
  IF target = "next-turn" /\ inbox["next-turn"] # <<>>
    THEN <<Head(inbox["next-turn"])>> ELSE <<>>

\* Mutant: a claimed prompt stays in the inbox.
ClaimLeavesPrompt ==
  /\ batch' = inbox["next-step"] \o ClaimedPrompt
  /\ inbox' = [inbox EXCEPT !["next-step"] = <<>>]
  /\ Become(Range(batch'), "claimed")

Claim ==
  LET claimed == inbox["next-step"] \o ClaimedPrompt
  IN  /\ batch' = claimed
      /\ inbox' = [t \in Targets |->
                     IF t = "next-step" THEN <<>>
                     ELSE IF ClaimedPrompt = <<>> THEN inbox[t] ELSE Tail(inbox[t])]
      /\ Become(Range(claimed), "claimed")

-----------------------------------------------------------------------------
(* Phases and wakes *)

\* wakeDriver() in the idle phase, from lastTurn.
StartDriver ==
  /\ kind' = "running" /\ step' = 0 /\ abort' = "none" /\ wakeRequested' = FALSE
  /\ activity' = activity + 1
  /\ pc' = "start"
  /\ UNCHANGED turn

\* Mutant: only an aborted turn remembers a wake, maintenance does not.
WakeDriverOfTurnsOnly(wakeAfterAbort) ==
  \/ kind = "idle" /\ StartDriver
  \/ /\ kind # "idle"
     /\ wakeRequested' = (wakeRequested \/ (abort # "disposed" /\ wakeAfterAbort))
     /\ UNCHANGED <<kind, turn, step, abort, activity, pc>>

\* wakeDriver(): an activity that cannot serve the wake remembers it.
WakeDriver(wakeAfterAbort) ==
  \/ kind = "idle" /\ StartDriver
  \/ /\ kind # "idle"
     /\ wakeRequested' = (wakeRequested
          \/ (abort # "disposed" /\ (kind = "maintenance" \/ wakeAfterAbort)))
     /\ UNCHANGED <<kind, turn, step, abort, activity, pc>>

\* The agent promises that this wake opens a turn.
WakeIsPromised(wakeAfterAbort) ==
  \/ kind = "idle"
  \/ abort # "disposed" /\ (kind = "maintenance" \/ wakeAfterAbort)

Send(m, preferred, wakeup) ==
  /\ Registered /\ ~Publishing /\ fate[m] = "unsent"
  /\ LET wakingAfterAbort == wakeup /\ kind # "idle" /\ abort # "none"
         resolvedTarget == IF wakingAfterAbort THEN "next-turn" ELSE preferred
     IN  /\ inbox' = [inbox EXCEPT ![resolvedTarget] = Append(@, m)]
         /\ Become({m}, "pending")
         /\ IF wakeup THEN WakeDriver(wakingAfterAbort)
                      ELSE UNCHANGED <<phaseVars, activity, pc>>
         /\ owed' = (owed \/ (wakeup /\ WakeIsPromised(wakingAfterAbort)))
         /\ joined' = IF wakeup /\ abort = "none" /\ pc \in TurnPCs
                        THEN joined \union {m} ELSE joined
         /\ late' = IF wakeup /\ abort = "none" /\ pc = "exit"
                      THEN late \union {m} ELSE late
  /\ UNCHANGED <<turnVars, traceVars, resolved, awaited, disposal,
                 maintained>>

Followup(m) == Send(m, "next-turn", TRUE)
Steer(m)    == Send(m, "next-step", TRUE)
Inject(m)   == Send(m, "next-step", FALSE)

\* A plugin edits a pending list: Inbox.splice() with at most one message
\* removed and one inserted, which covers remove, replace and prepend.
EditInbox(t, start, removed, inserted) ==
  LET list == inbox[t]
      cut  == SubSeq(list, start, start + removed - 1)
  IN  /\ Registered /\ ~Publishing
      /\ removed + Len(inserted) > 0
      /\ start + removed <= Len(list) + 1
      /\ \A m \in Range(inserted) : fate[m] = "unsent"
      /\ inbox' = [inbox EXCEPT ![t] =
           SubSeq(list, 1, start - 1) \o inserted
             \o SubSeq(list, start + removed, Len(list))]
      /\ fate' = [m \in Msg |-> IF m \in Range(cut) THEN "discarded"
                                ELSE IF m \in Range(inserted) THEN "pending"
                                ELSE fate[m]]
      /\ owed' = (owed /\ (HasPending' \/ (kind = "running" /\ abort = "none")))
      /\ UNCHANGED <<phaseVars, pc, turnVars, traceVars, lifeVars, joined, late>>

\* cancel(cause, {keepInbox}); the first abort reason wins.
CancelWith(cause, keepInbox) ==
  /\ IF keepInbox THEN UNCHANGED msgVars ELSE Clear
  /\ wakeRequested' = (wakeRequested /\ (keepInbox \/ kind = "idle"))
  /\ abort' = IF kind # "idle" /\ abort = "none" THEN cause ELSE abort
  /\ owed' = (owed /\ keepInbox /\ (kind = "maintenance" \/ abort # "none"))
  /\ joined' = {} /\ late' = {}
  /\ UNCHANGED <<kind, turn, step, pc, turnVars, traceVars>>

\* Clearing an inbox appends; it throws, before any effect, while publishing.
MayCancel(keepInbox) == keepInbox \/ ~HasPending \/ ~Publishing

Cancel(keepInbox) ==
  /\ Registered /\ MayCancel(keepInbox)
  /\ CancelWith("user", keepInbox)
  /\ UNCHANGED lifeVars

\* Mutant: activityDone is never resolved.
ConvergeWithoutResolving ==
  /\ kind' = "idle" /\ pc' = "none"
  /\ abort' = "none" /\ wakeRequested' = FALSE
  /\ UNCHANGED <<turn, step, activity, resolved>>

\* The end of an activity: idle, then the latched wake if work is pending.
ConvergeToIdle ==
  /\ resolved' = activity
  /\ IF wakeRequested /\ HasPending
       THEN StartDriver
       ELSE /\ kind' = "idle" /\ pc' = "none"
            /\ abort' = "none" /\ wakeRequested' = FALSE
            /\ UNCHANGED <<turn, step, activity>>

StartMaintenance ==
  /\ Registered
  /\ kind = "idle" /\ maintained < MaxMaintenance
  /\ kind' = "maintenance" /\ abort' = "none" /\ wakeRequested' = FALSE
  /\ activity' = activity + 1 /\ maintained' = maintained + 1
  /\ UNCHANGED <<turn, step, pc, turnVars, traceVars, resolved, awaited,
                 disposal, msgVars, histVars>>

EndMaintenance ==
  /\ kind = "maintenance"
  /\ ConvergeToIdle
  /\ UNCHANGED <<turnVars, traceVars, awaited, disposal, maintained, msgVars,
                 histVars>>

-----------------------------------------------------------------------------
(* The driver: kick(), turn(), preStep() and step() *)

\* Append turn/end with this reason.
AppendTurnEnd(reason) ==
  /\ turnEnds' = reason
  /\ openTurn' = 0 /\ nextTurnNo' = nextTurnNo + 1
  /\ UNCHANGED <<openStep, nextStepNo>>

\* turn(): throw before the try block, without a turn.
TurnRefused ==
  /\ pc = "start" /\ pc' = "exit"
  /\ owed' = (owed /\ abort # "none")
  /\ UNCHANGED <<phaseVars, turnVars, traceVars, lifeVars, msgVars, joined,
                 late>>

TurnStart ==
  /\ pc = "start" /\ abort = "none"
  /\ pc' = "boundary"
  /\ turn' = turn + 1
  /\ openTurn' = turn + 1 /\ nextStepNo' = 1
  /\ turnEnds' = "none" /\ target' = "next-turn"
  /\ owed' = FALSE
  /\ UNCHANGED <<kind, step, abort, wakeRequested, batch, decision, stepEnd,
                 retries, openStep, nextTurnNo, lifeVars, msgVars, joined,
                 late>>

\* The decision opens a step, possibly one that only continues tool results.
EntersStep ==
  \/ decision = "messages"
  \/ decision = "nothing" /\ turnEnds = "none" /\ step > 0

\* A throw inside turn()'s try block, outside an open step.
Throw ==
  /\ \/ pc = "boundary" /\ (abort # "none" \/ step + 1 > MaxSteps)
     \/ pc = "pre-step"                     \* assembly or a listener throws
     \/ pc = "decided" /\ EntersStep /\ abort # "none"
     \/ pc = "after-step" /\ abort # "none"
     \/ pc = "stopping"                     \* a listener throws, or the abort
  /\ pc' = "failing"
  /\ batch' = <<>> /\ decision' = "none"
  /\ Become(Range(batch), "dropped")
  /\ UNCHANGED <<agentVars, target, turnEnds, stepEnd, retries, traceVars,
                 inbox>>

ProposeStep ==
  /\ pc = "boundary" /\ abort = "none" /\ step + 1 <= MaxSteps
  /\ Claim
  /\ pc' = "pre-step"
  /\ UNCHANGED <<agentVars, target, turnEnds, decision, stepEnd, retries,
                 traceVars>>

\* The listeners answer d; the default answer adds a changed runtime context.
Decide(d, contextChanged) ==
  /\ pc = "pre-step" /\ abort = "none"
  /\ pc' = "decided"
  /\ decision' = CASE d = "reject" -> "reject"
                   [] d = "empty"  -> "nothing"
                   [] d = "enter"  -> IF batch # <<>> \/ contextChanged
                                        THEN "messages" ELSE "nothing"
  /\ batch' = IF d = "enter" THEN batch ELSE <<>>
  /\ IF d = "enter" THEN UNCHANGED fate ELSE Become(Range(batch), "dropped")
  /\ UNCHANGED <<agentVars, target, turnEnds, stepEnd, retries, traceVars,
                 inbox>>

\* return false: the turn closes without a step and the driver retires.
CloseWithoutStep ==
  /\ pc = "decided"
  /\ \/ decision = "reject" /\ AppendTurnEnd("blocked")
     \/ /\ decision = "nothing" /\ turnEnds = "none" /\ step = 0
        /\ AppendTurnEnd("completed")
  /\ pc' = "exit"
  /\ decision' = "none"
  /\ UNCHANGED <<agentVars, target, batch, stepEnd, retries, msgVars>>

\* break: the turn has its ending and no more input.
CloseTurn ==
  /\ turnEnds # "none"
  /\ \/ pc = "decided" /\ decision = "nothing"
     \/ pc = "stopping" /\ abort = "none" /\ inbox["next-step"] = <<>>
  /\ AppendTurnEnd(turnEnds)
  /\ pc' = "drain"
  /\ decision' = "none"
  /\ UNCHANGED <<agentVars, target, batch, stepEnd, retries, msgVars>>

StepStart ==
  /\ pc = "decided" /\ EntersStep /\ abort = "none"
  /\ pc' = "entered"
  /\ step' = step + 1
  /\ openStep' = step + 1
  /\ decision' = "none"
  /\ UNCHANGED <<kind, turn, abort, wakeRequested, target, turnEnds, batch,
                 stepEnd, retries, openTurn, nextTurnNo, nextStepNo, lifeVars,
                 msgVars, histVars>>

\* The accepted batch becomes durable user messages; step() begins.
EnterMessages ==
  /\ pc = "entered"
  /\ pc' = "request"
  /\ batch' = <<>>
  /\ Become(Range(batch), "entered")
  /\ UNCHANGED <<agentVars, target, turnEnds, decision, stepEnd, retries,
                 traceVars, inbox>>

\* Mutant: no throwIfAborted() after buildRequest().
DispatchUnchecked ==
  /\ pc = "request" /\ pc' = "stream"
  /\ UNCHANGED <<agentVars, target, turnEnds, batch, decision, stepEnd,
                 retries, traceVars, msgVars>>

\* buildRequest() is done and the provider stream opens.
Dispatch ==
  /\ pc = "request" /\ abort = "none"
  /\ pc' = "stream"
  /\ UNCHANGED <<agentVars, target, turnEnds, batch, decision, stepEnd,
                 retries, traceVars, msgVars>>

\* Mutant: the finish reason of the stream is taken for the step's ending.
FinishAsReported(reply) ==
  /\ pc = "stream" /\ abort = "none"
  /\ pc' = "step-done" /\ stepEnd' = reply
  /\ UNCHANGED <<agentVars, target, turnEnds, batch, decision, retries,
                 traceVars, msgVars>>

\* The stream ends; "tools" is a message with tool calls, "failure" a finish
\* of kind error or aborted.
Finish(reply) ==
  /\ pc = "stream" /\ abort = "none"
  /\ pc' = CASE reply = "failure" -> "request-error"
             [] reply = "tools"   -> "tools"
             [] OTHER             -> "step-done"
  /\ stepEnd' = IF reply \in {"completed", "max-tokens"} THEN reply ELSE "none"
  /\ UNCHANGED <<agentVars, target, turnEnds, batch, decision, retries,
                 traceVars, msgVars>>

Retry ==
  /\ pc = "request-error" /\ abort = "none" /\ retries < MaxRetries
  /\ pc' = "request"
  /\ retries' = retries + 1
  /\ UNCHANGED <<agentVars, target, turnEnds, batch, decision, stepEnd,
                 traceVars, msgVars>>

\* executeToolCalls() returns, aborted or not; see ToolScheduler.
ToolsDone(concluded) ==
  /\ pc = "tools"
  /\ pc' = "step-done"
  /\ stepEnd' = IF concluded THEN "completed" ELSE "none"
  /\ UNCHANGED <<agentVars, target, turnEnds, batch, decision, retries,
                 traceVars, msgVars>>

AppendStepEnd ==
  /\ openStep' = 0 /\ nextStepNo' = nextStepNo + 1
  /\ UNCHANGED <<openTurn, nextTurnNo>>

\* Mutant: step/end is not in a finally.
StepThrowsLeavesStepOpen ==
  /\ pc \in {"request", "stream", "request-error", "tools"}
  /\ pc' = "failing"
  /\ UNCHANGED <<agentVars, turnVars, traceVars, msgVars>>

\* Mutant: the wait for the provider ignores the abort signal.
StepThrowsUnlessStreaming ==
  /\ pc \in {"request", "request-error", "tools"}
  /\ pc' = "failing"
  /\ AppendStepEnd
  /\ UNCHANGED <<agentVars, turnVars, msgVars>>

\* A throw inside the open step; its finally appends step/end.
StepThrows ==
  /\ pc \in {"request", "stream", "request-error", "tools"}
  /\ pc' = "failing"
  /\ AppendStepEnd
  /\ retries' = 0
  /\ UNCHANGED <<agentVars, target, turnEnds, batch, decision, stepEnd,
                 msgVars>>

\* step() returned: max-tokens stays the turn's ending once it was reached.
StepEnd ==
  /\ pc = "step-done"
  /\ pc' = "after-step"
  /\ AppendStepEnd
  /\ turnEnds' = IF turnEnds = "max-tokens" THEN turnEnds ELSE stepEnd
  /\ stepEnd' = "none" /\ retries' = 0
  /\ UNCHANGED <<agentVars, target, batch, decision, msgVars>>

\* The listeners of agent/turn-stopping run only when the turn could close.
AskStopping ==
  /\ pc = "after-step" /\ abort = "none"
  /\ turnEnds # "none" /\ inbox["next-step"] = <<>>
  /\ pc' = "stopping"
  /\ UNCHANGED <<agentVars, turnVars, traceVars, msgVars>>

NextStep ==
  /\ abort = "none"
  /\ \/ pc = "after-step" /\ (turnEnds = "none" \/ inbox["next-step"] # <<>>)
     \/ pc = "stopping" /\ inbox["next-step"] # <<>>
  /\ pc' = "boundary"
  /\ target' = "next-step"
  /\ UNCHANGED <<agentVars, turnEnds, batch, decision, stepEnd, retries,
                 traceVars, msgVars>>

\* turn()'s catch and finally: the ending follows the signal, not the error.
Catch ==
  /\ pc = "failing"
  /\ AppendTurnEnd(IF abort # "none" THEN "aborted" ELSE "error")
  /\ pc' = "exit"
  /\ UNCHANGED <<agentVars, target, batch, decision, stepEnd, retries,
                 msgVars>>

\* Mutant: only next-step input opens another turn.
DrainNextStepOnly ==
  /\ pc = "drain"
  /\ IF inbox["next-step"] # <<>>
       THEN /\ pc' = "start"
            /\ abort' = "none" /\ wakeRequested' = FALSE /\ step' = 0
       ELSE pc' = "exit" /\ UNCHANGED <<abort, wakeRequested, step>>
  /\ UNCHANGED <<kind, turn, turnVars, traceVars, lifeVars, msgVars,
                 histVars>>

\* Mutant: the next turn continues the step numbers of the last one.
DrainKeepsStep ==
  /\ pc = "drain"
  /\ IF HasPending
       THEN pc' = "start" /\ abort' = "none" /\ wakeRequested' = FALSE
       ELSE pc' = "exit" /\ UNCHANGED <<abort, wakeRequested>>
  /\ UNCHANGED <<kind, turn, step, turnVars, traceVars, lifeVars, msgVars,
                 histVars>>

\* After a normal ending: another turn under a fresh signal, or retire.
Drain ==
  /\ pc = "drain"
  /\ IF HasPending
       THEN /\ pc' = "start"
            /\ abort' = "none" /\ wakeRequested' = FALSE /\ step' = 0
       ELSE pc' = "exit" /\ UNCHANGED <<abort, wakeRequested, step>>
  /\ UNCHANGED <<kind, turn, turnVars, traceVars, lifeVars, msgVars,
                 histVars>>

\* kick()'s finally.
KickExit ==
  /\ pc = "exit"
  /\ ConvergeToIdle
  /\ UNCHANGED <<turnVars, traceVars, awaited, disposal, maintained, msgVars,
                 histVars>>

-----------------------------------------------------------------------------
(* The lifecycle owner's dispose() *)

\* cancel({ kind: 'disposed' }), then whenIdle() takes the current promise.
Dispose ==
  /\ disposal = "live" /\ MayCancel(FALSE)
  /\ disposal' = "waiting"
  /\ awaited' = activity
  /\ CancelWith("disposed", FALSE)
  /\ UNCHANGED <<activity, resolved, maintained>>

\* The cancel throws: dispose() rejects, and its finally has let go of the
\* registries without the wait and without unwinding the scope.
DisposeFails ==
  /\ disposal = "live" /\ ~MayCancel(FALSE)
  /\ disposal' = "failed"
  /\ UNCHANGED <<phaseVars, pc, turnVars, traceVars, activity, resolved,
                 awaited, maintained, msgVars, histVars>>

\* Mutant: whenIdle() awaits one promise only.
WhenIdleOnce ==
  /\ disposal = "waiting" /\ awaited <= resolved
  /\ disposal' = "unwinding" /\ awaited' = activity
  /\ UNCHANGED <<phaseVars, pc, turnVars, traceVars, activity, resolved,
                 maintained, msgVars, histVars>>

\* whenIdle(): loop until the promise it awaited is still the current one; then
\* the scope starts to unwind.
WhenIdle ==
  /\ disposal = "waiting" /\ awaited <= resolved
  /\ disposal' = IF awaited = activity THEN "unwinding" ELSE disposal
  /\ awaited' = activity
  /\ UNCHANGED <<phaseVars, pc, turnVars, traceVars, activity, resolved,
                 maintained, msgVars, histVars>>

\* The last cleanup of the scope has settled: the registries let go of the
\* agent, whatever it does by then.  A continuation interrupts no append.
Detach ==
  /\ disposal = "unwinding" /\ ~Publishing
  /\ disposal' = "detached"
  /\ UNCHANGED <<phaseVars, pc, turnVars, traceVars, activity, resolved,
                 awaited, maintained, msgVars, histVars>>

-----------------------------------------------------------------------------
Init ==
  /\ kind = "idle" /\ turn = 0 /\ step = 0 /\ abort = "none"
  /\ wakeRequested = FALSE
  /\ inbox = [t \in Targets |-> <<>>]
  /\ pc = "none" /\ target = "next-turn" /\ turnEnds = "none"
  /\ batch = <<>> /\ decision = "none" /\ stepEnd = "none"
  /\ retries = 0
  /\ openTurn = 0 /\ openStep = 0 /\ nextTurnNo = 1 /\ nextStepNo = 1
  /\ activity = 0 /\ resolved = 0 /\ awaited = 0
  /\ disposal = "live" /\ maintained = 0
  /\ fate = [m \in Msg |-> "unsent"]
  /\ owed = FALSE /\ joined = {} /\ late = {}

Driver ==
  \/ TurnRefused \/ TurnStart \/ Throw \/ ProposeStep
  \/ \E d \in Decisions, contextChanged \in BOOLEAN : Decide(d, contextChanged)
  \/ CloseWithoutStep \/ CloseTurn
  \/ StepStart \/ EnterMessages \/ Dispatch
  \/ \E reply \in {"completed", "max-tokens", "tools", "failure"} : Finish(reply)
  \/ Retry
  \/ \E concluded \in BOOLEAN : ToolsDone(concluded)
  \/ StepThrows \/ StepEnd \/ AskStopping \/ NextStep
  \/ Catch \/ Drain \/ KickExit

Callers ==
  \/ \E m \in Msg : Followup(m) \/ Steer(m) \/ Inject(m)
  \/ \E t \in Targets, start \in 1..(Len(inbox["next-turn"]) + Len(inbox["next-step"]) + 1),
        removed \in 0..1, inserted \in {<<>>} \union {<<m>> : m \in Msg} :
        EditInbox(t, start, removed, inserted)
  \/ \E keepInbox \in BOOLEAN : Cancel(keepInbox)
  \/ StartMaintenance

Disposer == Dispose \/ DisposeFails \/ WhenIdle \/ Detach

Next == Driver \/ Callers \/ EndMaintenance \/ Disposer

Spec == Init /\ [][Next]_vars

\* What the driver awaits settles, and the event loop runs what is due.
FairSpec ==
  /\ Spec
  /\ WF_vars(Driver) /\ WF_vars(EndMaintenance)
  /\ WF_vars(WhenIdle) /\ WF_vars(Detach)
-----------------------------------------------------------------------------
(* Properties *)

\* Every message is in one place: the pending ones occur once across both
\* lists, the claimed ones once in the batch of the step being proposed, and
\* no other message occurs in either (Inbox.validate, Inbox.claim).
OneHome ==
  LET places == inbox["next-turn"] \o inbox["next-step"] \o batch
  IN  /\ IsInjective(places)
      /\ \A m \in Msg : /\ fate[m] = "pending" <=> m \in Pending
                        /\ fate[m] = "claimed" <=> m \in Range(batch)

\* A wake the agent accepted while idle, in maintenance or behind an abort is
\* not forgotten: the agent is never idle while a turn for it is still owed
\* (the wakeRequested latch and its two replay sites).
WakeIsNotLost == kind = "idle" => ~owed

\* A turn that ran a step and ended normally leaves no waking message behind
\* that arrived while it was open (turn()'s hasPending check).
LiveTurnDrains ==
  (kind = "idle" /\ turnEnds \in {"completed", "max-tokens"} /\ step > 0)
    => joined \intersect Pending = {}

\* "Live drivers claim queued work themselves" (agent.ts:210): after a turn that
\* ended normally, no wake stays behind that found its driver live, in the turn
\* or between the turn's end and kick()'s finally.
LiveDriverClaimsQueuedWork ==
  (kind = "idle" /\ turnEnds \in {"completed", "max-tokens"})
    => (joined \union late) \intersect Pending = {}

\* After cancel() returns, the cancelled activity opens no turn and no step
\* and dispatches no model request (the throwIfAborted checks after awaits).
AbortStopsModelWork ==
  [][abort # "none" =>
       /\ openTurn' = openTurn \/ openTurn' = 0
       /\ openStep' = openStep \/ openStep' = 0
       /\ pc' = "stream" => pc = "stream"]_vars

\* dispose() waits for every activity that began before its whenIdle() returned,
\* the replacement of a latched wake included: while the scope unwinds and once
\* the agent is detached, it runs a driver or maintenance, has a turn open or a
\* wake latched only if new work was started after that moment.
TeardownWaits ==
  disposal \in {"unwinding", "detached"} /\ activity = awaited
    => kind = "idle" /\ openTurn = 0 /\ ~wakeRequested

\* agent/disposed comes "after driver quiescence and scoped-registration unwind"
\* (agent/src/runtime-types.ts:161): no driver runs when the agent is detached.
DetachedIsQuiescent == disposal = "detached" => kind # "running"

\* How the phase and the activity promise go with the driver's position.
PhaseInv ==
  /\ kind = "running" <=> pc # "none"
  /\ kind = "idle" => abort = "none" /\ ~wakeRequested
  /\ kind = "running" /\ wakeRequested => abort # "none"
  /\ activity = IF kind = "idle" THEN resolved ELSE resolved + 1
  /\ awaited <= activity
  /\ disposal \in {"unwinding", "detached"} => awaited <= resolved

\* How the log's open turn and step go with the driver's position.
LogInv ==
  /\ openTurn = IF pc \in {"none", "start", "drain", "exit"} THEN 0 ELSE turn
  /\ openStep = IF pc \in StepPCs THEN step ELSE 0
  /\ pc \notin {"none", "start", "drain", "exit"} => turn > 0
  /\ pc \in StepPCs => step > 0
  /\ pc = "start" => step = 0
  /\ nextTurnNo = IF openTurn = 0 THEN turn + 1 ELSE turn
  /\ openTurn # 0 => nextStepNo = IF openStep = 0 THEN step + 1 ELSE step

\* Where the agent keeps a promised wake.
WakeInv == owed => (pc = "start" /\ abort = "none") \/ (wakeRequested /\ HasPending)

\* The driver's position, the phase, the activity promise, the log and the wake
\* latch agree at every await (turn(), kick(), runMaintenance(), whenIdle()).
DriverInv == PhaseInv /\ LogInv /\ WakeInv

Trace == INSTANCE SessionTrace WITH Calls <- {}, pendingCalls <- {}

\* The driver's appends nest as the session log promises, with consecutive
\* turn and step numbers, on every path through errors and cancellation.
ImplementsSessionTrace == Trace!Spec

\* A cancelled activity ends, whatever it was waiting for.
CancelConverges ==
  abort # "none" ~> (kind = "idle" \/ abort = "none")

\* dispose() finishes, although wakes may start replacement activities.
DisposalFinishes == disposal = "waiting" ~> disposal = "detached"
=============================================================================
