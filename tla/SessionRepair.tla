---------------------------- MODULE SessionRepair ----------------------------
(***************************************************************************)
(* Crash recovery of a session log: interruptedTurnClosers                 *)
(* (core/session/src/repair.ts), which closes the turn a dead process left *)
(* open, judged by validateEvent (core/session/src/invariant.ts), which    *)
(* rules on every event.                                                   *)
(*                                                                         *)
(* The log is the durable prefix: the process may die after any event, and *)
(* again after any event of the repair itself.  The driver appends what    *)
(* agent.ts and tool-calls.ts append, in their order; on a restart it      *)
(* numbers its turns from what it finds in the log.  An event's seq is its *)
(* position, counted from 1, and 0 stands for null.                        *)
(***************************************************************************)
EXTENDS Naturals, SequencesExt

CONSTANTS
  MaxEvents,         \* the driver appends while the log is shorter than this
  MaxCalls           \* tool calls of one assistant message

ASSUME RepairAssumption == MaxEvents \in Nat /\ MaxCalls \in Nat

VARIABLES
  log,               \* the stored events
  stage,             \* where the driver is; "down" between crash and resume
  turn, step,        \* the driver's last turn and step numbers
  asked,             \* tool calls of the step's message not yet recorded
  inFlight,          \* recorded tool calls without a result, in order
  used               \* external: how many call ids the model has made up

vars == <<log, stage, turn, step, asked, inFlight, used>>
driverVars == <<stage, turn, step, asked, inFlight, used>>

Types == {"turn/start", "turn/end", "step/start", "step/end", "tool/call",
          "assistant/message", "tool/result", "session/end-seed"}
Stages == {"idle", "turn", "step", "tools", "down"}

\* Every event has the same fields; those it does not carry are empty.
Event(type, t, s) ==
  [type |-> type, turn |-> t, step |-> s, calls |-> <<>>, call |-> 0,
   error |-> "none", source |-> 0, op |-> "none"]

Message(t, s, calls) == [Event("assistant/message", t, s) EXCEPT !.calls = calls]
ToolCallOf(t, s, c) == [Event("tool/call", t, s) EXCEPT !.call = c]
Result(t, s, c, error, source, op) ==
  [Event("tool/result", t, s) EXCEPT
     !.call = c, !.error = error, !.source = source, !.op = op]

TypeOK ==
  /\ \A i \in DOMAIN log : log[i].type \in Types /\ log[i].turn \in 0..turn
  /\ stage \in Stages /\ turn \in Nat /\ step \in Nat
  /\ asked \in Seq(Nat) /\ inFlight \in Seq(Nat) /\ used \in Nat

SeqOfCall(l, c) == SelectInSeq(l, LAMBDA e : e.type = "tool/call" /\ e.call = c)

-----------------------------------------------------------------------------
(* repair.ts *)

\* The entry that assistant/message registers for one of its tool calls.
Registered(c, s) == [call |-> c, step |-> s, callSeq |-> 0]

\* Mutant: a recorded call marks every pending one as recorded.
AllRecorded(pending, c, seq) == [i \in DOMAIN pending |-> [pending[i] EXCEPT !.callSeq = seq]]

\* tool/call: the entry of its call remembers the event.
Recorded(pending, c, seq) ==
  [i \in DOMAIN pending |->
     IF pending[i].call = c THEN [pending[i] EXCEPT !.callSeq = seq] ELSE pending[i]]

\* One iteration of the loop over the stored events.
Scan(scan, e, seq) ==
  CASE e.type = "turn/start" -> [turn |-> e.turn, step |-> 0, pending |-> <<>>]
    [] e.type = "turn/end"   -> [turn |-> 0, step |-> 0, pending |-> <<>>]
    [] e.type = "step/start" -> [scan EXCEPT !.step = e.step]
    [] e.type = "step/end"   -> [scan EXCEPT !.step = 0, !.pending = <<>>]
    [] e.type = "assistant/message" ->
         [scan EXCEPT !.pending = @ \o [i \in DOMAIN e.calls |-> Registered(e.calls[i], e.step)]]
    [] e.type = "tool/call"  -> [scan EXCEPT !.pending = Recorded(@, e.call, seq)]
    [] e.type = "tool/result" ->
         [scan EXCEPT !.pending = RemoveFirstMatch(@, LAMBDA p : p.call = e.call)]
    [] OTHER -> scan

NoScan == [turn |-> 0, step |-> 0, pending |-> <<>>]

\* The loop, after each of the events.
ScanOf(l) ==
  LET after[i \in 0..Len(l)] == IF i = 0 THEN NoScan ELSE Scan(after[i - 1], l[i], i)
  IN  after
Scanned(l) == ScanOf(l)[Len(l)]

\* The synthetic result of a call that was pending at the crash.
Interrupted(t, p) ==
  Result(t, p.step, p.call, IF p.callSeq = 0 THEN "not-started" ELSE "unknown",
         p.callSeq, "append")

\* Mutants: the turn is closed before its step; the results come last.
ClosersTurnFirst(l) ==
  LET scan == Scanned(l)
  IN  IF scan.turn = 0 THEN <<>>
      ELSE [i \in DOMAIN scan.pending |-> Interrupted(scan.turn, scan.pending[i])]
           \o <<Event("turn/end", scan.turn, 0)>>
           \o IF scan.step = 0 THEN <<>> ELSE <<Event("step/end", scan.turn, scan.step)>>

ClosersResultsLast(l) ==
  LET scan == Scanned(l)
  IN  IF scan.turn = 0 THEN <<>>
      ELSE (IF scan.step = 0 THEN <<>> ELSE <<Event("step/end", scan.turn, scan.step)>>)
           \o [i \in DOMAIN scan.pending |-> Interrupted(scan.turn, scan.pending[i])]
           \o <<Event("turn/end", scan.turn, 0)>>

\* interruptedTurnClosers: nothing for a balanced log; else a result for every
\* pending call, the end of an open step and the end of the turn.
Closers(l) ==
  LET scan == Scanned(l)
  IN  IF scan.turn = 0 THEN <<>>
      ELSE [i \in DOMAIN scan.pending |-> Interrupted(scan.turn, scan.pending[i])]
           \o (IF scan.step = 0 THEN <<>> ELSE <<Event("step/end", scan.turn, scan.step)>>)
           \o <<Event("turn/end", scan.turn, 0)>>

\* The Session constructor marks the end of a seed, once.
Marked(l) ==
  IF l # <<>> /\ Last(l).type = "session/end-seed" THEN l
  ELSE Append(l, Event("session/end-seed", 0, 0))

\* What a load makes of a stored log.
Reopened(l) == Marked(l \o Closers(l))

-----------------------------------------------------------------------------
(* invariant.ts *)

FreshTrace ==
  [ok |-> TRUE, openTurn |-> 0, openStep |-> 0, nextTurn |-> 1, nextStep |-> 1,
   pendingCalls |-> {}]

\* validateEvent: what the event requires of the trace.
Valid(trace, e) ==
  LET inStep == e.turn = trace.openTurn /\ e.step = trace.openStep /\ e.step # 0
  IN  CASE e.type = "turn/start" -> trace.openTurn = 0 /\ e.turn = trace.nextTurn
        [] e.type = "turn/end"   -> trace.openTurn = e.turn /\ trace.openStep = 0
        [] e.type = "step/start" ->
             trace.openTurn = e.turn /\ trace.openStep = 0 /\ e.step = trace.nextStep
        [] e.type \in {"step/end", "assistant/message", "tool/call"} -> inStep
        [] e.type = "tool/result" ->
             IF e.op = "replace" THEN trace.openTurn # 0
             ELSE inStep /\ (e.call \in trace.pendingCalls \/ e.error = "not-started")
        [] OTHER -> TRUE

\* The transition applied once the event has committed.
Apply(trace, e) ==
  CASE e.type = "turn/start" -> [trace EXCEPT !.openTurn = e.turn, !.nextStep = 1]
    [] e.type = "turn/end"   -> [trace EXCEPT !.openTurn = 0, !.nextTurn = @ + 1]
    [] e.type = "step/start" -> [trace EXCEPT !.openStep = e.step]
    [] e.type = "step/end"   ->
         [trace EXCEPT !.openStep = 0, !.nextStep = @ + 1, !.pendingCalls = {}]
    [] e.type = "tool/call"  -> [trace EXCEPT !.pendingCalls = @ \union {e.call}]
    [] e.type = "tool/result" /\ e.op = "append" ->
         [trace EXCEPT !.pendingCalls = @ \ {e.call}]
    [] OTHER -> trace

\* The event commits; ok remembers whether every one was valid.
Commit(trace, e) == Apply([trace EXCEPT !.ok = @ /\ Valid(trace, e)], e)

\* seedSession, after each of the events.
TraceOf(l) ==
  LET after[i \in 0..Len(l)] ==
        IF i = 0 THEN FreshTrace ELSE Commit(after[i - 1], l[i])
  IN  after
Traced(l) == TraceOf(l)[Len(l)]

-----------------------------------------------------------------------------
(* The driver, its crash and its restart *)

Emit(e) == Len(log) < MaxEvents /\ log' = Append(log, e)

TurnStart ==
  /\ stage = "idle" /\ stage' = "turn"
  /\ turn' = turn + 1 /\ step' = 0
  /\ Emit(Event("turn/start", turn + 1, 0))
  /\ UNCHANGED <<asked, inFlight, used>>

StepStart ==
  /\ stage = "turn" /\ stage' = "step"
  /\ step' = step + 1
  /\ Emit(Event("step/start", turn, step + 1))
  /\ UNCHANGED <<turn, asked, inFlight, used>>

\* The model's answer, with n fresh tool calls.
AssistantMessage(n) ==
  LET calls == [i \in 1..n |-> used + i]
  IN  /\ stage = "step" /\ stage' = "tools"
      /\ asked' = calls /\ used' = used + n
      /\ Emit(Message(turn, step, calls))
      /\ UNCHANGED <<turn, step, inFlight>>

\* appendToolCall: calls start in the model's order.
ToolCall ==
  /\ stage = "tools" /\ asked # <<>>
  /\ asked' = Tail(asked) /\ inFlight' = Append(inFlight, Head(asked))
  /\ Emit(ToolCallOf(turn, step, Head(asked)))
  /\ UNCHANGED <<stage, turn, step, used>>

\* appendToolResult: results are committed in the model's order.
ToolResult ==
  /\ stage = "tools" /\ inFlight # <<>>
  /\ inFlight' = Tail(inFlight)
  /\ Emit(Result(turn, step, Head(inFlight), "none", SeqOfCall(log, Head(inFlight)), "append"))
  /\ UNCHANGED <<stage, turn, step, asked, used>>

\* The end of a step, also of one that failed with calls unanswered.
StepEnd ==
  /\ stage \in {"step", "tools"} /\ stage' = "turn"
  /\ asked' = <<>> /\ inFlight' = <<>>
  /\ Emit(Event("step/end", turn, step))
  /\ UNCHANGED <<turn, step, used>>

TurnEnd ==
  /\ stage = "turn" /\ stage' = "idle"
  /\ Emit(Event("turn/end", turn, 0))
  /\ UNCHANGED <<turn, step, asked, inFlight, used>>

\* The pruner rewrites a tool result of the surface between two steps of a turn.
Rewrite(i) ==
  /\ stage = "turn"
  /\ log[i].type = "tool/result"
  /\ \A j \in DOMAIN log : log[j].op = "replace" => log[j].source # i
  /\ Emit([log[i] EXCEPT !.op = "replace", !.source = i])
  /\ UNCHANGED driverVars

Crash ==
  /\ stage # "down" /\ stage' = "down"
  /\ asked' = <<>> /\ inFlight' = <<>>
  /\ UNCHANGED <<log, turn, step, used>>

\* The load appends its closers; the process may die after any of them.
Repair(k) ==
  /\ stage = "down" /\ k \in DOMAIN Closers(log)
  /\ log' = log \o SubSeq(Closers(log), 1, k)
  /\ UNCHANGED driverVars

\* The agent is constructed on the reloaded log.
LastTurn(l) == LET i == SelectLastInSeq(l, LAMBDA e : e.type = "turn/start")
               IN  IF i = 0 THEN 0 ELSE l[i].turn

Resume ==
  /\ stage = "down" /\ log # <<>> /\ Closers(log) = <<>>
  /\ stage' = "idle" /\ step' = 0
  /\ log' = Marked(log)
  /\ turn' = LastTurn(log)
  /\ UNCHANGED <<asked, inFlight, used>>

Init ==
  /\ log = <<>> /\ stage = "idle"
  /\ turn = 0 /\ step = 0
  /\ asked = <<>> /\ inFlight = <<>> /\ used = 0

Driver ==
  \/ TurnStart \/ StepStart \/ ToolCall \/ ToolResult \/ StepEnd \/ TurnEnd
  \/ \E n \in 0..MaxCalls : AssistantMessage(n)
  \/ \E i \in DOMAIN log : Rewrite(i)

Next == Driver \/ Crash \/ Resume \/ \E k \in DOMAIN Closers(log) : Repair(k)

Spec == Init /\ [][Next]_vars

-----------------------------------------------------------------------------
(* Properties *)

\* Wherever the process dies, the stored log and the closers of its repair
\* pass validateEvent event by event, and no turn or step stays open.
RepairIsLegal ==
  LET trace == Traced(log \o Closers(log))
  IN  TypeOK /\ trace.ok /\ trace.openTurn = 0 /\ trace.openStep = 0

\* A repair that is interrupted is resumed where it stopped: the next load
\* computes exactly the closers that are missing, so none is stored twice.
\* Opening a session again and again does not grow its log.
RepairResumes ==
  LET closers == Closers(log)
  IN  /\ \A k \in 0..Len(closers) :
           Closers(log \o SubSeq(closers, 1, k)) = SubSeq(closers, k + 1, Len(closers))
      /\ Reopened(Reopened(log)) = Reopened(log)

\* Where the last assistant message and the last step/end are, and the results
\* of calls since the message.
LastMessage(l) == SelectLastInSeq(l, LAMBDA e : e.type = "assistant/message")
LastStepEnd(l) == SelectLastInSeq(l, LAMBDA e : e.type = "step/end")
Collected(results, e) ==
  CASE e.type = "assistant/message" -> <<>>
    [] e.type = "tool/result" /\ e.op = "append" -> Append(results, e)
    [] OTHER -> results
AnswersOf(l) ==
  LET after[i \in 0..Len(l)] == IF i = 0 THEN <<>> ELSE Collected(after[i - 1], l[i])
  IN  after
Answers(l) == AnswersOf(l)[Len(l)]

\* The tool calls of the step that was open at the crash: each has exactly one
\* result in the repaired log, in the model's order, before the step's end.  A
\* synthetic one says "unknown" and cites the recorded call exactly if the call
\* was recorded: a tool that may have run is never reported as not started.
InterruptedCallsAnswered ==
  LET results == Answers(log \o Closers(log))
  IN  LastMessage(log) > LastStepEnd(log) =>
        /\ [i \in DOMAIN results |-> results[i].call] = log[LastMessage(log)].calls
        /\ \A i \in DOMAIN results :
             /\ results[i].source = SeqOfCall(log, results[i].call)
             /\ results[i].error = "not-started" <=> results[i].source = 0
=============================================================================
