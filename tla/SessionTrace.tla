---------------------------- MODULE SessionTrace ----------------------------
(***************************************************************************)
(* What the session log promises its readers: the lifecycle events nest.   *)
(* The state is the fold session/src/invariant.ts keeps for each session,  *)
(* and an action is enabled when its event passes validateEvent.           *)
(* AgentLoop and ToolScheduler are shown to implement this module.         *)
(***************************************************************************)
EXTENDS Naturals

CONSTANT Calls        \* identities of model tool calls

VARIABLES
  openTurn,           \* number of the open turn, 0 for none
  openStep,           \* number of the open step, 0 for none
  nextTurnNo,         \* the number the next turn/start must carry
  nextStepNo,         \* the number the next step/start must carry
  pendingCalls        \* tool calls of the open step without a result

traceVars == <<openTurn, openStep, nextTurnNo, nextStepNo, pendingCalls>>

TraceTypeOK ==
  /\ openTurn \in Nat /\ openStep \in Nat
  /\ nextTurnNo \in Nat \ {0} /\ nextStepNo \in Nat \ {0}
  /\ pendingCalls \subseteq Calls

Init ==
  /\ openTurn = 0 /\ openStep = 0
  /\ nextTurnNo = 1 /\ nextStepNo = 1
  /\ pendingCalls = {}

TurnStart ==
  /\ openTurn = 0
  /\ openTurn' = nextTurnNo
  /\ nextStepNo' = 1
  /\ UNCHANGED <<openStep, nextTurnNo, pendingCalls>>

TurnEnd ==
  /\ openTurn # 0 /\ openStep = 0
  /\ openTurn' = 0
  /\ nextTurnNo' = nextTurnNo + 1
  /\ UNCHANGED <<openStep, nextStepNo, pendingCalls>>

StepStart ==
  /\ openTurn # 0 /\ openStep = 0
  /\ openStep' = nextStepNo
  /\ UNCHANGED <<openTurn, nextTurnNo, nextStepNo, pendingCalls>>

StepEnd ==
  /\ openStep # 0
  /\ openStep' = 0
  /\ nextStepNo' = nextStepNo + 1
  /\ pendingCalls' = {}
  /\ UNCHANGED <<openTurn, nextTurnNo>>

ToolCall(c) ==
  /\ openStep # 0
  /\ pendingCalls' = pendingCalls \union {c}
  /\ UNCHANGED <<openTurn, openStep, nextTurnNo, nextStepNo>>

\* Stricter than validateEvent, which also lets a result through that replaces
\* an earlier one, or that is synthetic, for a call that never started
\* (invariant.ts:130-139); driver and scheduler write neither, SessionRepair both.
ToolResult(c) ==
  /\ openStep # 0 /\ c \in pendingCalls
  /\ pendingCalls' = pendingCalls \ {c}
  /\ UNCHANGED <<openTurn, openStep, nextTurnNo, nextStepNo>>

Next ==
  \/ TurnStart \/ TurnEnd \/ StepStart \/ StepEnd
  \/ \E c \in Calls : ToolCall(c) \/ ToolResult(c)

Spec == Init /\ [][Next]_traceVars
=============================================================================
