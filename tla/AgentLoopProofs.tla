--------------------------- MODULE AgentLoopProofs ---------------------------
(***************************************************************************)
(* Theorems about AgentLoop, for every set of messages, step limit and     *)
(* number of retries and maintenance tasks: the driver, its log and its    *)
(* inbox.                                                                  *)
(***************************************************************************)
EXTENDS AgentLoop, SequenceTheorems, TLAPS

-----------------------------------------------------------------------------
(* Types *)

\* The pieces an edit is built from are sequences of messages.
LEMMA EditedListType ==
  ASSUME NEW list \in Seq(Msg), NEW inserted \in Seq(Msg),
         NEW start \in Nat \ {0}, NEW removed \in Nat,
         start + removed <= Len(list) + 1
  PROVE  SubSeq(list, 1, start - 1) \o inserted
           \o SubSeq(list, start + removed, Len(list)) \in Seq(Msg)
<1>1. SubSeq(list, 1, start - 1) \in Seq(Msg)
  BY SubSeqProperties
<1>2. SubSeq(list, start + removed, Len(list)) \in Seq(Msg)
  BY SubSeqProperties, LenProperties
<1> QED BY <1>1, <1>2

LEMMA ClaimedType ==
  ASSUME inbox \in [Targets -> Seq(Msg)]
  PROVE  /\ ClaimedPrompt \in Seq(Msg)
         /\ inbox["next-step"] \o ClaimedPrompt \in Seq(Msg)
<1>1. inbox["next-step"] \in Seq(Msg) /\ inbox["next-turn"] \in Seq(Msg)
  BY DEF Targets
<1>2. ClaimedPrompt \in Seq(Msg)
  BY <1>1 DEF ClaimedPrompt
<1> QED BY <1>1, <1>2

\* Every step keeps the types.
LEMMA TypeStep == TypeOK /\ [Next]_vars => TypeOK'
<1> SUFFICES ASSUME TypeOK, [Next]_vars
             PROVE  TypeOK'
  OBVIOUS
<1> USE DEF TypeOK, vars, phaseVars, turnVars, traceVars, lifeVars, msgVars,
            histVars, agentVars
<1>1. CASE UNCHANGED vars
  BY <1>1 DEF vars
<1>2. CASE TurnRefused
  BY <1>2 DEF TurnRefused, PCs, Reasons, Causes, Kinds, Fates
<1>3. CASE TurnStart
  <2>1. owed' \in BOOLEAN
    BY <1>3, Zenon DEF TurnStart
  <2> QED BY <1>3, <2>1 DEF TurnStart, PCs, Targets
<1>4. CASE Throw
  BY <1>4 DEF Throw, Become, PCs, Reasons, Causes, Kinds, Fates
<1>5. CASE ProposeStep
  <2>1. /\ batch' \in Seq(Msg)
        /\ inbox' \in [Targets -> Seq(Msg)]
    BY <1>5, ClaimedType, HeadTailProperties DEF ProposeStep, Claim, Targets, ClaimedPrompt
  <2>2. fate' \in [Msg -> Fates]
    BY <1>5 DEF ProposeStep, Claim, Become, Fates
  <2> QED BY <1>5, <2>1, <2>2 DEF ProposeStep, PCs
<1>6. CASE CloseWithoutStep
  BY <1>6 DEF CloseWithoutStep, AppendTurnEnd, PCs, Reasons, Causes, Kinds, Fates
<1>7. CASE CloseTurn
  BY <1>7 DEF CloseTurn, AppendTurnEnd, PCs, Reasons, Causes, Kinds, Fates
<1>8. CASE StepStart
  BY <1>8, BoundsAssumption DEF StepStart, PCs
<1>9. CASE EnterMessages
  BY <1>9 DEF EnterMessages, Become, PCs, Reasons, Causes, Kinds, Fates
<1>10. CASE Dispatch
  BY <1>10 DEF Dispatch, PCs, Reasons, Causes, Kinds, Fates
<1>11. CASE Retry
  BY <1>11, BoundsAssumption DEF Retry, PCs
<1>12. CASE StepThrows
  BY <1>12, BoundsAssumption DEF StepThrows, AppendStepEnd, PCs
<1>13. CASE StepEnd
  BY <1>13, BoundsAssumption DEF StepEnd, AppendStepEnd, PCs, Reasons
<1>14. CASE AskStopping
  BY <1>14 DEF AskStopping, PCs, Reasons, Causes, Kinds, Fates
<1>15. CASE NextStep
  BY <1>15 DEF NextStep, PCs, Targets
<1>16. CASE Catch
  BY <1>16 DEF Catch, AppendTurnEnd, PCs, Reasons, Causes, Kinds, Fates
<1>17. CASE Drain
  <2>1. CASE HasPending
    <3>1. wakeRequested' \in BOOLEAN
      BY <1>17, <2>1, Zenon DEF Drain
    <3> QED BY <1>17, <2>1, <3>1 DEF Drain, PCs, Causes
  <2>2. CASE ~HasPending
    BY <1>17, <2>2 DEF Drain, PCs
  <2> QED BY <2>1, <2>2
<1>18. ASSUME NEW d \in Decisions, NEW contextChanged \in BOOLEAN,
             Decide(d, contextChanged)
      PROVE  TypeOK'
  <2>1. decision' \in {"none", "reject", "messages", "nothing"}
    BY <1>18, DecisionsAssumption DEF Decide
  <2>2. fate' \in [Msg -> Fates] /\ batch' \in Seq(Msg)
    BY <1>18 DEF Decide, Become, Fates
  <2> QED BY <1>18, <2>1, <2>2 DEF Decide, PCs
<1>19. ASSUME NEW reply \in {"completed", "max-tokens", "tools", "failure"},
             Finish(reply)
      PROVE  TypeOK'
  BY <1>19 DEF Finish, PCs
<1>20. ASSUME NEW concluded \in BOOLEAN, ToolsDone(concluded)
      PROVE  TypeOK'
  BY <1>20 DEF ToolsDone, PCs
<1>21. CASE KickExit \/ EndMaintenance
  <2>1. wakeRequested' \in BOOLEAN
    BY <1>21, Zenon DEF KickExit, EndMaintenance, ConvergeToIdle, StartDriver
  <2>2. CASE wakeRequested /\ HasPending
    <3>1. resolved' = activity /\ StartDriver
      BY <1>21, <2>2, Zenon DEF KickExit, EndMaintenance, ConvergeToIdle
    <3>2. UNCHANGED <<turnVars, traceVars, awaited, disposal, maintained, msgVars, histVars>>
      BY <1>21, Zenon DEF KickExit, EndMaintenance
    <3> QED BY <2>1, <3>1, <3>2 DEF StartDriver, PCs, Kinds, Causes
  <2>3. CASE ~(wakeRequested /\ HasPending)
    BY <1>21, <2>1, <2>3 DEF KickExit, EndMaintenance, ConvergeToIdle, PCs, Kinds, Causes
  <2> QED BY <2>2, <2>3
<1>22. CASE StartMaintenance
  <2>1. wakeRequested' \in BOOLEAN
    BY <1>22, Zenon DEF StartMaintenance
  <2> QED BY <1>22, <2>1, BoundsAssumption DEF StartMaintenance, Kinds, Causes
<1>23. ASSUME NEW cause \in Causes, NEW keepInbox \in BOOLEAN, CancelWith(cause, keepInbox)
      PROVE  /\ inbox' \in [Targets -> Seq(Msg)] /\ fate' \in [Msg -> Fates]
             /\ wakeRequested' \in BOOLEAN /\ owed' \in BOOLEAN
             /\ abort' \in Causes \union {"none"}
             /\ joined' \subseteq Msg /\ late' \subseteq Msg
  <2>1. wakeRequested' \in BOOLEAN /\ owed' \in BOOLEAN
    BY <1>23 DEF CancelWith
  <2>2. abort' \in Causes \union {"none"} /\ joined' \subseteq Msg /\ late' \subseteq Msg
    BY <1>23 DEF CancelWith
  <2>3. inbox' \in [Targets -> Seq(Msg)] /\ fate' \in [Msg -> Fates]
    <3>1. CASE keepInbox
      BY <1>23, <3>1, Zenon DEF CancelWith
    <3>2. CASE ~keepInbox
      <4>1. /\ inbox' = [t \in Targets |-> <<>>]
            /\ fate' = [m \in Msg |-> IF m \in Pending THEN "discarded" ELSE fate[m]]
        BY <1>23, <3>2, Zenon DEF CancelWith, Clear, Become
      <4> QED BY <4>1 DEF Fates
    <3> QED BY <3>1, <3>2
  <2> QED BY <2>1, <2>2, <2>3
<1>24. CASE Dispose
  BY <1>24, <1>23 DEF Dispose, CancelWith, Causes
<1>25. CASE WhenIdle \/ Detach \/ DisposeFails
  BY <1>25 DEF WhenIdle, Detach, DisposeFails
<1>26. CASE \E keepInbox \in BOOLEAN : Cancel(keepInbox)
  BY <1>26, <1>23 DEF Cancel, CancelWith, Causes
<1>27. ASSUME NEW m \in Msg, NEW preferred \in Targets, NEW wakeup \in BOOLEAN,
             Send(m, preferred, wakeup)
      PROVE  TypeOK'
  <2>1. inbox' \in [Targets -> Seq(Msg)]
    BY <1>27 DEF Send, Targets
  <2>2. /\ fate' \in [Msg -> Fates] /\ owed' \in BOOLEAN
        /\ joined' \subseteq Msg /\ late' \subseteq Msg
    BY <1>27 DEF Send, Become, Fates, WakeIsPromised
  <2>3. /\ kind' \in Kinds /\ turn' \in Nat /\ step' \in Nat /\ pc' \in PCs
        /\ abort' \in Causes \union {"none"} /\ activity' \in Nat
    BY <1>27 DEF Send, WakeDriver, StartDriver, PCs, Kinds, Causes
  <2>4. wakeRequested' \in BOOLEAN
    BY <1>27, Zenon DEF Send, WakeDriver, StartDriver
  <2> QED BY <1>27, <2>1, <2>2, <2>3, <2>4 DEF Send
<1>28. ASSUME NEW t \in Targets, NEW start \in Nat \ {0}, NEW removed \in 0..1,
             NEW inserted \in Seq(Msg), EditInbox(t, start, removed, inserted)
      PROVE  TypeOK'
  <2>1. inbox' \in [Targets -> Seq(Msg)]
    BY <1>28, EditedListType DEF EditInbox
  <2>2. fate' \in [Msg -> Fates] /\ owed' \in BOOLEAN
    BY <1>28 DEF EditInbox, Fates
  <2> QED BY <1>28, <2>1, <2>2 DEF EditInbox
<1>29. CASE \E m \in Msg : Followup(m) \/ Steer(m) \/ Inject(m)
  BY <1>29, <1>27 DEF Followup, Steer, Inject, Targets
<1>30. CASE \E t \in Targets,
               start \in 1..(Len(inbox["next-turn"]) + Len(inbox["next-step"]) + 1),
               removed \in 0..1, inserted \in {<<>>} \union {<<m>> : m \in Msg} :
               EditInbox(t, start, removed, inserted)
  <2>1. PICK t \in Targets,
             start \in 1..(Len(inbox["next-turn"]) + Len(inbox["next-step"]) + 1),
             removed \in 0..1, inserted \in {<<>>} \union {<<m>> : m \in Msg} :
             EditInbox(t, start, removed, inserted)
    BY <1>30
  <2>2. inserted \in Seq(Msg)
    <3>1. CASE inserted = <<>>
      BY <3>1
    <3>2. ASSUME NEW m \in Msg, inserted = <<m>>
          PROVE  inserted \in Seq(Msg)
      BY <3>2
    <3> QED BY <3>1, <3>2
  <2>3. start \in Nat \ {0}
    BY LenProperties DEF Targets
  <2> QED BY <1>28, <2>1, <2>2, <2>3
<1> QED
  BY <1>1, <1>2, <1>3, <1>4, <1>5, <1>6, <1>7, <1>8, <1>9, <1>10, <1>11, <1>12, <1>13, <1>14, <1>15, <1>16, <1>17, <1>18, <1>19, <1>20, <1>21, <1>22, <1>29, <1>24, <1>25, <1>26, <1>30
     DEF Next, Disposer, Driver, Callers

\* The phase, the driver's position, the inbox, the log's counters and the
\* teardown never leave their types, for any messages and limits.
THEOREM TypeCorrect == Spec => []TypeOK
<1>1. Init => TypeOK
  <2> SUFFICES ASSUME Init PROVE TypeOK
    OBVIOUS
  <2>1. wakeRequested \in BOOLEAN /\ owed \in BOOLEAN
    BY Zenon DEF Init
  <2>2. fate \in [Msg -> Fates] /\ inbox \in [Targets -> Seq(Msg)]
    BY DEF Init, Fates, Targets
  <2> QED BY <2>1, <2>2, BoundsAssumption
          DEF Init, TypeOK, Kinds, Causes, PCs, Targets, Reasons
<1> QED BY <1>1, TypeStep, PTL DEF Spec

-----------------------------------------------------------------------------
(* The driver's invariant *)

\* The driver's steps that move neither the phase nor the teardown.
StepsInTurn ==
  \/ TurnRefused \/ Throw \/ ProposeStep
  \/ \E d \in Decisions, contextChanged \in BOOLEAN : Decide(d, contextChanged)
  \/ CloseWithoutStep \/ CloseTurn \/ EnterMessages \/ Dispatch
  \/ \E reply \in {"completed", "max-tokens", "tools", "failure"} : Finish(reply)
  \/ Retry
  \/ \E concluded \in BOOLEAN : ToolsDone(concluded)
  \/ StepThrows \/ StepEnd \/ AskStopping \/ NextStep \/ Catch

LEMMA StepsInTurnKeepPhase ==
  ASSUME StepsInTurn
  PROVE  /\ pc # "none" /\ pc' # "none"
         /\ UNCHANGED <<kind, turn, step, abort, wakeRequested>>
         /\ UNCHANGED <<activity, resolved, awaited, disposal, maintained>>
<1> USE DEF phaseVars, lifeVars, agentVars
<1>1. CASE TurnRefused \/ Throw
  BY <1>1 DEF TurnRefused, Throw
<1>2. CASE ProposeStep
  BY <1>2 DEF ProposeStep
<1>3. CASE \E d \in Decisions, contextChanged \in BOOLEAN : Decide(d, contextChanged)
  BY <1>3 DEF Decide
<1>4. CASE CloseWithoutStep \/ CloseTurn
  BY <1>4 DEF CloseWithoutStep, CloseTurn
<1>5. CASE EnterMessages \/ Dispatch \/ Retry
  BY <1>5 DEF EnterMessages, Dispatch, Retry
<1>6. CASE \E reply \in {"completed", "max-tokens", "tools", "failure"} : Finish(reply)
  BY <1>6 DEF Finish
<1>7. CASE \E concluded \in BOOLEAN : ToolsDone(concluded)
  BY <1>7 DEF ToolsDone
<1>8. CASE StepThrows \/ StepEnd \/ AskStopping
  BY <1>8 DEF StepThrows, StepEnd, AskStopping
<1>9. CASE NextStep \/ Catch
  BY <1>9 DEF NextStep, Catch
<1> QED
  BY <1>1, <1>2, <1>3, <1>4, <1>5, <1>6, <1>7, <1>8, <1>9 DEF StepsInTurn

\* What a send or an edit of the inbox may do to the phase: start a driver for
\* an idle agent, or latch a wake behind an abort or maintenance.
PhaseOfCalls ==
  /\ UNCHANGED <<resolved, awaited, disposal>>
  /\ Registered
  /\ \/ kind = "idle" /\ StartDriver
     \/ /\ UNCHANGED <<kind, turn, step, abort, activity, pc>>
        /\ wakeRequested' # wakeRequested =>
             wakeRequested' /\ kind # "idle" /\ (kind = "maintenance" \/ abort # "none")

LEMMA SendOnPhase ==
  ASSUME TypeOK, NEW m \in Msg, NEW preferred \in Targets, NEW wakeup \in BOOLEAN,
         Send(m, preferred, wakeup)
  PROVE  PhaseOfCalls
<1> DEFINE afterAbort == wakeup /\ kind # "idle" /\ abort # "none"
<1>1. /\ UNCHANGED <<resolved, awaited, disposal>>
      /\ Registered
      /\ IF wakeup THEN WakeDriver(afterAbort) ELSE UNCHANGED <<phaseVars, activity, pc>>
  BY Zenon DEF Send
<1>2. CASE ~wakeup
  BY <1>1, <1>2 DEF PhaseOfCalls, phaseVars
<1>3. CASE wakeup /\ kind = "idle"
  <2>1. StartDriver
    BY <1>1, <1>3, Zenon DEF WakeDriver
  <2> QED BY <1>1, <1>3, <2>1, Zenon DEF PhaseOfCalls
<1>4. CASE wakeup /\ kind # "idle"
  <2>1. /\ UNCHANGED <<kind, turn, step, abort, activity, pc>>
        /\ wakeRequested' = (wakeRequested
             \/ (abort # "disposed" /\ (kind = "maintenance" \/ afterAbort)))
    BY <1>1, <1>4, Zenon DEF WakeDriver
  <2>2. wakeRequested' # wakeRequested =>
           wakeRequested' /\ (kind = "maintenance" \/ abort # "none")
    BY <2>1 DEF TypeOK
  <2> QED BY <1>1, <1>4, <2>1, <2>2, Zenon DEF PhaseOfCalls
<1> QED BY <1>2, <1>3, <1>4

\* Every step keeps the phase, the activity promise and the teardown in line.
LEMMA PhaseStep == TypeOK /\ PhaseInv /\ [Next]_vars => PhaseInv'
<1> SUFFICES ASSUME TypeOK, PhaseInv, [Next]_vars
             PROVE  PhaseInv'
  OBVIOUS
<1>1. CASE UNCHANGED vars
  BY <1>1 DEF PhaseInv, vars, phaseVars, lifeVars
<1>2. CASE StepsInTurn
  BY <1>2, StepsInTurnKeepPhase DEF PhaseInv
<1>3. CASE TurnStart
  BY <1>3 DEF TurnStart, PhaseInv, lifeVars
<1>4. CASE StepStart
  BY <1>4 DEF StepStart, PhaseInv, lifeVars
<1>5. CASE Drain
  <2>1. pc = "drain" /\ kind' = kind /\ UNCHANGED lifeVars
    BY <1>5 DEF Drain
  <2>2. CASE HasPending
    <3>1. pc' = "start" /\ ~wakeRequested'
      BY <1>5, <2>2, Zenon DEF Drain
    <3> QED BY <2>1, <3>1 DEF PhaseInv, lifeVars
  <2>3. CASE ~HasPending
    <3>1. pc' = "exit" /\ UNCHANGED <<abort, wakeRequested>>
      BY <1>5, <2>3 DEF Drain
    <3> QED BY <2>1, <3>1 DEF PhaseInv, lifeVars
  <2> QED BY <2>2, <2>3
<1>6. CASE KickExit \/ EndMaintenance
  <2>1. /\ kind # "idle" /\ ConvergeToIdle
        /\ UNCHANGED <<awaited, disposal>>
    BY <1>6 DEF KickExit, EndMaintenance, PhaseInv
  <2>2. CASE wakeRequested /\ HasPending
    <3>1. StartDriver /\ resolved' = activity
      BY <2>1, <2>2, Zenon DEF ConvergeToIdle
    <3>2. ~wakeRequested'
      BY <3>1, Zenon DEF StartDriver
    <3> QED BY <2>1, <3>1, <3>2 DEF StartDriver, PhaseInv, TypeOK
  <2>3. CASE ~(wakeRequested /\ HasPending)
    <3>1. /\ kind' = "idle" /\ pc' = "none" /\ abort' = "none"
          /\ resolved' = activity /\ activity' = activity
      BY <2>1, <2>3 DEF ConvergeToIdle
    <3>2. ~wakeRequested'
      BY <2>1, <2>3, Zenon DEF ConvergeToIdle
    <3> QED BY <2>1, <3>1, <3>2 DEF PhaseInv, TypeOK
  <2> QED BY <2>2, <2>3
<1>7. CASE StartMaintenance
  <2>1. ~wakeRequested'
    BY <1>7, Zenon DEF StartMaintenance
  <2> QED BY <1>7, <2>1 DEF StartMaintenance, Registered, PhaseInv, TypeOK
<1>8. ASSUME PhaseOfCalls
      PROVE  PhaseInv'
  <2>1. CASE kind = "idle" /\ StartDriver
    <3>1. ~wakeRequested'
      BY <2>1, Zenon DEF StartDriver
    <3> QED BY <1>8, <2>1, <3>1 DEF PhaseOfCalls, Registered, StartDriver, PhaseInv, TypeOK
  <2>2. CASE ~(kind = "idle" /\ StartDriver)
    <3>1. /\ UNCHANGED <<kind, turn, step, abort, activity, pc>>
          /\ UNCHANGED <<resolved, awaited, disposal>>
          /\ wakeRequested' # wakeRequested =>
               kind # "idle" /\ (kind = "maintenance" \/ abort # "none")
      BY <1>8, <2>2, Zenon DEF PhaseOfCalls
    <3> QED BY <3>1 DEF PhaseInv
  <2> QED BY <2>1, <2>2
<1>9. CASE \E m \in Msg : Followup(m) \/ Steer(m) \/ Inject(m)
  BY <1>8, <1>9, SendOnPhase DEF Followup, Steer, Inject, Targets
<1>10. CASE \E t \in Targets,
               start \in 1..(Len(inbox["next-turn"]) + Len(inbox["next-step"]) + 1),
               removed \in 0..1, inserted \in {<<>>} \union {<<m>> : m \in Msg} :
               EditInbox(t, start, removed, inserted)
  BY <1>10 DEF EditInbox, PhaseInv, phaseVars, lifeVars
<1>11. ASSUME NEW cause \in Causes, NEW keepInbox \in BOOLEAN, CancelWith(cause, keepInbox)
       PROVE  /\ UNCHANGED <<kind, turn, step, pc>>
              /\ abort' = IF kind # "idle" /\ abort = "none" THEN cause ELSE abort
              /\ wakeRequested' => wakeRequested
  BY <1>11 DEF CancelWith
<1>12. CASE \E keepInbox \in BOOLEAN : Cancel(keepInbox)
  <2>1. PICK keepInbox \in BOOLEAN : CancelWith("user", keepInbox) /\ UNCHANGED lifeVars
    BY <1>12, Zenon DEF Cancel
  <2>2. /\ UNCHANGED <<kind, turn, step, pc>>
        /\ abort' = IF kind # "idle" /\ abort = "none" THEN "user" ELSE abort
        /\ wakeRequested' => wakeRequested
    BY <1>11, <2>1, Zenon DEF Causes
  <2> QED BY <2>1, <2>2 DEF PhaseInv, lifeVars
<1>13. CASE Dispose
  <2>1. CancelWith("disposed", FALSE) /\ disposal' = "waiting" /\ awaited' = activity
        /\ UNCHANGED <<activity, resolved>>
    BY <1>13 DEF Dispose
  <2>2. /\ UNCHANGED <<kind, turn, step, pc>>
        /\ abort' = IF kind # "idle" /\ abort = "none" THEN "disposed" ELSE abort
        /\ wakeRequested' => wakeRequested
    BY <2>1, <1>11, Zenon DEF Causes
  <2> QED BY <2>1, <2>2 DEF PhaseInv, TypeOK
<1>14. CASE WhenIdle
  <2>1. /\ UNCHANGED <<phaseVars, pc, activity, resolved>>
        /\ awaited' = activity
        /\ disposal = "waiting" /\ awaited <= resolved
        /\ disposal' = "waiting" \/ (disposal' = "unwinding" /\ awaited = activity)
    BY <1>14 DEF WhenIdle
  <2> QED BY <2>1 DEF PhaseInv, phaseVars, TypeOK
<1>15. CASE DisposeFails \/ Detach
  <2>1. /\ UNCHANGED <<kind, turn, step, abort, wakeRequested, pc, activity,
                        resolved, awaited>>
        /\ disposal' \in {"unwinding", "detached"} => disposal = "unwinding"
    BY <1>15 DEF DisposeFails, Detach, phaseVars
  <2> QED BY <2>1 DEF PhaseInv
<1> QED
  BY <1>1, <1>2, <1>3, <1>4, <1>5, <1>6, <1>7, <1>9, <1>10, <1>12, <1>13, <1>14,
     <1>15 DEF Next, Disposer, Driver, Callers, StepsInTurn

\* Every step keeps the log's open turn and step in line with the driver.
LEMMA LogStep == TypeOK /\ PhaseInv /\ LogInv /\ [Next]_vars => LogInv'
<1> SUFFICES ASSUME TypeOK, PhaseInv, LogInv, [Next]_vars
             PROVE  LogInv'
  OBVIOUS
<1> USE DEF agentVars, phaseVars, turnVars, traceVars
<1>1. CASE UNCHANGED vars
  BY <1>1 DEF LogInv, vars
<1>2. ASSUME UNCHANGED <<turn, step, pc, traceVars>>
      PROVE  LogInv'
  BY <1>2 DEF LogInv
<1>3. CASE TurnRefused
  BY <1>3 DEF TurnRefused, LogInv, StepPCs
<1>4. CASE TurnStart
  BY <1>4 DEF TurnStart, LogInv, StepPCs, TypeOK
<1>5. CASE Throw
  BY <1>5 DEF Throw, LogInv, StepPCs
<1>6. CASE ProposeStep
  BY <1>6 DEF ProposeStep, LogInv, StepPCs
<1>7. CASE \E d \in Decisions, contextChanged \in BOOLEAN : Decide(d, contextChanged)
  BY <1>7 DEF Decide, LogInv, StepPCs
<1>8. CASE CloseWithoutStep \/ CloseTurn \/ Catch
  BY <1>8 DEF CloseWithoutStep, CloseTurn, Catch, AppendTurnEnd, LogInv, StepPCs, TypeOK
<1>9. CASE StepStart
  BY <1>9 DEF StepStart, LogInv, StepPCs, TypeOK
<1>10. CASE EnterMessages \/ Dispatch \/ Retry
  BY <1>10 DEF EnterMessages, Dispatch, Retry, LogInv, StepPCs
<1>11. CASE \E reply \in {"completed", "max-tokens", "tools", "failure"} : Finish(reply)
  <2>1. /\ pc = "stream" /\ pc' \in {"request-error", "tools", "step-done"}
        /\ UNCHANGED <<turn, step, traceVars>>
    BY <1>11 DEF Finish
  <2> QED BY <2>1 DEF LogInv, StepPCs
<1>12. CASE \E concluded \in BOOLEAN : ToolsDone(concluded)
  BY <1>12 DEF ToolsDone, LogInv, StepPCs
<1>13. CASE StepThrows \/ StepEnd
  BY <1>13 DEF StepThrows, StepEnd, AppendStepEnd, LogInv, StepPCs, TypeOK
<1>14. CASE AskStopping \/ NextStep
  BY <1>14 DEF AskStopping, NextStep, LogInv, StepPCs
<1>15. CASE Drain
  <2>1. pc = "drain" /\ UNCHANGED <<turn, traceVars>>
    BY <1>15 DEF Drain
  <2>2. CASE HasPending
    <3>1. pc' = "start" /\ step' = 0
      BY <1>15, <2>2, Zenon DEF Drain
    <3> QED BY <2>1, <3>1 DEF LogInv, StepPCs
  <2>3. CASE ~HasPending
    BY <1>15, <2>1, <2>3 DEF Drain, LogInv, StepPCs
  <2> QED BY <2>2, <2>3
<1>16. ASSUME kind = "idle", StartDriver, UNCHANGED traceVars
       PROVE  LogInv'
  BY <1>16 DEF StartDriver, PhaseInv, LogInv, StepPCs
<1>17. CASE KickExit \/ EndMaintenance
  <2>1. /\ pc \in {"none", "exit"} /\ ConvergeToIdle
        /\ UNCHANGED traceVars
    BY <1>17 DEF KickExit, EndMaintenance, PhaseInv
  <2>2. /\ turn' = turn
        /\ pc' = "none" \/ (pc' = "start" /\ step' = 0)
    BY <2>1, Zenon DEF ConvergeToIdle, StartDriver
  <2> QED BY <2>1, <2>2 DEF LogInv, StepPCs
<1>18. CASE StartMaintenance \/ DisposeFails \/ WhenIdle \/ Detach
  BY <1>2, <1>18 DEF StartMaintenance, DisposeFails, WhenIdle, Detach
<1>19. ASSUME PhaseOfCalls, UNCHANGED traceVars
       PROVE  LogInv'
  BY <1>2, <1>16, <1>19, Zenon DEF PhaseOfCalls
<1>20. CASE \E m \in Msg : Followup(m) \/ Steer(m) \/ Inject(m)
  <2>1. ASSUME NEW m \in Msg, NEW preferred \in Targets, NEW wakeup \in BOOLEAN,
               Send(m, preferred, wakeup)
        PROVE  LogInv'
    <3>1. UNCHANGED traceVars
      BY <2>1, Zenon DEF Send
    <3> QED BY <1>19, <2>1, <3>1, SendOnPhase
  <2> QED BY <1>20, <2>1 DEF Followup, Steer, Inject, Targets
<1>21. CASE \E t \in Targets,
               start \in 1..(Len(inbox["next-turn"]) + Len(inbox["next-step"]) + 1),
               removed \in 0..1, inserted \in {<<>>} \union {<<m>> : m \in Msg} :
               EditInbox(t, start, removed, inserted)
  BY <1>2, <1>21 DEF EditInbox
<1>22. CASE Dispose \/ \E keepInbox \in BOOLEAN : Cancel(keepInbox)
  BY <1>2, <1>22 DEF Dispose, Cancel, CancelWith
<1> QED
  BY <1>1, <1>3, <1>4, <1>5, <1>6, <1>7, <1>8, <1>9, <1>10, <1>11, <1>12, <1>13,
     <1>14, <1>15, <1>17, <1>18, <1>20, <1>21, <1>22
     DEF Next, Disposer, Driver, Callers

\* A step of the driver that lets go of a latched wake opens a turn for it: the
\* latch is set behind an abort only, and an aborted driver neither claims
\* messages nor starts another turn.
LEMMA StepsInTurnKeepWake ==
  ASSUME TypeOK, PhaseInv, WakeInv, StepsInTurn
  PROVE  WakeInv'
<1> USE DEF phaseVars, histVars, agentVars, msgVars
<1>1. ASSUME pc # "start", owed' = owed, wakeRequested' = wakeRequested, inbox' = inbox
      PROVE  WakeInv'
  BY <1>1 DEF WakeInv, HasPending
<1>2. CASE TurnRefused
  <2>1. /\ owed' => owed /\ abort # "none"
        /\ wakeRequested' = wakeRequested /\ inbox' = inbox
    BY <1>2 DEF TurnRefused
  <2> QED BY <2>1 DEF WakeInv, HasPending
<1>3. CASE Throw
  <2>1. pc # "start"
    BY <1>3 DEF Throw
  <2>2. owed' = owed /\ wakeRequested' = wakeRequested /\ inbox' = inbox
    BY <1>3, Zenon DEF Throw
  <2> QED BY <1>1, <2>1, <2>2
<1>4. CASE ProposeStep
  <2>1. pc = "boundary" /\ abort = "none" /\ owed' = owed
    BY <1>4 DEF ProposeStep
  <2> QED BY <2>1 DEF WakeInv, PhaseInv
<1>5. CASE \E d \in Decisions, contextChanged \in BOOLEAN : Decide(d, contextChanged)
  BY <1>1, <1>5 DEF Decide
<1>6. CASE CloseWithoutStep \/ CloseTurn \/ EnterMessages
  BY <1>1, <1>6 DEF CloseWithoutStep, CloseTurn, EnterMessages
<1>7. CASE Dispatch \/ Retry \/ StepThrows \/ StepEnd
  BY <1>1, <1>7 DEF Dispatch, Retry, StepThrows, StepEnd
<1>8. CASE \E reply \in {"completed", "max-tokens", "tools", "failure"} : Finish(reply)
  BY <1>1, <1>8 DEF Finish
<1>9. CASE \E concluded \in BOOLEAN : ToolsDone(concluded)
  BY <1>1, <1>9 DEF ToolsDone
<1>10. CASE AskStopping \/ NextStep \/ Catch
  BY <1>1, <1>10 DEF AskStopping, NextStep, Catch
<1> QED
  BY <1>2, <1>3, <1>4, <1>5, <1>6, <1>7, <1>8, <1>9, <1>10 DEF StepsInTurn

\* A send latches the wake it promises, or starts a driver for it.
LEMMA SendKeepsWake ==
  ASSUME TypeOK, PhaseInv, WakeInv,
         NEW m \in Msg, NEW preferred \in Targets, NEW wakeup \in BOOLEAN,
         Send(m, preferred, wakeup)
  PROVE  WakeInv'
<1> DEFINE afterAbort == wakeup /\ kind # "idle" /\ abort # "none"
<1>1. HasPending'
  <2>1. PICK t \in Targets : inbox' = [inbox EXCEPT ![t] = Append(@, m)]
    BY Zenon DEF Send, Targets
  <2>2. inbox'[t] # <<>>
    BY <2>1 DEF TypeOK
  <2> QED BY <2>2 DEF HasPending, Targets
<1>2. /\ owed' = (owed \/ (wakeup /\ WakeIsPromised(afterAbort)))
      /\ IF wakeup THEN WakeDriver(afterAbort) ELSE UNCHANGED <<phaseVars, activity, pc>>
  BY Zenon DEF Send
<1>3. CASE ~wakeup
  BY <1>1, <1>2, <1>3 DEF WakeInv, phaseVars, TypeOK
<1>4. CASE wakeup /\ kind = "idle"
  <2>1. StartDriver
    BY <1>2, <1>4, Zenon DEF WakeDriver
  <2> QED BY <2>1 DEF StartDriver, WakeInv
<1>5. CASE wakeup /\ kind # "idle"
  <2>1. /\ UNCHANGED <<abort, pc>>
        /\ wakeRequested' = (wakeRequested
             \/ (abort # "disposed" /\ (kind = "maintenance" \/ afterAbort)))
    BY <1>2, <1>5, Zenon DEF WakeDriver
  <2>2. owed' = (owed \/ (abort # "disposed" /\ (kind = "maintenance" \/ afterAbort)))
    BY <1>2, <1>5 DEF WakeIsPromised, TypeOK
  <2> QED BY <1>1, <2>1, <2>2 DEF WakeInv, TypeOK
<1> QED BY <1>3, <1>4, <1>5

\* Every step keeps each promised wake in the driver's next turn or the latch.
LEMMA WakeStep == TypeOK /\ PhaseInv /\ LogInv /\ WakeInv /\ [Next]_vars => WakeInv'
<1> SUFFICES ASSUME TypeOK, PhaseInv, LogInv, WakeInv, [Next]_vars
             PROVE  WakeInv'
  OBVIOUS
<1>1. CASE UNCHANGED vars
  BY <1>1 DEF WakeInv, HasPending, vars, phaseVars, msgVars, histVars
<1>2. CASE StepsInTurn
  BY <1>2, StepsInTurnKeepWake
<1>3. CASE TurnStart
  BY <1>3 DEF TurnStart, WakeInv
<1>4. CASE StepStart
  BY <1>4 DEF StepStart, WakeInv, HasPending, msgVars, histVars
<1>5. CASE Drain
  <2>1. pc = "drain" /\ owed' = owed /\ inbox' = inbox
    BY <1>5 DEF Drain, histVars, msgVars
  <2>2. CASE HasPending
    <3>1. pc' = "start" /\ abort' = "none"
      BY <1>5, <2>2, Zenon DEF Drain
    <3> QED BY <3>1 DEF WakeInv
  <2>3. CASE ~HasPending
    BY <2>1, <2>3 DEF WakeInv
  <2> QED BY <2>2, <2>3
<1>6. CASE KickExit \/ EndMaintenance
  <2>1. pc # "start" /\ owed' = owed /\ ConvergeToIdle
    BY <1>6 DEF KickExit, EndMaintenance, histVars, PhaseInv
  <2>2. CASE owed
    <3>1. wakeRequested /\ HasPending
      BY <2>1, <2>2 DEF WakeInv
    <3>2. pc' = "start" /\ abort' = "none"
      BY <2>1, <3>1, Zenon DEF ConvergeToIdle, StartDriver
    <3> QED BY <3>2 DEF WakeInv
  <2>3. CASE ~owed
    BY <2>1, <2>3 DEF WakeInv
  <2> QED BY <2>2, <2>3
<1>7. CASE StartMaintenance
  <2>1. ~owed /\ owed' = owed
    BY <1>7 DEF StartMaintenance, WakeInv, PhaseInv, histVars
  <2> QED BY <2>1 DEF WakeInv
<1>8. CASE \E m \in Msg : Followup(m) \/ Steer(m) \/ Inject(m)
  BY <1>8, SendKeepsWake DEF Followup, Steer, Inject, Targets
<1>9. CASE \E t \in Targets,
               start \in 1..(Len(inbox["next-turn"]) + Len(inbox["next-step"]) + 1),
               removed \in 0..1, inserted \in {<<>>} \union {<<m>> : m \in Msg} :
               EditInbox(t, start, removed, inserted)
  <2>1. /\ owed' = (owed /\ (HasPending' \/ (kind = "running" /\ abort = "none")))
        /\ UNCHANGED <<phaseVars, pc>>
    BY <1>9, Zenon DEF EditInbox
  <2> QED BY <2>1 DEF WakeInv, PhaseInv, phaseVars
<1>10. ASSUME NEW cause \in Causes, NEW keepInbox \in BOOLEAN, CancelWith(cause, keepInbox)
       PROVE  WakeInv'
  <2>1. /\ owed' => owed /\ keepInbox /\ (kind = "maintenance" \/ abort # "none")
        /\ keepInbox => inbox' = inbox
        /\ wakeRequested' = (wakeRequested /\ (keepInbox \/ kind = "idle"))
    BY <1>10 DEF CancelWith, msgVars
  <2> QED BY <2>1 DEF WakeInv, PhaseInv, HasPending
<1>11. CASE Dispose \/ \E keepInbox \in BOOLEAN : Cancel(keepInbox)
  BY <1>10, <1>11 DEF Dispose, Cancel, Causes
<1>12. CASE WhenIdle \/ Detach \/ DisposeFails
  BY <1>12 DEF WhenIdle, Detach, DisposeFails, WakeInv, HasPending, phaseVars,
               msgVars, histVars
<1> QED
  BY <1>1, <1>2, <1>3, <1>4, <1>5, <1>6, <1>7, <1>8, <1>9, <1>11, <1>12
     DEF Next, Disposer, Driver, Callers, StepsInTurn

LEMMA DriverInit == Init => DriverInv
  BY DEF Init, DriverInv, PhaseInv, LogInv, WakeInv, StepPCs

\* At every await the driver's position, the phase, the activity promise, the
\* log and the wake latch agree (turn(), kick(), runMaintenance(), whenIdle()).
THEOREM DriverInvHolds == Spec => []DriverInv
<1>1. TypeOK /\ DriverInv /\ [Next]_vars => DriverInv'
  BY PhaseStep, LogStep, WakeStep DEF DriverInv
<1> QED BY <1>1, DriverInit, TypeCorrect, PTL DEF Spec

\* An agent is never idle while a wake it accepted still waits for its turn:
\* wakeRequested survives until kick() or runMaintenance() replays it.
THEOREM NoWakeIsLost == Spec => []WakeIsNotLost
<1>1. DriverInv => WakeIsNotLost
  BY DEF DriverInv, PhaseInv, WakeInv, WakeIsNotLost
<1> QED BY <1>1, DriverInvHolds, PTL

\* Whatever wakes and cancels arrive while whenIdle() waits, once it has returned
\* every activity begun before that is over: the agent is quiescent unless new
\* work was started while its scope unwinds (dispose(), index.ts).
THEOREM TeardownWaitsForWork == Spec => []TeardownWaits
<1>1. TypeOK /\ DriverInv => TeardownWaits
  <2> SUFFICES ASSUME TypeOK, PhaseInv, LogInv,
                      disposal \in {"unwinding", "detached"}, activity = awaited
               PROVE  kind = "idle" /\ openTurn = 0 /\ ~wakeRequested
    BY DEF DriverInv, TeardownWaits
  <2>1. activity <= resolved
    BY DEF PhaseInv
  <2>2. kind = "idle"
    BY <2>1 DEF PhaseInv, TypeOK
  <2>3. pc = "none" /\ ~wakeRequested
    BY <2>2 DEF PhaseInv, TypeOK
  <2> QED BY <2>2, <2>3 DEF LogInv
<1> QED BY <1>1, TypeCorrect, DriverInvHolds, PTL

\* No step after a cancel opens a turn or a step or dispatches a request, from
\* any await the cancelled activity was suspended at (throwIfAborted()).
THEOREM CancelStopsModelWork == Spec => AbortStopsModelWork
<1> DEFINE NoNewWork ==
      /\ openTurn' = openTurn \/ openTurn' = 0
      /\ openStep' = openStep \/ openStep' = 0
      /\ pc' = "stream" => pc = "stream"
<1>1. TypeOK /\ DriverInv /\ [Next]_vars /\ abort # "none" => NoNewWork
  <2> SUFFICES ASSUME TypeOK, DriverInv, [Next]_vars, abort # "none"
               PROVE  NoNewWork
    OBVIOUS
  <2> USE DEF traceVars
  <2>2. CASE UNCHANGED vars
    BY <2>2 DEF vars
  <2>3. CASE TurnStart \/ StepStart \/ Dispatch
    BY <2>3 DEF TurnStart, StepStart, Dispatch
  <2>4. CASE TurnRefused \/ Throw \/ ProposeStep
    BY <2>4 DEF TurnRefused, Throw, ProposeStep
  <2>5. CASE \E d \in Decisions, contextChanged \in BOOLEAN : Decide(d, contextChanged)
    BY <2>5 DEF Decide
  <2>6. CASE CloseWithoutStep \/ CloseTurn \/ Catch
    BY <2>6 DEF CloseWithoutStep, CloseTurn, Catch, AppendTurnEnd
  <2>7. CASE EnterMessages \/ Retry \/ AskStopping \/ NextStep
    BY <2>7 DEF EnterMessages, Retry, AskStopping, NextStep
  <2>8. CASE \E reply \in {"completed", "max-tokens", "tools", "failure"} : Finish(reply)
    BY <2>8 DEF Finish
  <2>9. CASE \E concluded \in BOOLEAN : ToolsDone(concluded)
    BY <2>9 DEF ToolsDone
  <2>10. CASE StepThrows \/ StepEnd
    BY <2>10 DEF StepThrows, StepEnd, AppendStepEnd
  <2>11. ASSUME UNCHANGED traceVars, pc' = pc \/ pc' \in {"none", "start", "exit"}
         PROVE  NoNewWork
    BY <2>11
  <2>12. CASE Drain \/ KickExit \/ EndMaintenance
    <3>1. UNCHANGED traceVars
      BY <2>12, Zenon DEF Drain, KickExit, EndMaintenance
    <3>2. pc' \in {"none", "start", "exit"}
      BY <2>12, Zenon DEF Drain, KickExit, EndMaintenance, ConvergeToIdle, StartDriver
    <3> QED BY <2>11, <3>1, <3>2
  <2>13. ASSUME NEW m \in Msg, NEW preferred \in Targets, NEW wakeup \in BOOLEAN,
                Send(m, preferred, wakeup)
         PROVE  NoNewWork
    <3>1. UNCHANGED traceVars
      BY <2>13, Zenon DEF Send
    <3>2. pc' = pc \/ pc' = "start"
      BY <2>13, Zenon DEF Send, WakeDriver, StartDriver
    <3> QED BY <2>11, <3>1, <3>2
  <2>14. CASE \E m \in Msg : Followup(m) \/ Steer(m) \/ Inject(m)
    BY <2>13, <2>14 DEF Followup, Steer, Inject, Targets
  <2>15. CASE \E t \in Targets,
                 start \in 1..(Len(inbox["next-turn"]) + Len(inbox["next-step"]) + 1),
                 removed \in 0..1, inserted \in {<<>>} \union {<<m>> : m \in Msg} :
                 EditInbox(t, start, removed, inserted)
    BY <2>11, <2>15 DEF EditInbox
  <2>16. CASE StartMaintenance \/ Disposer
    BY <2>11, <2>16
       DEF StartMaintenance, Disposer, Dispose, DisposeFails, WhenIdle, Detach, CancelWith
  <2>17. CASE \E keepInbox \in BOOLEAN : Cancel(keepInbox)
    BY <2>11, <2>17 DEF Cancel, CancelWith
  <2> QED
    BY <2>2, <2>3, <2>4, <2>5, <2>6, <2>7, <2>8, <2>9, <2>10, <2>12,
       <2>14, <2>15, <2>16, <2>17
       DEF Next, Driver, Callers
<1> QED BY <1>1, TypeCorrect, DriverInvHolds, PTL DEF Spec, AbortStopsModelWork

-----------------------------------------------------------------------------
(* The log *)

\* Each append of the driver is one the log's fold accepts, and the driver's
\* other steps append nothing.
LEMMA AppendsAreLegal ==
  ASSUME TypeOK, DriverInv, [Next]_vars
  PROVE  [Trace!Next]_(Trace!traceVars)
<1> USE DEF traceVars, Trace!traceVars, LogInv, StepPCs, DriverInv
<1>1. CASE TurnStart
  <2>1. Trace!TurnStart
    BY <1>1 DEF TurnStart, Trace!TurnStart
  <2> QED BY <2>1 DEF Trace!Next
<1>2. CASE CloseWithoutStep \/ CloseTurn \/ Catch
  <2>1. Trace!TurnEnd
    BY <1>2 DEF CloseWithoutStep, CloseTurn, Catch, AppendTurnEnd, Trace!TurnEnd, TypeOK
  <2> QED BY <2>1 DEF Trace!Next
<1>3. CASE StepStart
  <2>1. Trace!StepStart
    BY <1>3 DEF StepStart, Trace!StepStart, TypeOK
  <2> QED BY <2>1 DEF Trace!Next
<1>4. CASE StepThrows \/ StepEnd
  <2>1. Trace!StepEnd
    BY <1>4 DEF StepThrows, StepEnd, AppendStepEnd, Trace!StepEnd, TypeOK
  <2> QED BY <2>1 DEF Trace!Next
<1>5. ASSUME UNCHANGED traceVars
      PROVE  [Trace!Next]_(Trace!traceVars)
  BY <1>5
<1>6. CASE UNCHANGED vars
  BY <1>6 DEF vars
<1>7. CASE TurnRefused \/ Throw \/ ProposeStep \/ EnterMessages
  BY <1>5, <1>7 DEF TurnRefused, Throw, ProposeStep, EnterMessages
<1>8. CASE \E d \in Decisions, contextChanged \in BOOLEAN : Decide(d, contextChanged)
  BY <1>5, <1>8 DEF Decide
<1>9. CASE Dispatch \/ Retry \/ AskStopping \/ NextStep
  BY <1>5, <1>9 DEF Dispatch, Retry, AskStopping, NextStep
<1>10. CASE \E reply \in {"completed", "max-tokens", "tools", "failure"} : Finish(reply)
  BY <1>5, <1>10 DEF Finish
<1>11. CASE \E concluded \in BOOLEAN : ToolsDone(concluded)
  BY <1>5, <1>11 DEF ToolsDone
<1>12. CASE Drain \/ KickExit \/ EndMaintenance
  <2>1. UNCHANGED traceVars
    BY <1>12, Zenon DEF Drain, KickExit, EndMaintenance
  <2> QED BY <1>5, <2>1
<1>13. ASSUME NEW m \in Msg, NEW preferred \in Targets, NEW wakeup \in BOOLEAN,
              Send(m, preferred, wakeup)
       PROVE  UNCHANGED traceVars
  BY <1>13, Zenon DEF Send
<1>14. CASE \E m \in Msg : Followup(m) \/ Steer(m) \/ Inject(m)
  BY <1>5, <1>13, <1>14 DEF Followup, Steer, Inject, Targets
<1>15. CASE \E t \in Targets,
               start \in 1..(Len(inbox["next-turn"]) + Len(inbox["next-step"]) + 1),
               removed \in 0..1, inserted \in {<<>>} \union {<<m>> : m \in Msg} :
               EditInbox(t, start, removed, inserted)
  BY <1>5, <1>15 DEF EditInbox
<1>16. CASE StartMaintenance \/ DisposeFails \/ WhenIdle \/ Detach
  BY <1>5, <1>16 DEF StartMaintenance, DisposeFails, WhenIdle, Detach
<1>17. CASE Dispose \/ \E keepInbox \in BOOLEAN : Cancel(keepInbox)
  BY <1>5, <1>17 DEF Dispose, Cancel, CancelWith
<1> QED
  BY <1>1, <1>2, <1>3, <1>4, <1>6, <1>7, <1>8, <1>9, <1>10, <1>11, <1>12, <1>14,
     <1>15, <1>16, <1>17 DEF Next, Disposer, Driver, Callers

\* The driver implements the session log's contract: turns and steps nest and
\* are numbered without gaps on every path through errors, rejections and
\* cancellation (turn()'s catch and finally against invariant.ts).
THEOREM DriverImplementsTrace == Spec => ImplementsSessionTrace
<1>1. Init => Trace!Init
  BY DEF Init, Trace!Init
<1>2. TypeOK /\ DriverInv /\ [Next]_vars => [Trace!Next]_(Trace!traceVars)
  BY AppendsAreLegal
<1> QED
  BY <1>1, <1>2, TypeCorrect, DriverInvHolds, PTL
     DEF Spec, ImplementsSessionTrace, Trace!Spec


-----------------------------------------------------------------------------
(* The inbox: where a message is, and which messages a turn takes along.  The
   invariant splits OneHome into its lists, says at which points of the driver
   a batch is held, and extends LiveTurnDrains to the stretch between the end
   of the turn and the end of the driver. *)

\* A message is in at most one place of one list.
ListsOK ==
  /\ IsInjective(inbox["next-turn"]) /\ IsInjective(inbox["next-step"])
  /\ Range(inbox["next-turn"]) \intersect Range(inbox["next-step"]) = {}
  /\ IsInjective(batch)

\* The fate of a message says where it is.
FatesOK ==
  \A m \in Msg : /\ fate[m] = "pending" <=> m \in Pending
                 /\ fate[m] = "claimed" <=> m \in Range(batch)

\* Only a proposed step holds a batch, and only one that enters keeps it.
BatchOK ==
  /\ batch # <<>> => pc \in {"pre-step", "decided", "entered"}
  /\ pc = "decided" /\ decision # "messages" => batch = <<>>

HomeInv == ListsOK /\ FatesOK /\ BatchOK

\* Messages that joined a live turn were sent.
JoinedOK == \A m \in joined : fate[m] # "unsent"

\* After a turn that ran a step and ended normally, until the next one starts.
DrainedOK ==
  (pc \in {"none", "exit"} /\ turnEnds \in {"completed", "max-tokens"} /\ step > 0)
    => joined \intersect Pending = {}

InboxInv == HomeInv /\ JoinedOK /\ DrainedOK

-----------------------------------------------------------------------------
(* Ranges and injectivity of sequences *)

LEMMA InRange ==
  ASSUME NEW S, NEW s \in Seq(S)
  PROVE  /\ \A x : x \in Range(s) <=> \E i \in 1..Len(s) : s[i] = x
         /\ Range(s) \subseteq S
         /\ IsInjective(s) <=> \A i, j \in 1..Len(s) : s[i] = s[j] => i = j
  BY DEF Range, IsInjective

LEMMA EmptyRange == Range(<<>>) = {} /\ IsInjective(<<>>)
  BY DEF Range, IsInjective

LEMMA OneRange ==
  ASSUME NEW S, NEW x \in S
  PROVE  <<x>> \in Seq(S) /\ Range(<<x>>) = {x} /\ IsInjective(<<x>>)
  BY DEF Range, IsInjective

LEMMA ConcatRange ==
  ASSUME NEW S, NEW a \in Seq(S), NEW b \in Seq(S)
  PROVE  Range(a \o b) = Range(a) \union Range(b)
<1> DEFINE c == a \o b
<1>1. /\ c \in Seq(S) /\ Len(c) = Len(a) + Len(b) /\ Len(a) \in Nat /\ Len(b) \in Nat
      /\ \A i \in 1..(Len(a) + Len(b)) : c[i] = IF i <= Len(a) THEN a[i] ELSE b[i - Len(a)]
  BY ConcatProperties, LenProperties
<1> HIDE DEF c
<1>2. ASSUME NEW x \in Range(c)
      PROVE  x \in Range(a) \union Range(b)
  <2>1. PICK i \in 1..(Len(a) + Len(b)) : c[i] = x
    BY <1>1, <1>2, InRange
  <2>2. CASE i <= Len(a)
    <3>1. i \in 1..Len(a) /\ a[i] = x
      BY <1>1, <2>1, <2>2
    <3> QED BY <3>1, InRange
  <2>3. CASE i > Len(a)
    <3>1. i - Len(a) \in 1..Len(b) /\ b[i - Len(a)] = x
      BY <1>1, <2>1, <2>3
    <3> QED BY <3>1, InRange
  <2> QED BY <1>1, <2>2, <2>3
<1>3. ASSUME NEW x \in Range(a)
      PROVE  x \in Range(c)
  <2>1. PICK i \in 1..Len(a) : a[i] = x
    BY InRange
  <2>2. i \in 1..Len(c) /\ c[i] = x
    BY <1>1, <2>1
  <2> QED BY <1>1, <2>2, InRange
<1>4. ASSUME NEW x \in Range(b)
      PROVE  x \in Range(c)
  <2>1. PICK i \in 1..Len(b) : b[i] = x
    BY InRange
  <2>2. Len(a) + i \in 1..(Len(a) + Len(b)) /\ ~(Len(a) + i <= Len(a)) /\ (Len(a) + i) - Len(a) = i
    BY <1>1
  <2>3. c[Len(a) + i] = x
    BY <1>1, <2>1, <2>2
  <2> QED BY <1>1, <2>2, <2>3, InRange
<1> QED BY <1>2, <1>3, <1>4 DEF c

LEMMA ConcatInjective ==
  ASSUME NEW S, NEW a \in Seq(S), NEW b \in Seq(S), IsInjective(a), IsInjective(b),
         Range(a) \intersect Range(b) = {}
  PROVE  IsInjective(a \o b)
<1> DEFINE c == a \o b
<1>1. /\ c \in Seq(S) /\ Len(c) = Len(a) + Len(b) /\ Len(a) \in Nat /\ Len(b) \in Nat
      /\ \A i \in 1..(Len(a) + Len(b)) : c[i] = IF i <= Len(a) THEN a[i] ELSE b[i - Len(a)]
  BY ConcatProperties, LenProperties
<1> HIDE DEF c
<1>2. ASSUME NEW i \in 1..Len(c), NEW j \in 1..Len(c), c[i] = c[j]
      PROVE  i = j
  <2>1. ASSUME NEW k \in 1..Len(c), k <= Len(a)
        PROVE  k \in 1..Len(a) /\ c[k] = a[k] /\ a[k] \in Range(a)
    <3>1. k \in 1..Len(a) /\ c[k] = a[k]
      BY <1>1, <2>1
    <3> QED BY <3>1, InRange
  <2>2. ASSUME NEW k \in 1..Len(c), ~(k <= Len(a))
        PROVE  k - Len(a) \in 1..Len(b) /\ c[k] = b[k - Len(a)] /\ b[k - Len(a)] \in Range(b)
    <3>1. k - Len(a) \in 1..Len(b) /\ c[k] = b[k - Len(a)]
      BY <1>1, <2>2
    <3> QED BY <3>1, InRange
  <2>3. CASE i <= Len(a) /\ j <= Len(a)
    BY <1>2, <2>1, <2>3, InRange
  <2>4. CASE ~(i <= Len(a)) /\ ~(j <= Len(a))
    <3>1. \A k, l \in 1..Len(b) : b[k] = b[l] => k = l
      BY InRange
    <3>2. i - Len(a) = j - Len(a)
      BY <1>2, <2>2, <2>4, <3>1
    <3> QED BY <1>1, <3>2
  <2>5. CASE i <= Len(a) /\ ~(j <= Len(a))
    BY <1>2, <2>1, <2>2, <2>5
  <2>6. CASE ~(i <= Len(a)) /\ j <= Len(a)
    BY <1>2, <2>1, <2>2, <2>6
  <2> QED BY <2>3, <2>4, <2>5, <2>6
<1> QED BY <1>1, <1>2, InRange DEF c

\* Appending a message that is not in the list.
LEMMA AppendHome ==
  ASSUME NEW S, NEW s \in Seq(S), NEW x \in S, IsInjective(s), x \notin Range(s)
  PROVE  /\ Append(s, x) \in Seq(S) /\ IsInjective(Append(s, x))
         /\ Range(Append(s, x)) = Range(s) \union {x}
<1>1. Append(s, x) = s \o <<x>>
  BY AppendIsConcat
<1>2. <<x>> \in Seq(S) /\ Range(<<x>>) = {x} /\ IsInjective(<<x>>)
  BY OneRange
<1>3. IsInjective(s \o <<x>>) /\ Range(s \o <<x>>) = Range(s) \union {x}
  <2> DEFINE b == <<x>>
  <2>1. b \in Seq(S) /\ Range(b) = {x} /\ IsInjective(b) /\ Range(s) \intersect Range(b) = {}
    BY <1>2
  <2> HIDE DEF b
  <2>2. IsInjective(s \o b) /\ Range(s \o b) = Range(s) \union {x}
    BY <2>1, ConcatRange, ConcatInjective
  <2> QED BY <2>2 DEF b
<1>4. Append(s, x) \in Seq(S)
  BY AppendProperties
<1> QED BY <1>1, <1>3, <1>4

\* Part of a list.
LEMMA PartHome ==
  ASSUME NEW S, NEW s \in Seq(S), NEW m \in Nat \ {0}, NEW n \in Nat, n <= Len(s)
  PROVE  /\ SubSeq(s, m, n) \in Seq(S)
         /\ IsInjective(s) => IsInjective(SubSeq(s, m, n))
         /\ \A x : x \in Range(SubSeq(s, m, n)) <=> \E i \in m..n : s[i] = x
<1> DEFINE p == SubSeq(s, m, n)
<1>1. Len(s) \in Nat /\ \A i \in m..n : i \in 1..Len(s) /\ s[i] \in S
  BY LenProperties, ElementOfSeq
<1>2. /\ p \in Seq(S) /\ Len(p) = (IF m <= n THEN n - m + 1 ELSE 0)
      /\ \A i \in 1..(n - m + 1) : p[i] = s[m + i - 1]
  BY <1>1, SubSeqProperties
<1> HIDE DEF p
<1>3. 1..Len(p) = 1..(n - m + 1)
  BY <1>2
<1>4. \A i \in 1..Len(p) : m + i - 1 \in m..n /\ p[i] = s[m + i - 1]
  BY <1>2, <1>3
<1>5. ASSUME IsInjective(s)
      PROVE  IsInjective(p)
  <2>1. ASSUME NEW i \in 1..Len(p), NEW j \in 1..Len(p), p[i] = p[j]
        PROVE  i = j
    <3>1. m + i - 1 = m + j - 1
      BY <1>1, <1>4, <1>5, <2>1, InRange
    <3>2. Len(p) \in Nat
      BY <1>2, LenProperties
    <3> QED BY <3>1, <3>2
  <2> QED BY <1>2, <2>1, InRange
<1>6. ASSUME NEW x
      PROVE  x \in Range(p) <=> \E i \in m..n : s[i] = x
  <2>1. ASSUME x \in Range(p)
        PROVE  \E i \in m..n : s[i] = x
    BY <1>2, <1>4, <2>1, InRange
  <2>2. ASSUME NEW i \in m..n, s[i] = x
        PROVE  x \in Range(p)
    <3>1. (i - m) + 1 \in 1..(n - m + 1) /\ m + ((i - m) + 1) - 1 = i
      OBVIOUS
    <3>2. p[(i - m) + 1] = x
      BY <1>2, <2>2, <3>1
    <3> QED BY <1>2, <1>3, <3>1, <3>2, InRange
  <2> QED BY <2>1, <2>2
<1> QED BY <1>2, <1>5, <1>6 DEF p

\* Taking the first message of a list.
LEMMA TailHome ==
  ASSUME NEW S, NEW s \in Seq(S), IsInjective(s), s # <<>>
  PROVE  /\ Head(s) \in S /\ Head(s) \in Range(s) /\ Tail(s) \in Seq(S)
         /\ IsInjective(Tail(s)) /\ Range(Tail(s)) = Range(s) \ {Head(s)}
<1>1. Tail(s) = SubSeq(s, 2, Len(s)) /\ Len(s) \in Nat /\ Len(s) > 0
  BY TailIsSubSeq, LenProperties, EmptySeq
<1>2. Head(s) = s[1] /\ Head(s) \in S /\ Tail(s) \in Seq(S)
  BY HeadTailProperties
<1>3. s[1] \in Range(s)
  BY <1>1, InRange
<1> DEFINE rest == SubSeq(s, 2, Len(s))
<1>7. /\ IsInjective(rest)
      /\ \A x : x \in Range(rest) <=> \E i \in 2..Len(s) : s[i] = x
  <2>1. 2 \in Nat \ {0} /\ Len(s) \in Nat /\ Len(s) <= Len(s)
    BY LenProperties
  <2> QED BY <2>1, PartHome
<1> HIDE DEF rest
<1>4. \A x : x \in Range(Tail(s)) <=> \E i \in 2..Len(s) : s[i] = x
  BY <1>1, <1>7 DEF rest
<1>5. IsInjective(Tail(s))
  BY <1>1, <1>7 DEF rest
<1>6. \A x : x \in Range(Tail(s)) <=> x \in Range(s) \ {Head(s)}
  BY <1>1, <1>2, <1>4, InRange
<1> QED BY <1>2, <1>3, <1>5, <1>6

\* Inbox.splice(): a part is cut out and another list inserted in its place.
LEMMA EditHome ==
  ASSUME NEW S, NEW list \in Seq(S), NEW inserted \in Seq(S),
         NEW start \in Nat \ {0}, NEW removed \in Nat, start + removed <= Len(list) + 1,
         IsInjective(list), IsInjective(inserted), Range(list) \intersect Range(inserted) = {}
  PROVE  LET new == SubSeq(list, 1, start - 1) \o inserted
                      \o SubSeq(list, start + removed, Len(list))
             cut == SubSeq(list, start, start + removed - 1)
         IN  /\ IsInjective(new)
             /\ Range(new) = (Range(list) \ Range(cut)) \union Range(inserted)
             /\ Range(cut) \subseteq Range(list)
<1> DEFINE a == SubSeq(list, 1, start - 1)
           z == SubSeq(list, start + removed, Len(list))
           cut == SubSeq(list, start, start + removed - 1)
<1>1. /\ Len(list) \in Nat /\ start - 1 \in Nat /\ start - 1 <= Len(list)
      /\ start + removed \in Nat \ {0} /\ start + removed - 1 \in Nat
      /\ start + removed - 1 <= Len(list)
  BY LenProperties
<1>2. /\ a \in Seq(S) /\ IsInjective(a)
      /\ \A x : x \in Range(a) <=> \E i \in 1..(start - 1) : list[i] = x
  BY <1>1, PartHome
<1>3. /\ z \in Seq(S) /\ IsInjective(z)
      /\ \A x : x \in Range(z) <=> \E i \in (start + removed)..Len(list) : list[i] = x
  BY <1>1, PartHome
<1>4. \A x : x \in Range(cut) <=> \E i \in start..(start + removed - 1) : list[i] = x
  BY <1>1, PartHome
<1> HIDE DEF a, z, cut
<1>5. /\ \A x : x \in Range(list) <=> \E i \in 1..Len(list) : list[i] = x
      /\ \A i, j \in 1..Len(list) : list[i] = list[j] => i = j
  BY InRange
<1>6. Range(a) \intersect Range(z) = {}
  BY <1>1, <1>2, <1>3, <1>5
<1>7. Range(cut) \subseteq Range(list)
  BY <1>1, <1>4, <1>5
<1>8. Range(a) \union Range(z) = Range(list) \ Range(cut)
  <2>1. ASSUME NEW x \in Range(a) \union Range(z)
        PROVE  x \in Range(list) \ Range(cut)
    <3>1. PICK i \in 1..(start - 1) \union (start + removed)..Len(list) : list[i] = x
      BY <1>2, <1>3, <2>1
    <3>2. i \in 1..Len(list) /\ i \notin start..(start + removed - 1)
      BY <1>1
    <3>3. \A k \in start..(start + removed - 1) : k \in 1..Len(list)
      BY <1>1
    <3> QED BY <1>4, <1>5, <3>1, <3>2, <3>3
  <2>2. ASSUME NEW x \in Range(list), x \notin Range(cut)
        PROVE  x \in Range(a) \union Range(z)
    <3>1. PICK i \in 1..Len(list) : list[i] = x
      BY <1>5
    <3>2. i \notin start..(start + removed - 1)
      BY <1>4, <2>2, <3>1
    <3>3. i \in 1..(start - 1) \/ i \in (start + removed)..Len(list)
      BY <1>1, <3>2
    <3> QED BY <1>2, <1>3, <3>1, <3>3
  <2> QED BY <2>1, <2>2
<1>9. a \o inserted \in Seq(S) /\ Range(a \o inserted) = Range(a) \union Range(inserted)
  BY <1>2, ConcatRange, ConcatProperties
<1>10. IsInjective(a \o inserted)
  BY <1>2, <1>8, ConcatInjective
<1>11. Range(a \o inserted) \intersect Range(z) = {}
  BY <1>6, <1>8, <1>9
<1>12. IsInjective(a \o inserted \o z)
  BY <1>3, <1>9, <1>10, <1>11, ConcatInjective
<1>13. Range(a \o inserted \o z) = (Range(list) \ Range(cut)) \union Range(inserted)
  <2> DEFINE front == a \o inserted
  <2>1. front \in Seq(S) /\ Range(front) = Range(a) \union Range(inserted)
    BY <1>9
  <2> HIDE DEF front
  <2>2. Range(front \o z) = Range(front) \union Range(z)
    BY <1>3, <2>1, ConcatRange
  <2>3. Range(front \o z) = (Range(list) \ Range(cut)) \union Range(inserted)
    BY <1>8, <2>1, <2>2
  <2> QED BY <2>3 DEF front
<1> QED BY <1>7, <1>12, <1>13 DEF a, z, cut

-----------------------------------------------------------------------------
(* What the inbox's operations do to the messages *)

\* Lists and fates stay in line, a message that was sent stays sent, and only a
\* message that was not becomes pending.
Moved ==
  /\ ListsOK' /\ FatesOK'
  /\ \A m \in Msg : fate[m] # "unsent" => fate'[m] # "unsent"
  /\ \A m \in Pending' : m \in Pending \/ fate[m] = "unsent"

LEMMA ListTypes ==
  ASSUME TypeOK
  PROVE  /\ inbox["next-turn"] \in Seq(Msg) /\ inbox["next-step"] \in Seq(Msg)
         /\ Pending \subseteq Msg /\ Range(batch) \subseteq Msg
<1>1. inbox["next-turn"] \in Seq(Msg) /\ inbox["next-step"] \in Seq(Msg) /\ batch \in Seq(Msg)
  BY DEF TypeOK, Targets
<1> QED BY <1>1, InRange DEF Pending

LEMMA KeepMoves ==
  ASSUME TypeOK, HomeInv, UNCHANGED <<inbox, batch, fate>>
  PROVE  Moved
  BY DEF Moved, HomeInv, ListsOK, FatesOK, Pending

\* The batch is let go of: its messages entered the log, or were dropped.
LEMMA ReleaseMoves ==
  ASSUME TypeOK, HomeInv, NEW f \in {"entered", "dropped"}, Become(Range(batch), f),
         batch' = <<>>, inbox' = inbox
  PROVE  Moved
<1>1. Range(batch') = {} /\ IsInjective(batch')
  BY EmptyRange
<1>2. Pending' = Pending
  BY DEF Pending
<1>3. \A m \in Msg : fate'[m] = IF m \in Range(batch) THEN f ELSE fate[m]
  BY DEF Become
<1>4. ListsOK'
  BY <1>1 DEF HomeInv, ListsOK
<1>5. FatesOK'
  BY <1>1, <1>2, <1>3 DEF HomeInv, FatesOK
<1>6. \A m \in Msg : fate[m] # "unsent" => fate'[m] # "unsent"
  BY <1>3
<1> QED BY <1>2, <1>4, <1>5, <1>6 DEF Moved

\* Inbox.claim(), with no batch held.
LEMMA ClaimMoves ==
  ASSUME TypeOK, HomeInv, batch = <<>>, Claim
  PROVE  Moved
<1> DEFINE nt == inbox["next-turn"]
           ns == inbox["next-step"]
           prompt == ClaimedPrompt
<1>1. /\ nt \in Seq(Msg) /\ ns \in Seq(Msg) /\ IsInjective(nt) /\ IsInjective(ns)
      /\ Range(nt) \intersect Range(ns) = {}
  BY ListTypes DEF HomeInv, ListsOK
<1>2. /\ batch' = ns \o prompt /\ Become(Range(ns \o prompt), "claimed")
      /\ inbox'["next-step"] = <<>>
      /\ inbox'["next-turn"] = IF prompt = <<>> THEN nt ELSE Tail(nt)
  BY DEF Claim, Targets
<1>3. /\ prompt \in Seq(Msg) /\ IsInjective(prompt) /\ Range(prompt) \subseteq Range(nt)
      /\ IsInjective(inbox'["next-turn"])
      /\ Range(inbox'["next-turn"]) = Range(nt) \ Range(prompt)
  <2>1. CASE target = "next-turn" /\ nt # <<>>
    <3>1. prompt = <<Head(nt)>>
      BY <2>1 DEF ClaimedPrompt
    <3>2. /\ Head(nt) \in Msg /\ Head(nt) \in Range(nt) /\ IsInjective(Tail(nt))
          /\ Range(Tail(nt)) = Range(nt) \ {Head(nt)}
      BY <1>1, <2>1, TailHome
    <3>3. prompt \in Seq(Msg) /\ IsInjective(prompt) /\ Range(prompt) = {Head(nt)} /\ prompt # <<>>
      <4>1. /\ <<Head(nt)>> \in Seq(Msg) /\ IsInjective(<<Head(nt)>>)
            /\ Range(<<Head(nt)>>) = {Head(nt)}
        BY <3>2, OneRange
      <4> QED BY <3>1, <4>1
    <3>4. inbox'["next-turn"] = Tail(nt)
      BY <1>2, <3>3
    <3> QED BY <3>2, <3>3, <3>4
  <2>2. CASE ~(target = "next-turn" /\ nt # <<>>)
    <3>1. prompt = <<>> /\ inbox'["next-turn"] = nt
      BY <1>2, <2>2 DEF ClaimedPrompt
    <3>2. prompt \in Seq(Msg) /\ Range(prompt) = {} /\ IsInjective(prompt)
      BY <3>1, EmptyRange
    <3> QED BY <1>1, <3>1, <3>2
  <2> QED BY <2>1, <2>2
<1> HIDE DEF nt, ns, prompt
<1>4. /\ IsInjective(batch') /\ Range(batch') = Range(ns) \union Range(prompt)
  BY <1>1, <1>2, <1>3, ConcatRange, ConcatInjective
<1>5. Range(inbox'["next-step"]) = {} /\ IsInjective(inbox'["next-step"])
  BY <1>2, EmptyRange
<1>6. Pending = Range(nt) \union Range(ns) /\ Pending' = Range(nt) \ Range(prompt)
  BY <1>3, <1>5 DEF Pending, nt, ns
<1>7. \A m \in Msg : fate'[m] = IF m \in Range(batch') THEN "claimed" ELSE fate[m]
  BY <1>2 DEF Become
<1>8. Range(batch) = {}
  BY EmptyRange
<1>9. \A m \in Msg : /\ fate[m] = "pending" <=> m \in Pending
                     /\ fate[m] # "claimed"
  BY <1>8 DEF HomeInv, FatesOK
<1>10. FatesOK'
  BY <1>1, <1>3, <1>4, <1>6, <1>7, <1>9 DEF FatesOK
<1>11. ListsOK'
  BY <1>3, <1>4, <1>5 DEF ListsOK
<1> QED BY <1>6, <1>7, <1>10, <1>11 DEF Moved

\* Inbox.clear().
LEMMA ClearMoves ==
  ASSUME TypeOK, HomeInv, Clear, batch' = batch
  PROVE  Moved /\ Pending' = {}
<1>1. inbox'["next-turn"] = <<>> /\ inbox'["next-step"] = <<>>
  BY DEF Clear, Targets
<1>2. /\ Range(inbox'["next-turn"]) = {} /\ IsInjective(inbox'["next-turn"])
      /\ Range(inbox'["next-step"]) = {} /\ IsInjective(inbox'["next-step"])
  BY <1>1, EmptyRange
<1>3. Pending' = {}
  BY <1>2 DEF Pending
<1>4. \A m \in Msg : fate'[m] = IF m \in Pending THEN "discarded" ELSE fate[m]
  BY DEF Clear, Become
<1>5. ListsOK'
  BY <1>2 DEF HomeInv, ListsOK
<1>6. FatesOK'
  BY <1>3, <1>4 DEF HomeInv, FatesOK
<1> QED BY <1>3, <1>4, <1>5, <1>6 DEF Moved

\* A message that was not sent yet is put into a list.
LEMMA SendMoves ==
  ASSUME TypeOK, HomeInv, NEW m \in Msg, NEW t \in Targets, fate[m] = "unsent",
         inbox' = [inbox EXCEPT ![t] = Append(@, m)], Become({m}, "pending"), batch' = batch
  PROVE  Moved
<1>1. m \notin Pending /\ m \notin Range(batch)
  BY DEF HomeInv, FatesOK
<1>2. inbox[t] \in Seq(Msg) /\ IsInjective(inbox[t]) /\ m \notin Range(inbox[t])
  BY <1>1 DEF TypeOK, HomeInv, ListsOK, Targets, Pending
<1>3. IsInjective(Append(inbox[t], m)) /\ Range(Append(inbox[t], m)) = Range(inbox[t]) \union {m}
  BY <1>2, AppendHome
<1>4. inbox'[t] = Append(inbox[t], m) /\ \A u \in Targets : u # t => inbox'[u] = inbox[u]
  BY DEF TypeOK
<1>5. /\ IsInjective(inbox'[t]) /\ Range(inbox'[t]) = Range(inbox[t]) \union {m}
  BY <1>3, <1>4
<1>6. Pending' = Pending \union {m}
  BY <1>4, <1>5 DEF Pending, Targets
<1>7. \A x \in Msg : fate'[x] = IF x = m THEN "pending" ELSE fate[x]
  BY DEF Become
<1>8. ListsOK'
  BY <1>1, <1>4, <1>5 DEF HomeInv, ListsOK, Targets, Pending
<1>9. FatesOK'
  BY <1>1, <1>6, <1>7 DEF HomeInv, FatesOK
<1> QED BY <1>6, <1>7, <1>8, <1>9 DEF Moved

\* Inbox.splice().
LEMMA EditMoves ==
  ASSUME TypeOK, HomeInv, NEW t \in Targets, NEW start \in Nat \ {0}, NEW removed \in 0..1,
         NEW inserted \in Seq(Msg), IsInjective(inserted),
         EditInbox(t, start, removed, inserted)
  PROVE  Moved
<1> DEFINE list == inbox[t]
           cut == SubSeq(list, start, start + removed - 1)
           new == SubSeq(list, 1, start - 1) \o inserted \o SubSeq(list, start + removed, Len(list))
<1>1. /\ start + removed <= Len(list) + 1
      /\ \A m \in Range(inserted) : fate[m] = "unsent"
      /\ inbox' = [inbox EXCEPT ![t] = new]
      /\ \A m \in Msg : fate'[m] = IF m \in Range(cut) THEN "discarded"
                                   ELSE IF m \in Range(inserted) THEN "pending" ELSE fate[m]
      /\ batch' = batch
  BY DEF EditInbox, turnVars
<1>2. list \in Seq(Msg) /\ IsInjective(list)
  BY DEF TypeOK, HomeInv, ListsOK, Targets
<1>3. Range(inserted) \subseteq Msg
  BY InRange
<1>4. \A m \in Range(inserted) : m \notin Pending /\ m \notin Range(batch)
  BY <1>1, <1>3 DEF HomeInv, FatesOK
<1>5. Range(list) \subseteq Pending
  BY DEF Pending, Targets
<1>6. /\ IsInjective(new) /\ Range(new) = (Range(list) \ Range(cut)) \union Range(inserted)
      /\ Range(cut) \subseteq Range(list)
  <2>1. removed \in Nat /\ Range(list) \intersect Range(inserted) = {}
    BY <1>4, <1>5
  <2> HIDE DEF list
  <2> QED BY <1>1, <1>2, <2>1, EditHome
<1> HIDE DEF cut, new
<1>7. inbox'[t] = new /\ \A u \in Targets : u # t => inbox'[u] = inbox[u]
  BY <1>1 DEF TypeOK
<1>8. \A u \in Targets : u # t => Range(inbox[u]) \intersect Range(list) = {}
  BY DEF HomeInv, ListsOK, Targets
<1>9. Pending' = (Pending \ Range(cut)) \union Range(inserted)
  BY <1>6, <1>7, <1>8 DEF Pending, Targets
<1>10. ListsOK'
  BY <1>1, <1>4, <1>6, <1>7, <1>8 DEF HomeInv, ListsOK, Targets, Pending
<1>11. FatesOK'
  BY <1>1, <1>4, <1>5, <1>6, <1>9 DEF HomeInv, FatesOK
<1>12. \A m \in Msg : fate[m] # "unsent" => fate'[m] # "unsent"
  BY <1>1
<1> QED BY <1>1, <1>9, <1>10, <1>11, <1>12 DEF Moved

-----------------------------------------------------------------------------
(* The inductive invariant *)

\* What each conjunct asks of a step.
Kept == Moved /\ BatchOK' /\ JoinedOK' /\ DrainedOK'

\* A step that leaves the messages and the history of joins alone.
LEMMA QuietStep ==
  ASSUME TypeOK, InboxInv, UNCHANGED <<inbox, batch, fate, joined>>, BatchOK', DrainedOK'
  PROVE  Kept
<1>1. Moved
  BY KeepMoves DEF InboxInv
<1>2. JoinedOK'
  BY DEF InboxInv, JoinedOK
<1> QED BY <1>1, <1>2 DEF Kept

\* The driver's steps inside a turn.
LEMMA StepsInTurnKeepInbox ==
  ASSUME TypeOK, DriverInv, InboxInv, StepsInTurn
  PROVE  Kept
<1> USE DEF phaseVars, histVars, agentVars, msgVars, turnVars, lifeVars, InboxInv, HomeInv
<1>1. CASE TurnRefused
  <2>1. UNCHANGED <<inbox, batch, fate, joined>>
    BY <1>1 DEF TurnRefused
  <2>2. BatchOK' /\ DrainedOK'
    BY <1>1 DEF TurnRefused, BatchOK, DrainedOK, DriverInv, LogInv, TypeOK
  <2> QED BY <2>1, <2>2, QuietStep
<1>2. CASE CloseWithoutStep \/ Catch
  <2>1. UNCHANGED <<inbox, batch, fate, joined>>
    BY <1>2 DEF CloseWithoutStep, Catch
  <2>2. BatchOK'
    BY <1>2 DEF CloseWithoutStep, Catch, BatchOK
  <2>3. DrainedOK'
    BY <1>2 DEF CloseWithoutStep, Catch, DrainedOK, AppendTurnEnd, TypeOK
  <2> QED BY <2>1, <2>2, <2>3, QuietStep
<1>3. CASE CloseTurn \/ Dispatch \/ Retry \/ StepThrows \/ StepEnd \/ AskStopping \/ NextStep
  <2>1. /\ UNCHANGED <<inbox, batch, fate, joined>>
        /\ pc' \in {"drain", "stream", "request", "failing", "after-step", "stopping", "boundary"}
        /\ \/ pc = "decided" /\ decision = "nothing"
           \/ pc \in PCs \ {"pre-step", "decided", "entered"}
    BY <1>3 DEF CloseTurn, Dispatch, Retry, StepThrows, StepEnd, AskStopping, NextStep, PCs
  <2>2. BatchOK' /\ DrainedOK'
    BY <2>1 DEF BatchOK, DrainedOK
  <2> QED BY <2>1, <2>2, QuietStep
<1>4. CASE \E reply \in {"completed", "max-tokens", "tools", "failure"} : Finish(reply)
  <2>1. /\ UNCHANGED <<inbox, batch, fate, joined>>
        /\ pc = "stream" /\ pc' \in {"request-error", "tools", "step-done"}
    BY <1>4 DEF Finish
  <2>2. BatchOK' /\ DrainedOK'
    BY <2>1 DEF BatchOK, DrainedOK
  <2> QED BY <2>1, <2>2, QuietStep
<1>5. CASE \E concluded \in BOOLEAN : ToolsDone(concluded)
  <2>1. /\ UNCHANGED <<inbox, batch, fate, joined>>
        /\ pc = "tools" /\ pc' = "step-done"
    BY <1>5 DEF ToolsDone
  <2>2. BatchOK' /\ DrainedOK'
    BY <2>1 DEF BatchOK, DrainedOK
  <2> QED BY <2>1, <2>2, QuietStep
<1>6. ASSUME NEW f \in {"entered", "dropped"}, Become(Range(batch), f), batch' = <<>>,
             UNCHANGED <<inbox, joined>>, pc' \notin {"none", "exit"}
      PROVE  Kept
  <2>1. Moved
    BY <1>6, ReleaseMoves
  <2>2. BatchOK' /\ DrainedOK'
    BY <1>6 DEF BatchOK, DrainedOK
  <2>3. JoinedOK'
    BY <1>6, <2>1 DEF JoinedOK, Moved, TypeOK
  <2> QED BY <2>1, <2>2, <2>3 DEF Kept
<1>7. CASE Throw
  BY <1>6, <1>7 DEF Throw
<1>8. CASE EnterMessages
  BY <1>6, <1>8 DEF EnterMessages
<1>9. ASSUME NEW d \in Decisions, NEW contextChanged \in BOOLEAN, Decide(d, contextChanged)
      PROVE  Kept
  <2>1. CASE d = "enter"
    <3>1. /\ UNCHANGED <<inbox, batch, fate, joined>> /\ pc' = "decided"
          /\ decision' # "messages" => batch = <<>>
      BY <1>9, <2>1 DEF Decide
    <3>2. BatchOK' /\ DrainedOK'
      BY <3>1 DEF BatchOK, DrainedOK
    <3> QED BY <3>1, <3>2, QuietStep
  <2>2. CASE d # "enter"
    <3>1. /\ Become(Range(batch), "dropped") /\ batch' = <<>> /\ UNCHANGED <<inbox, joined>>
          /\ pc' = "decided"
      BY <1>9, <2>2 DEF Decide
    <3> QED BY <1>6, <3>1
  <2> QED BY <2>1, <2>2
<1>10. CASE ProposeStep
  <2>1. pc = "boundary" /\ Claim /\ pc' = "pre-step" /\ joined' = joined
    BY <1>10 DEF ProposeStep
  <2>2. batch = <<>>
    BY <2>1 DEF BatchOK
  <2>3. Moved
    BY <2>1, <2>2, ClaimMoves
  <2>4. BatchOK' /\ DrainedOK'
    BY <2>1 DEF BatchOK, DrainedOK
  <2>5. JoinedOK'
    BY <2>1, <2>3 DEF JoinedOK, Moved, TypeOK
  <2> QED BY <2>3, <2>4, <2>5 DEF Kept
<1> QED
  BY <1>1, <1>2, <1>3, <1>4, <1>5, <1>7, <1>8, <1>9, <1>10 DEF StepsInTurn

\* The calls that put a message into the inbox.
LEMMA SendKeepsInbox ==
  ASSUME TypeOK, DriverInv, InboxInv,
         NEW m \in Msg, NEW preferred \in Targets, NEW wakeup \in BOOLEAN,
         Send(m, preferred, wakeup)
  PROVE  Kept
<1>1. /\ fate[m] = "unsent" /\ Become({m}, "pending")
      /\ joined' = IF wakeup /\ abort = "none" /\ pc \in TurnPCs THEN joined \union {m} ELSE joined
      /\ UNCHANGED turnVars
  BY DEF Send
<1>2. PICK t \in Targets : inbox' = [inbox EXCEPT ![t] = Append(@, m)]
  BY Zenon DEF Send, Targets
<1>3. batch' = batch /\ UNCHANGED <<decision, turnEnds>>
  BY <1>1 DEF turnVars
<1>4. Moved
  BY <1>1, <1>2, <1>3, SendMoves DEF InboxInv
<1>5. \/ pc = "none" /\ pc' = "start"
      \/ UNCHANGED <<pc, step>>
  BY SendOnPhase DEF PhaseOfCalls, StartDriver, DriverInv, PhaseInv
<1>6. BatchOK'
  BY <1>3, <1>5 DEF InboxInv, HomeInv, BatchOK
<1>7. fate'[m] = "pending" /\ joined' \subseteq joined \union {m} /\ joined \subseteq Msg
  BY <1>1 DEF Become, TypeOK
<1>8. JoinedOK'
  BY <1>4, <1>7 DEF InboxInv, JoinedOK, Moved
<1>9. DrainedOK'
  <2>1. CASE pc' \in {"none", "exit"}
    <3>1. UNCHANGED <<pc, step, turnEnds>> /\ joined' = joined
      BY <1>1, <1>3, <1>5, <2>1 DEF TurnPCs
    <3> QED BY <1>4, <3>1 DEF InboxInv, DrainedOK, JoinedOK, Moved
  <2>2. CASE pc' \notin {"none", "exit"}
    BY <2>2 DEF DrainedOK
  <2> QED BY <2>1, <2>2
<1> QED BY <1>4, <1>6, <1>8, <1>9 DEF Kept

\* Every step keeps the inbox's invariant.
LEMMA InboxStep ==
  ASSUME TypeOK, DriverInv, InboxInv, [Next]_vars
  PROVE  InboxInv'
<1> SUFFICES Kept
  BY DEF Kept, Moved, InboxInv, HomeInv
<1> USE DEF phaseVars, histVars, agentVars, msgVars, turnVars, lifeVars
<1>1. CASE UNCHANGED vars
  <2>1. UNCHANGED <<inbox, batch, fate, joined>> /\ BatchOK' /\ DrainedOK'
    BY <1>1 DEF vars, InboxInv, HomeInv, BatchOK, DrainedOK, Pending
  <2> QED BY <2>1, QuietStep
<1>2. CASE StepsInTurn
  BY <1>2, StepsInTurnKeepInbox
<1>3. CASE TurnStart \/ StepStart
  <2>1. /\ UNCHANGED <<inbox, batch, fate, joined>>
        /\ \/ pc = "start" /\ pc' = "boundary"
           \/ pc = "decided" /\ pc' = "entered"
    BY <1>3 DEF TurnStart, StepStart
  <2>2. BatchOK' /\ DrainedOK'
    BY <2>1 DEF InboxInv, HomeInv, BatchOK, DrainedOK
  <2> QED BY <2>1, <2>2, QuietStep
<1>4. CASE Drain
  <2>1. pc = "drain" /\ UNCHANGED <<inbox, batch, fate, joined>>
    BY <1>4 DEF Drain
  <2>2. pc' = "start" \/ (pc' = "exit" /\ ~HasPending)
    BY <1>4, Zenon DEF Drain
  <2>3. ~HasPending => Pending' = {}
    BY <2>1, EmptyRange DEF HasPending, Pending
  <2>4. BatchOK' /\ DrainedOK'
    BY <2>1, <2>2, <2>3 DEF InboxInv, HomeInv, BatchOK, DrainedOK
  <2> QED BY <2>1, <2>4, QuietStep
<1>5. CASE KickExit \/ EndMaintenance
  <2>1. pc \in {"none", "exit"} /\ UNCHANGED <<inbox, batch, fate, joined, turnEnds>>
    BY <1>5 DEF KickExit, EndMaintenance, DriverInv, PhaseInv
  <2>2. pc' = "start" \/ (pc' = "none" /\ step' = step)
    BY <1>5, Zenon DEF KickExit, EndMaintenance, ConvergeToIdle, StartDriver
  <2>3. BatchOK' /\ DrainedOK'
    BY <2>1, <2>2 DEF InboxInv, HomeInv, BatchOK, DrainedOK, Pending
  <2> QED BY <2>1, <2>3, QuietStep
<1>6. CASE StartMaintenance \/ DisposeFails \/ WhenIdle \/ Detach
  <2>1. UNCHANGED <<inbox, batch, fate, joined, pc, decision, turnEnds, step>>
    BY <1>6 DEF StartMaintenance, DisposeFails, WhenIdle, Detach
  <2>2. BatchOK' /\ DrainedOK'
    BY <2>1 DEF InboxInv, HomeInv, BatchOK, DrainedOK, Pending
  <2> QED BY <2>1, <2>2, QuietStep
<1>7. CASE \E m \in Msg : Followup(m) \/ Steer(m) \/ Inject(m)
  BY <1>7, SendKeepsInbox DEF Followup, Steer, Inject, Targets
<1>8. CASE \E t \in Targets,
               start \in 1..(Len(inbox["next-turn"]) + Len(inbox["next-step"]) + 1),
               removed \in 0..1, inserted \in {<<>>} \union {<<m>> : m \in Msg} :
               EditInbox(t, start, removed, inserted)
  <2>1. PICK t \in Targets,
             start \in 1..(Len(inbox["next-turn"]) + Len(inbox["next-step"]) + 1),
             removed \in 0..1, inserted \in {<<>>} \union {<<m>> : m \in Msg} :
             EditInbox(t, start, removed, inserted)
    BY <1>8
  <2>2. inserted \in Seq(Msg) /\ IsInjective(inserted)
    <3>1. CASE inserted = <<>>
      BY <3>1, EmptyRange
    <3>2. ASSUME NEW m \in Msg, inserted = <<m>>
          PROVE  inserted \in Seq(Msg) /\ IsInjective(inserted)
      BY <3>2, OneRange
    <3> QED BY <3>1, <3>2
  <2>3. start \in Nat \ {0}
    BY ListTypes, LenProperties
  <2>4. Moved
    BY <2>1, <2>2, <2>3, EditMoves DEF InboxInv
  <2>5. UNCHANGED <<batch, joined, pc, decision, turnEnds, step>>
    BY <2>1 DEF EditInbox
  <2>6. BatchOK'
    BY <2>5 DEF InboxInv, HomeInv, BatchOK
  <2>7. JoinedOK'
    BY <2>4, <2>5 DEF InboxInv, JoinedOK, Moved, TypeOK
  <2>8. DrainedOK'
    BY <2>4, <2>5 DEF InboxInv, JoinedOK, DrainedOK, Moved
  <2> QED BY <2>4, <2>6, <2>7, <2>8 DEF Kept
<1>9. ASSUME NEW cause \in Causes, NEW keepInbox \in BOOLEAN, CancelWith(cause, keepInbox)
      PROVE  Kept
  <2>1. joined' = {} /\ UNCHANGED <<batch, pc, decision, turnEnds, step>>
    BY <1>9 DEF CancelWith
  <2>2. Moved
    <3>1. CASE keepInbox
      <4>1. UNCHANGED <<inbox, batch, fate>>
        BY <1>9, <3>1, Zenon DEF CancelWith, msgVars, turnVars
      <4> QED BY <4>1, KeepMoves DEF InboxInv
    <3>2. CASE ~keepInbox
      <4>1. Clear
        BY <1>9, <3>2, Zenon DEF CancelWith
      <4> QED BY <2>1, <4>1, ClearMoves DEF InboxInv
    <3> QED BY <3>1, <3>2
  <2>3. BatchOK' /\ JoinedOK' /\ DrainedOK'
    BY <2>1 DEF InboxInv, HomeInv, BatchOK, JoinedOK, DrainedOK
  <2> QED BY <2>2, <2>3 DEF Kept
<1>10. CASE Dispose \/ \E keepInbox \in BOOLEAN : Cancel(keepInbox)
  BY <1>9, <1>10 DEF Dispose, Cancel, Causes
<1> QED
  BY <1>1, <1>2, <1>3, <1>4, <1>5, <1>6, <1>7, <1>8, <1>10
     DEF Next, Disposer, Driver, Callers, StepsInTurn

\* The inbox's invariant holds in every state of every behaviour: each message
\* has one home, and a turn that ends normally leaves none of its own behind.
THEOREM InboxIsInductive == Spec => []InboxInv
<1>1. ASSUME Init
      PROVE  InboxInv
  <2>1. /\ Range(inbox["next-turn"]) = {} /\ IsInjective(inbox["next-turn"])
        /\ Range(inbox["next-step"]) = {} /\ IsInjective(inbox["next-step"])
        /\ Range(batch) = {} /\ IsInjective(batch)
    BY <1>1, EmptyRange DEF Init, Targets
  <2>2. ListsOK /\ FatesOK
    BY <1>1, <2>1 DEF Init, ListsOK, FatesOK, Pending
  <2> QED BY <1>1, <2>2 DEF Init, InboxInv, HomeInv, BatchOK, JoinedOK, DrainedOK
<1>2. TypeOK /\ DriverInv /\ InboxInv /\ [Next]_vars => InboxInv'
  BY InboxStep
<1> QED BY <1>1, <1>2, TypeCorrect, DriverInvHolds, PTL DEF Spec

\* Every message is in one place: once in one pending list, or once in the
\* batch of the proposed step, or in neither (Inbox.claim, clear and splice).
THEOREM EveryMessageHasOneHome == Spec => []OneHome
<1>1. ASSUME TypeOK, InboxInv
      PROVE  OneHome
  <2> DEFINE nt == inbox["next-turn"]
             ns == inbox["next-step"]
  <2>1. /\ nt \in Seq(Msg) /\ ns \in Seq(Msg) /\ batch \in Seq(Msg)
        /\ Range(batch) \subseteq Msg
    BY <1>1, ListTypes DEF TypeOK
  <2>2. /\ IsInjective(nt) /\ IsInjective(ns) /\ IsInjective(batch)
        /\ Range(nt) \intersect Range(ns) = {}
    BY <1>1 DEF InboxInv, HomeInv, ListsOK
  <2>3. (Range(nt) \union Range(ns)) \intersect Range(batch) = {}
    BY <1>1, <2>1 DEF InboxInv, HomeInv, FatesOK, Pending
  <2> HIDE DEF nt, ns
  <2>4. /\ nt \o ns \in Seq(Msg) /\ IsInjective(nt \o ns)
        /\ Range(nt \o ns) = Range(nt) \union Range(ns)
    BY <2>1, <2>2, ConcatProperties, ConcatInjective, ConcatRange
  <2>5. IsInjective(nt \o ns \o batch)
    <3> DEFINE front == nt \o ns
    <3>1. front \in Seq(Msg) /\ IsInjective(front) /\ Range(front) \intersect Range(batch) = {}
      BY <2>3, <2>4
    <3> HIDE DEF front
    <3>2. IsInjective(front \o batch)
      BY <2>1, <2>2, <3>1, ConcatInjective
    <3> QED BY <3>2 DEF front
  <2>6. \A m \in Msg : /\ fate[m] = "pending" <=> m \in Pending
                       /\ fate[m] = "claimed" <=> m \in Range(batch)
    BY <1>1 DEF InboxInv, HomeInv, FatesOK
  <2> QED BY <2>5, <2>6 DEF OneHome, nt, ns
<1> QED BY <1>1, InboxIsInductive, TypeCorrect, PTL

\* A turn that ran a step and ended normally leaves no waking message behind
\* that arrived while it was open, whatever was sent, edited or cancelled
\* meanwhile (turn()'s hasPending check before the driver retires).
THEOREM LiveTurnsDrain == Spec => []LiveTurnDrains
<1>1. DriverInv /\ InboxInv => LiveTurnDrains
  BY DEF DriverInv, PhaseInv, InboxInv, DrainedOK, LiveTurnDrains
<1> QED BY <1>1, InboxIsInductive, DriverInvHolds, PTL
==============================================================================
