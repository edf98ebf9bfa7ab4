------------------------ MODULE ConversationTurnsProofs ------------------------
(***************************************************************************)
(* The safety of ConversationTurns for any requests and any bounds.  The   *)
(* composition uses the task manager only through its operations, which    *)
(* carries the invariant of AgentTasksProofs over; the turns add their own *)
(* types, the claim, the deleting flag and the wake-ups.                   *)
(***************************************************************************)
EXTENDS ConversationTurns, AgentTasksProofs

TurnsTypeOK ==
  /\ active \in Turns \cup {NoTurn}
  /\ deleting \in BOOLEAN /\ cancelling \in BOOLEAN /\ shut \in BOOLEAN /\ row \in BOOLEAN
  /\ turn \in [Turns -> TurnState]
  /\ woken \subseteq TeamTurns
  /\ stored \subseteq UserTurns /\ accepted \subseteq UserTurns
  /\ warmer \in [Warmers -> {"idle", "read", "asked", "done"}]
  /\ deleter \in [Deleters -> DeleterState]
  /\ canceller \in [Cancellers -> CancellerState]

Inv == TasksInv /\ TurnsTypeOK /\ ClaimIsHeld /\ DeletingHandedOver /\ NoLostWakeup

LEMMA InitInv == Init => Inv
<1>1. Init => TasksInv
  BY TasksInitInv DEF Init
<1>2. Init => TurnsTypeOK
  <2>1. NewTurn \in TurnState
    BY TurnsAssumption DEF NewTurn, TurnState, TurnPlace, Lifecycles
  <2>2. /\ [at |-> "idle", had |-> FALSE] \in DeleterState
        /\ [at |-> "idle", turn |-> NoTurn] \in CancellerState
    BY DEF DeleterState, CancellerState
  <2> QED BY <2>1, <2>2 DEF Init, TurnsTypeOK
<1>3. Init => ClaimIsHeld /\ DeletingHandedOver /\ NoLostWakeup
  BY TurnsAssumption DEF Init, ClaimIsHeld, DeletingHandedOver, NoLostWakeup, Working, NewTurn, At, Turns
<1> QED BY <1>1, <1>2, <1>3 DEF Inv

(***************************************************************************)
(* The task manager's part of each step.                                   *)
(***************************************************************************)
\* A removal is one of the manager's own, or finds nothing to remove.
LEMMA RemovalIsKill ==
  ASSUME TasksInv, RemoveTask, UNCHANGED <<caller, scanner, clearing>>
  PROVE  [TasksNext]_tasksVars
<1>1. CASE tasks # NoCell
  <2>1. Kill
    BY <1>1 DEF Kill
  <2> QED BY <2>1 DEF TasksNext
<1>2. CASE tasks = NoCell
  <2>1. cell' = cell
    BY <1>2, TasksAssumption DEF RemoveTask, TasksInv, TasksTypeOK, Cells, NoCell, Built, Living
  <2> QED BY <1>2, <2>1 DEF RemoveTask, tasksVars
<1> QED BY <1>1, <1>2

LEMMA AbortIsTaskStep ==
  ASSUME TasksInv, NEW t \in Turns, AbortTurn(t)
  PROVE  [TasksNext]_tasksVars
<1>1. t \in Callers
  BY TurnsAssumption
<1>2. CASE Holds(t, "building")
  <2>1. cell' = [cell EXCEPT ![Held(t)] = "empty"]
    BY <1>2 DEF AbortTurn, TasksInv, TasksTypeOK
  <2>2. FactoryErr(t)
    BY <1>2, <2>1 DEF FactoryErr, AbortTurn
  <2> QED BY <1>1, <2>2 DEF CallerStep, TasksNext
<1>3. CASE ~Holds(t, "building")
  <2>1. cell' = cell
    BY <1>3 DEF AbortTurn, TasksInv, TasksTypeOK
  <2>2. CASE Holds(t, "slot")
    <3>1. GiveUp(t)
      BY <2>1, <2>2 DEF AbortTurn, GiveUp
    <3> QED BY <1>1, <3>1 DEF CallerStep, TasksNext
  <2>3. CASE Holds(t, "got")
    <3>1. LetGo(t)
      BY <2>1, <2>3 DEF AbortTurn, LetGo
    <3> QED BY <1>1, <3>1 DEF CallerStep, TasksNext
  <2>4. CASE Holds(t, "out")
    <3>1. caller[t] = Away
      BY <1>1, <2>4 DEF TasksInv, TasksTypeOK, Places, Holds, Held, Caller, Away
    <3>2. caller' = caller
      BY <1>1, <3>1 DEF AbortTurn, TasksInv, TasksTypeOK
    <3> QED BY <2>1, <3>2 DEF AbortTurn, tasksVars
  <2> QED BY <1>1, <1>3, <2>2, <2>3, <2>4 DEF TasksInv, TasksTypeOK, Holds, Caller, CallerPlace
<1> QED BY <1>2, <1>3

LEMMA StepIsTaskStep ==
  ASSUME TasksInv, [Next]_vars
  PROVE  [TasksNext]_tasksVars
<1>1. ASSUME NEW t \in Turns, TurnStep(t)
      PROVE  [TasksNext]_tasksVars
  <2>0. t \in Callers
    BY TurnsAssumption
  <2>1. CASE ClaimStep(t) \/ Release(t) \/ NotifyWaiters(t)
    BY <2>1 DEF ClaimStep, ReadRow, TryClaim, ClaimRefused, Listen, CheckClaim, WakeUp, Release, NotifyWaiters, tasksVars
  <2>2. CASE EvictTask(t)
    BY <2>2, RemovalIsKill DEF EvictTask
  <2>3. CASE AskAgent(t)
    BY <2>0, <2>3 DEF AskAgent, CallerStep, TasksNext
  <2>4. CASE AgentBuildFails(t)
    BY <2>0, <2>4 DEF AgentBuildFails, CallerStep, TasksNext
  <2>5. CASE PersistWorkspaceFails(t)
    BY <2>0, <2>5 DEF PersistWorkspaceFails, CallerStep, TasksNext
  <2>6. CASE Prompt(t)
    BY <2>0, <2>6 DEF Prompt, CallerStep, TasksNext
  <2>7. CASE AnswerContinues(t) \/ AnswerFinishes(t) \/ AnswerIsError(t)
    BY <2>0, <2>7 DEF AnswerContinues, AnswerFinishes, AnswerIsError, CallerStep, TasksNext
  <2>8. CASE AllowMessage(t) \/ StoreMessage(t) \/ SkipMessage(t) \/ InsertFails(t) \/ ReportStarted(t) \/ BuildOptionsFail(t)
    BY <2>8 DEF AllowMessage, StoreMessage, SkipMessage, InsertFails, ReportStarted, BuildOptionsFail, tasksVars
  <2>9. CASE ReplayOnce(t) \/ KeepOrEvict(t)
    BY <2>9 DEF ReplayOnce, KeepOrEvict, tasksVars
  <2> QED BY <1>1, <2>1, <2>2, <2>3, <2>4, <2>5, <2>6, <2>7, <2>8, <2>9 DEF TurnStep, AttemptStep
<1>2. ASSUME NEW t \in Turns, AbortTurn(t)
      PROVE  [TasksNext]_tasksVars
  BY <1>2, AbortIsTaskStep
<1>3. ASSUME NEW g \in Callers, BuildAgent(g)
      PROVE  [TasksNext]_tasksVars
  BY <1>3 DEF BuildAgent, CallerStep, TasksNext
<1>4. ASSUME NEW w \in Warmers, WarmerStep(w)
      PROVE  [TasksNext]_tasksVars
  <2>1. w \in Callers
    BY TurnsAssumption
  <2> QED BY <1>4, <2>1 DEF WarmerStep, WarmReadRow, WarmAsk, WarmEnds, CallerStep, TasksNext, tasksVars
<1>5. ASSUME NEW d \in Deleters, DeleterStep(d) \/ DropDeletion(d)
      PROVE  [TasksNext]_tasksVars
  <2>1. CASE DeleteHook(d)
    BY <2>1, RemovalIsKill DEF DeleteHook
  <2> QED BY <1>5, <2>1 DEF DeleterStep, DeleteReadRow, MarkDeleting, DeleteRow, DeleteFails, EndDeletion,
            DropDeletion, tasksVars
<1>6. ASSUME NEW k \in Cancellers, CancellerStep(k)
      PROVE  [TasksNext]_tasksVars
  <2>1. CASE DrainKill(k)
    BY <2>1, RemovalIsKill DEF DrainKill
  <2> QED BY <1>6, <2>1 DEF CancellerStep, CancelCheckTurn, CancelGetTask, MarkCancelling, CancelAgentFails,
             CancelAgentOk, DrainTimeout, tasksVars
<1>7. CASE UnheardAnswer \/ MarkShuttingDown \/ ClearTasks \/ ScanIdle \/ Reconfigure
  BY <1>7 DEF UnheardAnswer, MarkShuttingDown, ClearTasks, ScanIdle, Reconfigure, TasksNext, tasksVars
<1>8. CASE UNCHANGED vars
  BY <1>8 DEF vars, tasksVars
<1> QED BY <1>1, <1>2, <1>3, <1>4, <1>5, <1>6, <1>7, <1>8 DEF Next

(***************************************************************************)
(* The turns' part of each step.                                           *)
(***************************************************************************)
LEMMA ReadRowTurns ==
  ASSUME Inv, NEW t \in Turns, ReadRow(t)
  PROVE  TurnsTypeOK' /\ ClaimIsHeld' /\ DeletingHandedOver' /\ NoLostWakeup'
<1> USE TurnsAssumption DEF Inv
<1>1. TurnsTypeOK'
  BY DEF ReadRow, TurnGoes, At, flags, messages, others, Turns, TurnsTypeOK, TurnState, TurnPlace, Lifecycles, Lifecycle, DeleterState, CancellerState
<1>2. ClaimIsHeld'
  BY DEF ReadRow, TurnGoes, At, flags, messages, others, Turns, TurnsTypeOK, TurnState, ClaimIsHeld, Working
<1>3. DeletingHandedOver'
  BY DEF ReadRow, TurnGoes, At, flags, messages, others, Turns, TurnsTypeOK, TurnState, DeletingHandedOver, DeleterState
<1>4. NoLostWakeup'
  BY DEF ReadRow, TurnGoes, At, flags, messages, others, Turns, TurnsTypeOK, TurnState, NoLostWakeup, At, ClaimIsHeld, Working
<1> QED BY <1>1, <1>2, <1>3, <1>4

LEMMA TryClaimTurns ==
  ASSUME Inv, NEW t \in Turns, TryClaim(t)
  PROVE  TurnsTypeOK' /\ ClaimIsHeld' /\ DeletingHandedOver' /\ NoLostWakeup'
<1> USE TurnsAssumption DEF Inv
<1>1. TurnsTypeOK'
  BY DEF TryClaim, TurnGoes, At, flags, messages, others, Turns, TurnsTypeOK, TurnState, TurnPlace, Lifecycles, Lifecycle, DeleterState, CancellerState
<1>2. ClaimIsHeld'
  BY DEF TryClaim, TurnGoes, At, flags, messages, others, Turns, TurnsTypeOK, TurnState, ClaimIsHeld, Working
<1>3. DeletingHandedOver'
  BY DEF TryClaim, TurnGoes, At, flags, messages, others, Turns, TurnsTypeOK, TurnState, DeletingHandedOver, DeleterState
<1>4. NoLostWakeup'
  BY DEF TryClaim, TurnGoes, At, flags, messages, others, Turns, TurnsTypeOK, TurnState, NoLostWakeup, At, ClaimIsHeld, Working
<1> QED BY <1>1, <1>2, <1>3, <1>4

LEMMA ClaimRefusedTurns ==
  ASSUME Inv, NEW t \in Turns, ClaimRefused(t)
  PROVE  TurnsTypeOK' /\ ClaimIsHeld' /\ DeletingHandedOver' /\ NoLostWakeup'
<1> USE TurnsAssumption DEF Inv
<1>1. TurnsTypeOK'
  BY DEF ClaimRefused, TurnGoes, At, flags, messages, others, Turns, TurnsTypeOK, TurnState, TurnPlace, Lifecycles, Lifecycle, DeleterState, CancellerState
<1>2. ClaimIsHeld'
  BY DEF ClaimRefused, TurnGoes, At, flags, messages, others, Turns, TurnsTypeOK, TurnState, ClaimIsHeld, Working
<1>3. DeletingHandedOver'
  BY DEF ClaimRefused, TurnGoes, At, flags, messages, others, Turns, TurnsTypeOK, TurnState, DeletingHandedOver, DeleterState
<1>4. NoLostWakeup'
  BY DEF ClaimRefused, TurnGoes, At, flags, messages, others, Turns, TurnsTypeOK, TurnState, NoLostWakeup, At, ClaimIsHeld, Working
<1> QED BY <1>1, <1>2, <1>3, <1>4

LEMMA ListenTurns ==
  ASSUME Inv, NEW t \in Turns, Listen(t)
  PROVE  TurnsTypeOK' /\ ClaimIsHeld' /\ DeletingHandedOver' /\ NoLostWakeup'
<1> USE TurnsAssumption DEF Inv
<1>1. TurnsTypeOK'
  BY DEF Listen, TurnGoes, At, flags, messages, others, Turns, TurnsTypeOK, TurnState, TurnPlace, Lifecycles, Lifecycle, DeleterState, CancellerState
<1>2. ClaimIsHeld'
  BY DEF Listen, TurnGoes, At, flags, messages, others, Turns, TurnsTypeOK, TurnState, ClaimIsHeld, Working
<1>3. DeletingHandedOver'
  BY DEF Listen, TurnGoes, At, flags, messages, others, Turns, TurnsTypeOK, TurnState, DeletingHandedOver, DeleterState
<1>4. NoLostWakeup'
  BY DEF Listen, TurnGoes, At, flags, messages, others, Turns, TurnsTypeOK, TurnState, NoLostWakeup, At, ClaimIsHeld, Working
<1> QED BY <1>1, <1>2, <1>3, <1>4

LEMMA CheckClaimTurns ==
  ASSUME Inv, NEW t \in Turns, CheckClaim(t)
  PROVE  TurnsTypeOK' /\ ClaimIsHeld' /\ DeletingHandedOver' /\ NoLostWakeup'
<1> USE TurnsAssumption DEF Inv
<1>1. TurnsTypeOK'
  BY DEF CheckClaim, TurnGoes, At, flags, messages, others, Turns, TurnsTypeOK, TurnState, TurnPlace, Lifecycles, Lifecycle, DeleterState, CancellerState
<1>2. ClaimIsHeld'
  BY DEF CheckClaim, TurnGoes, At, flags, messages, others, Turns, TurnsTypeOK, TurnState, ClaimIsHeld, Working
<1>3. DeletingHandedOver'
  BY DEF CheckClaim, TurnGoes, At, flags, messages, others, Turns, TurnsTypeOK, TurnState, DeletingHandedOver, DeleterState
<1>4. NoLostWakeup'
  BY DEF CheckClaim, TurnGoes, At, flags, messages, others, Turns, TurnsTypeOK, TurnState, NoLostWakeup, At, ClaimIsHeld, Working
<1> QED BY <1>1, <1>2, <1>3, <1>4

LEMMA WakeUpTurns ==
  ASSUME Inv, NEW t \in Turns, WakeUp(t)
  PROVE  TurnsTypeOK' /\ ClaimIsHeld' /\ DeletingHandedOver' /\ NoLostWakeup'
<1> USE TurnsAssumption DEF Inv
<1>1. TurnsTypeOK'
  BY DEF WakeUp, TurnGoes, At, flags, messages, others, Turns, TurnsTypeOK, TurnState, TurnPlace, Lifecycles, Lifecycle, DeleterState, CancellerState
<1>2. ClaimIsHeld'
  BY DEF WakeUp, TurnGoes, At, flags, messages, others, Turns, TurnsTypeOK, TurnState, ClaimIsHeld, Working
<1>3. DeletingHandedOver'
  BY DEF WakeUp, TurnGoes, At, flags, messages, others, Turns, TurnsTypeOK, TurnState, DeletingHandedOver, DeleterState
<1>4. NoLostWakeup'
  BY DEF WakeUp, TurnGoes, At, flags, messages, others, Turns, TurnsTypeOK, TurnState, NoLostWakeup, At, ClaimIsHeld, Working
<1> QED BY <1>1, <1>2, <1>3, <1>4

LEMMA StoreMessageTurns ==
  ASSUME Inv, NEW t \in Turns, StoreMessage(t)
  PROVE  TurnsTypeOK' /\ ClaimIsHeld' /\ DeletingHandedOver' /\ NoLostWakeup'
<1> USE TurnsAssumption DEF Inv
<1>1. TurnsTypeOK'
  BY DEF StoreMessage, TurnGoes, At, flags, messages, others, Turns, TurnsTypeOK, TurnState, TurnPlace, Lifecycles, Lifecycle, DeleterState, CancellerState
<1>2. ClaimIsHeld'
  BY DEF StoreMessage, TurnGoes, At, flags, messages, others, Turns, TurnsTypeOK, TurnState, ClaimIsHeld, Working
<1>3. DeletingHandedOver'
  BY DEF StoreMessage, TurnGoes, At, flags, messages, others, Turns, TurnsTypeOK, TurnState, DeletingHandedOver, DeleterState
<1>4. NoLostWakeup'
  BY DEF StoreMessage, TurnGoes, At, flags, messages, others, Turns, TurnsTypeOK, TurnState, NoLostWakeup, At, ClaimIsHeld, Working
<1> QED BY <1>1, <1>2, <1>3, <1>4

LEMMA AllowMessageTurns ==
  ASSUME Inv, NEW t \in Turns, AllowMessage(t)
  PROVE  TurnsTypeOK' /\ ClaimIsHeld' /\ DeletingHandedOver' /\ NoLostWakeup'
<1> USE TurnsAssumption DEF Inv
<1>1. TurnsTypeOK'
  BY DEF AllowMessage, TurnGoes, At, flags, messages, others, Turns, TurnsTypeOK, TurnState, TurnPlace, Lifecycles, Lifecycle, DeleterState, CancellerState
<1>2. ClaimIsHeld'
  BY DEF AllowMessage, TurnGoes, At, flags, messages, others, Turns, TurnsTypeOK, TurnState, ClaimIsHeld, Working
<1>3. DeletingHandedOver'
  BY DEF AllowMessage, TurnGoes, At, flags, messages, others, Turns, TurnsTypeOK, TurnState, DeletingHandedOver, DeleterState
<1>4. NoLostWakeup'
  BY DEF AllowMessage, TurnGoes, At, flags, messages, others, Turns, TurnsTypeOK, TurnState, NoLostWakeup, At, ClaimIsHeld, Working
<1> QED BY <1>1, <1>2, <1>3, <1>4

LEMMA SkipMessageTurns ==
  ASSUME Inv, NEW t \in Turns, SkipMessage(t)
  PROVE  TurnsTypeOK' /\ ClaimIsHeld' /\ DeletingHandedOver' /\ NoLostWakeup'
<1> USE TurnsAssumption DEF Inv
<1>1. TurnsTypeOK'
  BY DEF SkipMessage, TurnGoes, At, flags, messages, others, Turns, TurnsTypeOK, TurnState, TurnPlace, Lifecycles, Lifecycle, DeleterState, CancellerState
<1>2. ClaimIsHeld'
  BY DEF SkipMessage, TurnGoes, At, flags, messages, others, Turns, TurnsTypeOK, TurnState, ClaimIsHeld, Working
<1>3. DeletingHandedOver'
  BY DEF SkipMessage, TurnGoes, At, flags, messages, others, Turns, TurnsTypeOK, TurnState, DeletingHandedOver, DeleterState
<1>4. NoLostWakeup'
  BY DEF SkipMessage, TurnGoes, At, flags, messages, others, Turns, TurnsTypeOK, TurnState, NoLostWakeup, At, ClaimIsHeld, Working
<1> QED BY <1>1, <1>2, <1>3, <1>4

LEMMA InsertFailsTurns ==
  ASSUME Inv, NEW t \in Turns, InsertFails(t)
  PROVE  TurnsTypeOK' /\ ClaimIsHeld' /\ DeletingHandedOver' /\ NoLostWakeup'
<1> USE TurnsAssumption DEF Inv
<1>1. TurnsTypeOK'
  BY DEF InsertFails, TurnGoes, At, flags, messages, others, Turns, TurnsTypeOK, TurnState, TurnPlace, Lifecycles, Lifecycle, DeleterState, CancellerState
<1>2. ClaimIsHeld'
  BY DEF InsertFails, TurnGoes, At, flags, messages, others, Turns, TurnsTypeOK, TurnState, ClaimIsHeld, Working
<1>3. DeletingHandedOver'
  BY DEF InsertFails, TurnGoes, At, flags, messages, others, Turns, TurnsTypeOK, TurnState, DeletingHandedOver, DeleterState
<1>4. NoLostWakeup'
  BY DEF InsertFails, TurnGoes, At, flags, messages, others, Turns, TurnsTypeOK, TurnState, NoLostWakeup, At, ClaimIsHeld, Working
<1> QED BY <1>1, <1>2, <1>3, <1>4

LEMMA ReportStartedTurns ==
  ASSUME Inv, NEW t \in Turns, ReportStarted(t)
  PROVE  TurnsTypeOK' /\ ClaimIsHeld' /\ DeletingHandedOver' /\ NoLostWakeup'
<1> USE TurnsAssumption DEF Inv
<1>1. TurnsTypeOK'
  BY DEF ReportStarted, TurnGoes, At, flags, messages, others, Turns, TurnsTypeOK, TurnState, TurnPlace, Lifecycles, Lifecycle, DeleterState, CancellerState
<1>2. ClaimIsHeld'
  BY DEF ReportStarted, TurnGoes, At, flags, messages, others, Turns, TurnsTypeOK, TurnState, ClaimIsHeld, Working
<1>3. DeletingHandedOver'
  BY DEF ReportStarted, TurnGoes, At, flags, messages, others, Turns, TurnsTypeOK, TurnState, DeletingHandedOver, DeleterState
<1>4. NoLostWakeup'
  BY DEF ReportStarted, TurnGoes, At, flags, messages, others, Turns, TurnsTypeOK, TurnState, NoLostWakeup, At, ClaimIsHeld, Working
<1> QED BY <1>1, <1>2, <1>3, <1>4

LEMMA BuildOptionsFailTurns ==
  ASSUME Inv, NEW t \in Turns, BuildOptionsFail(t)
  PROVE  TurnsTypeOK' /\ ClaimIsHeld' /\ DeletingHandedOver' /\ NoLostWakeup'
<1> USE TurnsAssumption DEF Inv
<1>1. TurnsTypeOK'
  BY DEF BuildOptionsFail, TurnGoes, At, flags, messages, others, Turns, TurnsTypeOK, TurnState, TurnPlace, Lifecycles, Lifecycle, DeleterState, CancellerState
<1>2. ClaimIsHeld'
  BY DEF BuildOptionsFail, TurnGoes, At, flags, messages, others, Turns, TurnsTypeOK, TurnState, ClaimIsHeld, Working
<1>3. DeletingHandedOver'
  BY DEF BuildOptionsFail, TurnGoes, At, flags, messages, others, Turns, TurnsTypeOK, TurnState, DeletingHandedOver, DeleterState
<1>4. NoLostWakeup'
  BY DEF BuildOptionsFail, TurnGoes, At, flags, messages, others, Turns, TurnsTypeOK, TurnState, NoLostWakeup, At, ClaimIsHeld, Working
<1> QED BY <1>1, <1>2, <1>3, <1>4

LEMMA AskAgentTurns ==
  ASSUME Inv, NEW t \in Turns, AskAgent(t)
  PROVE  TurnsTypeOK' /\ ClaimIsHeld' /\ DeletingHandedOver' /\ NoLostWakeup'
<1> USE TurnsAssumption DEF Inv
<1>1. TurnsTypeOK'
  BY DEF AskAgent, TurnGoes, At, flags, messages, others, Turns, TurnsTypeOK, TurnState, TurnPlace, Lifecycles, Lifecycle, DeleterState, CancellerState
<1>2. ClaimIsHeld'
  BY DEF AskAgent, TurnGoes, At, flags, messages, others, Turns, TurnsTypeOK, TurnState, ClaimIsHeld, Working
<1>3. DeletingHandedOver'
  BY DEF AskAgent, TurnGoes, At, flags, messages, others, Turns, TurnsTypeOK, TurnState, DeletingHandedOver, DeleterState
<1>4. NoLostWakeup'
  BY DEF AskAgent, TurnGoes, At, flags, messages, others, Turns, TurnsTypeOK, TurnState, NoLostWakeup, At, ClaimIsHeld, Working
<1> QED BY <1>1, <1>2, <1>3, <1>4

LEMMA AgentBuildFailsTurns ==
  ASSUME Inv, NEW t \in Turns, AgentBuildFails(t)
  PROVE  TurnsTypeOK' /\ ClaimIsHeld' /\ DeletingHandedOver' /\ NoLostWakeup'
<1> USE TurnsAssumption DEF Inv
<1>1. TurnsTypeOK'
  BY DEF AgentBuildFails, TurnGoes, At, flags, messages, others, Turns, TurnsTypeOK, TurnState, TurnPlace, Lifecycles, Lifecycle, DeleterState, CancellerState
<1>2. ClaimIsHeld'
  BY DEF AgentBuildFails, TurnGoes, At, flags, messages, others, Turns, TurnsTypeOK, TurnState, ClaimIsHeld, Working
<1>3. DeletingHandedOver'
  BY DEF AgentBuildFails, TurnGoes, At, flags, messages, others, Turns, TurnsTypeOK, TurnState, DeletingHandedOver, DeleterState
<1>4. NoLostWakeup'
  BY DEF AgentBuildFails, TurnGoes, At, flags, messages, others, Turns, TurnsTypeOK, TurnState, NoLostWakeup, At, ClaimIsHeld, Working
<1> QED BY <1>1, <1>2, <1>3, <1>4

LEMMA PersistWorkspaceFailsTurns ==
  ASSUME Inv, NEW t \in Turns, PersistWorkspaceFails(t)
  PROVE  TurnsTypeOK' /\ ClaimIsHeld' /\ DeletingHandedOver' /\ NoLostWakeup'
<1> USE TurnsAssumption DEF Inv
<1>1. TurnsTypeOK'
  BY DEF PersistWorkspaceFails, TurnGoes, At, flags, messages, others, Turns, TurnsTypeOK, TurnState, TurnPlace, Lifecycles, Lifecycle, DeleterState, CancellerState
<1>2. ClaimIsHeld'
  BY DEF PersistWorkspaceFails, TurnGoes, At, flags, messages, others, Turns, TurnsTypeOK, TurnState, ClaimIsHeld, Working
<1>3. DeletingHandedOver'
  BY DEF PersistWorkspaceFails, TurnGoes, At, flags, messages, others, Turns, TurnsTypeOK, TurnState, DeletingHandedOver, DeleterState
<1>4. NoLostWakeup'
  BY DEF PersistWorkspaceFails, TurnGoes, At, flags, messages, others, Turns, TurnsTypeOK, TurnState, NoLostWakeup, At, ClaimIsHeld, Working
<1> QED BY <1>1, <1>2, <1>3, <1>4

LEMMA PromptTurns ==
  ASSUME Inv, NEW t \in Turns, Prompt(t)
  PROVE  TurnsTypeOK' /\ ClaimIsHeld' /\ DeletingHandedOver' /\ NoLostWakeup'
<1> USE TurnsAssumption DEF Inv
<1>1. TurnsTypeOK'
  BY DEF Prompt, TurnGoes, At, flags, messages, others, Turns, TurnsTypeOK, TurnState, TurnPlace, Lifecycles, Lifecycle, DeleterState, CancellerState
<1>2. ClaimIsHeld'
  BY DEF Prompt, TurnGoes, At, flags, messages, others, Turns, TurnsTypeOK, TurnState, ClaimIsHeld, Working
<1>3. DeletingHandedOver'
  BY DEF Prompt, TurnGoes, At, flags, messages, others, Turns, TurnsTypeOK, TurnState, DeletingHandedOver, DeleterState
<1>4. NoLostWakeup'
  BY DEF Prompt, TurnGoes, At, flags, messages, others, Turns, TurnsTypeOK, TurnState, NoLostWakeup, At, ClaimIsHeld, Working
<1> QED BY <1>1, <1>2, <1>3, <1>4

LEMMA AnswerContinuesTurns ==
  ASSUME Inv, NEW t \in Turns, AnswerContinues(t)
  PROVE  TurnsTypeOK' /\ ClaimIsHeld' /\ DeletingHandedOver' /\ NoLostWakeup'
<1> USE TurnsAssumption DEF Inv
<1>1. TurnsTypeOK'
  BY DEF AnswerContinues, TurnGoes, At, flags, messages, others, Turns, TurnsTypeOK, TurnState, TurnPlace, Lifecycles, Lifecycle, DeleterState, CancellerState
<1>2. ClaimIsHeld'
  BY DEF AnswerContinues, TurnGoes, At, flags, messages, others, Turns, TurnsTypeOK, TurnState, ClaimIsHeld, Working
<1>3. DeletingHandedOver'
  BY DEF AnswerContinues, TurnGoes, At, flags, messages, others, Turns, TurnsTypeOK, TurnState, DeletingHandedOver, DeleterState
<1>4. NoLostWakeup'
  BY DEF AnswerContinues, TurnGoes, At, flags, messages, others, Turns, TurnsTypeOK, TurnState, NoLostWakeup, At, ClaimIsHeld, Working
<1> QED BY <1>1, <1>2, <1>3, <1>4

LEMMA AnswerFinishesTurns ==
  ASSUME Inv, NEW t \in Turns, AnswerFinishes(t)
  PROVE  TurnsTypeOK' /\ ClaimIsHeld' /\ DeletingHandedOver' /\ NoLostWakeup'
<1> USE TurnsAssumption DEF Inv
<1>1. TurnsTypeOK'
  BY DEF AnswerFinishes, TurnGoes, At, flags, messages, others, Turns, TurnsTypeOK, TurnState, TurnPlace, Lifecycles, Lifecycle, DeleterState, CancellerState
<1>2. ClaimIsHeld'
  BY DEF AnswerFinishes, TurnGoes, At, flags, messages, others, Turns, TurnsTypeOK, TurnState, ClaimIsHeld, Working
<1>3. DeletingHandedOver'
  BY DEF AnswerFinishes, TurnGoes, At, flags, messages, others, Turns, TurnsTypeOK, TurnState, DeletingHandedOver, DeleterState
<1>4. NoLostWakeup'
  BY DEF AnswerFinishes, TurnGoes, At, flags, messages, others, Turns, TurnsTypeOK, TurnState, NoLostWakeup, At, ClaimIsHeld, Working
<1> QED BY <1>1, <1>2, <1>3, <1>4

LEMMA AnswerIsErrorTurns ==
  ASSUME Inv, NEW t \in Turns, AnswerIsError(t)
  PROVE  TurnsTypeOK' /\ ClaimIsHeld' /\ DeletingHandedOver' /\ NoLostWakeup'
<1> USE TurnsAssumption DEF Inv
<1>1. TurnsTypeOK'
  BY DEF AnswerIsError, TurnGoes, At, flags, messages, others, Turns, TurnsTypeOK, TurnState, TurnPlace, Lifecycles, Lifecycle, DeleterState, CancellerState
<1>2. ClaimIsHeld'
  BY DEF AnswerIsError, TurnGoes, At, flags, messages, others, Turns, TurnsTypeOK, TurnState, ClaimIsHeld, Working
<1>3. DeletingHandedOver'
  BY DEF AnswerIsError, TurnGoes, At, flags, messages, others, Turns, TurnsTypeOK, TurnState, DeletingHandedOver, DeleterState
<1>4. NoLostWakeup'
  BY DEF AnswerIsError, TurnGoes, At, flags, messages, others, Turns, TurnsTypeOK, TurnState, NoLostWakeup, At, ClaimIsHeld, Working
<1> QED BY <1>1, <1>2, <1>3, <1>4

LEMMA ReplayOnceTurns ==
  ASSUME Inv, NEW t \in Turns, ReplayOnce(t)
  PROVE  TurnsTypeOK' /\ ClaimIsHeld' /\ DeletingHandedOver' /\ NoLostWakeup'
<1> USE TurnsAssumption DEF Inv
<1>1. TurnsTypeOK'
  BY DEF ReplayOnce, TurnGoes, At, flags, messages, others, Turns, TurnsTypeOK, TurnState, TurnPlace, Lifecycles, Lifecycle, DeleterState, CancellerState
<1>2. ClaimIsHeld'
  BY DEF ReplayOnce, TurnGoes, At, flags, messages, others, Turns, TurnsTypeOK, TurnState, ClaimIsHeld, Working
<1>3. DeletingHandedOver'
  BY DEF ReplayOnce, TurnGoes, At, flags, messages, others, Turns, TurnsTypeOK, TurnState, DeletingHandedOver, DeleterState
<1>4. NoLostWakeup'
  BY DEF ReplayOnce, TurnGoes, At, flags, messages, others, Turns, TurnsTypeOK, TurnState, NoLostWakeup, At, ClaimIsHeld, Working
<1> QED BY <1>1, <1>2, <1>3, <1>4

LEMMA KeepOrEvictTurns ==
  ASSUME Inv, NEW t \in Turns, KeepOrEvict(t)
  PROVE  TurnsTypeOK' /\ ClaimIsHeld' /\ DeletingHandedOver' /\ NoLostWakeup'
<1> USE TurnsAssumption DEF Inv
<1>1. TurnsTypeOK'
  BY DEF KeepOrEvict, TurnGoes, At, flags, messages, others, Turns, TurnsTypeOK, TurnState, TurnPlace, Lifecycles, Lifecycle, DeleterState, CancellerState
<1>2. ClaimIsHeld'
  BY DEF KeepOrEvict, TurnGoes, At, flags, messages, others, Turns, TurnsTypeOK, TurnState, ClaimIsHeld, Working
<1>3. DeletingHandedOver'
  BY DEF KeepOrEvict, TurnGoes, At, flags, messages, others, Turns, TurnsTypeOK, TurnState, DeletingHandedOver, DeleterState
<1>4. NoLostWakeup'
  BY DEF KeepOrEvict, TurnGoes, At, flags, messages, others, Turns, TurnsTypeOK, TurnState, NoLostWakeup, At, ClaimIsHeld, Working
<1> QED BY <1>1, <1>2, <1>3, <1>4

LEMMA EvictTaskTurns ==
  ASSUME Inv, NEW t \in Turns, EvictTask(t)
  PROVE  TurnsTypeOK' /\ ClaimIsHeld' /\ DeletingHandedOver' /\ NoLostWakeup'
<1> USE TurnsAssumption DEF Inv
<1>1. TurnsTypeOK'
  BY DEF EvictTask, TurnGoes, At, flags, messages, others, Turns, TurnsTypeOK, TurnState, TurnPlace, Lifecycles, Lifecycle, DeleterState, CancellerState
<1>2. ClaimIsHeld'
  BY DEF EvictTask, TurnGoes, At, flags, messages, others, Turns, TurnsTypeOK, TurnState, ClaimIsHeld, Working
<1>3. DeletingHandedOver'
  BY DEF EvictTask, TurnGoes, At, flags, messages, others, Turns, TurnsTypeOK, TurnState, DeletingHandedOver, DeleterState
<1>4. NoLostWakeup'
  BY DEF EvictTask, TurnGoes, At, flags, messages, others, Turns, TurnsTypeOK, TurnState, NoLostWakeup, At, ClaimIsHeld, Working
<1> QED BY <1>1, <1>2, <1>3, <1>4

LEMMA ReleaseTurns ==
  ASSUME Inv, NEW t \in Turns, Release(t)
  PROVE  TurnsTypeOK' /\ ClaimIsHeld' /\ DeletingHandedOver' /\ NoLostWakeup'
<1> USE TurnsAssumption DEF Inv
<1>1. TurnsTypeOK'
  <2>1. turn' \in [Turns -> TurnState]
    BY DEF Release, TurnGoes, TurnsTypeOK, TurnState, TurnPlace
  <2> QED BY <2>1 DEF Release, flags, messages, others, TurnsTypeOK
<1>2. ClaimIsHeld'
  BY DEF Release, TurnGoes, At, flags, messages, others, Turns, TurnsTypeOK, TurnState, ClaimIsHeld, Working
<1>3. DeletingHandedOver'
  BY DEF Release, TurnGoes, At, flags, messages, others, Turns, TurnsTypeOK, TurnState, DeletingHandedOver, DeleterState
<1>4. NoLostWakeup'
  BY DEF Release, TurnGoes, At, flags, messages, others, Turns, TurnsTypeOK, TurnState, NoLostWakeup, At, ClaimIsHeld, Working
<1> QED BY <1>1, <1>2, <1>3, <1>4

LEMMA NotifyWaitersTurns ==
  ASSUME Inv, NEW t \in Turns, NotifyWaiters(t)
  PROVE  TurnsTypeOK' /\ ClaimIsHeld' /\ DeletingHandedOver' /\ NoLostWakeup'
<1> USE TurnsAssumption DEF Inv
<1>1. TurnsTypeOK'
  BY DEF NotifyWaiters, TurnGoes, At, flags, messages, others, Turns, TurnsTypeOK, TurnState, TurnPlace, Lifecycles, Lifecycle, DeleterState, CancellerState
<1>2. ClaimIsHeld'
  BY DEF NotifyWaiters, TurnGoes, At, flags, messages, others, Turns, TurnsTypeOK, TurnState, ClaimIsHeld, Working
<1>3. DeletingHandedOver'
  BY DEF NotifyWaiters, TurnGoes, At, flags, messages, others, Turns, TurnsTypeOK, TurnState, DeletingHandedOver, DeleterState
<1>4. NoLostWakeup'
  BY DEF NotifyWaiters, TurnGoes, At, flags, messages, others, Turns, TurnsTypeOK, TurnState, NoLostWakeup, At, ClaimIsHeld, Working
<1> QED BY <1>1, <1>2, <1>3, <1>4

LEMMA AbortTurnTurns ==
  ASSUME Inv, NEW t \in Turns, AbortTurn(t)
  PROVE  TurnsTypeOK' /\ ClaimIsHeld' /\ DeletingHandedOver' /\ NoLostWakeup'
<1> USE TurnsAssumption DEF Inv
<1>1. TurnsTypeOK'
  <2>1. turn' \in [Turns -> TurnState]
    <3>1. TurnGoes(t, "ending") \/ TurnGoes(t, "done")
      BY DEF AbortTurn
    <3> QED
      BY <3>1 DEF TurnGoes, TurnsTypeOK, TurnState, TurnPlace
  <2>2. woken' \subseteq TeamTurns
    BY DEF AbortTurn, TurnsTypeOK
  <2> QED
    BY <2>1, <2>2 DEF AbortTurn, flags, messages, others, TurnsTypeOK
<1>2. ClaimIsHeld'
  BY DEF AbortTurn, TurnGoes, At, flags, messages, others, Turns, TurnsTypeOK, TurnState, ClaimIsHeld, Working
<1>3. DeletingHandedOver'
  BY DEF AbortTurn, TurnGoes, At, flags, messages, others, Turns, TurnsTypeOK, TurnState, DeletingHandedOver, DeleterState
<1>4. NoLostWakeup'
  BY DEF AbortTurn, TurnGoes, At, flags, messages, others, Turns, TurnsTypeOK, TurnState, NoLostWakeup, At, ClaimIsHeld, Working
<1> QED BY <1>1, <1>2, <1>3, <1>4

LEMMA DeleterMoves ==
  ASSUME TurnsTypeOK, NEW d \in Deleters, NEW place \in {"read", "done", "hooked", "deleted", "refused"},
         DeleterGoes(d, place)
  PROVE  deleter' \in [Deleters -> DeleterState]
<1>1. deleter \in [Deleters -> DeleterState] /\ deleter[d] \in DeleterState
  BY DEF TurnsTypeOK
<1>2. [deleter[d] EXCEPT !.at = place] \in DeleterState
  BY <1>1 DEF DeleterState
<1> QED
  BY <1>1, <1>2 DEF DeleterGoes

LEMMA DeleteReadRowTurns ==
  ASSUME Inv, NEW d \in Deleters, DeleteReadRow(d)
  PROVE  TurnsTypeOK' /\ ClaimIsHeld' /\ DeletingHandedOver' /\ NoLostWakeup'
<1> USE TurnsAssumption DEF Inv
<1>1. TurnsTypeOK'
  <2>1. \E place \in {"read", "done"} : DeleterGoes(d, place)
    BY DEF DeleteReadRow
  <2>2. deleter' \in [Deleters -> DeleterState]
    BY <2>1, DeleterMoves
  <2> QED
    BY <2>2 DEF DeleteReadRow, flags, messages, TurnsTypeOK
<1>2. ClaimIsHeld'
  BY DEF DeleteReadRow, DeleterGoes, flags, messages, Turns, TurnsTypeOK, TurnState, ClaimIsHeld, Working
<1>3. DeletingHandedOver'
  BY DEF DeleteReadRow, DeleterGoes, flags, messages, Turns, TurnsTypeOK, TurnState, DeletingHandedOver, DeleterState
<1>4. NoLostWakeup'
  BY DEF DeleteReadRow, DeleterGoes, flags, messages, Turns, TurnsTypeOK, TurnState, NoLostWakeup, At, ClaimIsHeld, Working
<1> QED BY <1>1, <1>2, <1>3, <1>4

LEMMA MarkDeletingTurns ==
  ASSUME Inv, NEW d \in Deleters, MarkDeleting(d)
  PROVE  TurnsTypeOK' /\ ClaimIsHeld' /\ DeletingHandedOver' /\ NoLostWakeup'
<1> USE TurnsAssumption DEF Inv
<1>1. TurnsTypeOK'
  BY DEF MarkDeleting, DeleterGoes, flags, messages, Turns, TurnsTypeOK, TurnState, TurnPlace, Lifecycles, Lifecycle, DeleterState, CancellerState
<1>2. ClaimIsHeld'
  BY DEF MarkDeleting, DeleterGoes, flags, messages, Turns, TurnsTypeOK, TurnState, ClaimIsHeld, Working
<1>3. DeletingHandedOver'
  BY DEF MarkDeleting, DeleterGoes, flags, messages, Turns, TurnsTypeOK, TurnState, DeletingHandedOver, DeleterState
<1>4. NoLostWakeup'
  BY DEF MarkDeleting, DeleterGoes, flags, messages, Turns, TurnsTypeOK, TurnState, NoLostWakeup, At, ClaimIsHeld, Working
<1> QED BY <1>1, <1>2, <1>3, <1>4

LEMMA DeleteHookTurns ==
  ASSUME Inv, NEW d \in Deleters, DeleteHook(d)
  PROVE  TurnsTypeOK' /\ ClaimIsHeld' /\ DeletingHandedOver' /\ NoLostWakeup'
<1> USE TurnsAssumption DEF Inv
<1>1. TurnsTypeOK'
  <2>1. DeleterGoes(d, "hooked")
    BY DEF DeleteHook
  <2>2. deleter' \in [Deleters -> DeleterState]
    BY <2>1, DeleterMoves
  <2> QED
    BY <2>2 DEF DeleteHook, flags, messages, TurnsTypeOK
<1>2. ClaimIsHeld'
  BY DEF DeleteHook, DeleterGoes, flags, messages, Turns, TurnsTypeOK, TurnState, ClaimIsHeld, Working
<1>3. DeletingHandedOver'
  BY DEF DeleteHook, DeleterGoes, flags, messages, Turns, TurnsTypeOK, TurnState, DeletingHandedOver, DeleterState
<1>4. NoLostWakeup'
  BY DEF DeleteHook, DeleterGoes, flags, messages, Turns, TurnsTypeOK, TurnState, NoLostWakeup, At, ClaimIsHeld, Working
<1> QED BY <1>1, <1>2, <1>3, <1>4

LEMMA DeleteRowTurns ==
  ASSUME Inv, NEW d \in Deleters, DeleteRow(d)
  PROVE  TurnsTypeOK' /\ ClaimIsHeld' /\ DeletingHandedOver' /\ NoLostWakeup'
<1> USE TurnsAssumption DEF Inv
<1>1. TurnsTypeOK'
  <2>1. DeleterGoes(d, "deleted")
    BY DEF DeleteRow
  <2>2. deleter' \in [Deleters -> DeleterState]
    BY <2>1, DeleterMoves
  <2> QED
    BY <2>2 DEF DeleteRow, flags, messages, TurnsTypeOK
<1>2. ClaimIsHeld'
  BY DEF DeleteRow, DeleterGoes, flags, messages, Turns, TurnsTypeOK, TurnState, ClaimIsHeld, Working
<1>3. DeletingHandedOver'
  BY DEF DeleteRow, DeleterGoes, flags, messages, Turns, TurnsTypeOK, TurnState, DeletingHandedOver, DeleterState
<1>4. NoLostWakeup'
  BY DEF DeleteRow, DeleterGoes, flags, messages, Turns, TurnsTypeOK, TurnState, NoLostWakeup, At, ClaimIsHeld, Working
<1> QED BY <1>1, <1>2, <1>3, <1>4

LEMMA DropDeletionTurns ==
  ASSUME Inv, NEW d \in Deleters, DropDeletion(d)
  PROVE  TurnsTypeOK' /\ ClaimIsHeld' /\ DeletingHandedOver' /\ NoLostWakeup'
<1> USE TurnsAssumption DEF Inv
<1>1. TurnsTypeOK'
  <2>1. [at |-> IF deleter[d].had THEN "done" ELSE "lost", had |-> FALSE] \in DeleterState
    BY DEF DeleterState
  <2>2. deleter' \in [Deleters -> DeleterState]
    BY <2>1 DEF DropDeletion, TurnsTypeOK
  <2> QED
    BY <2>2 DEF DropDeletion, flags, messages, TurnsTypeOK
<1>2. ClaimIsHeld'
  BY DEF DropDeletion, DeleterGoes, flags, messages, Turns, TurnsTypeOK, TurnState, ClaimIsHeld, Working
<1>3. DeletingHandedOver'
  BY DEF DropDeletion, DeleterGoes, flags, messages, Turns, TurnsTypeOK, TurnState, DeletingHandedOver, DeleterState
<1>4. NoLostWakeup'
  BY DEF DropDeletion, DeleterGoes, flags, messages, Turns, TurnsTypeOK, TurnState, NoLostWakeup, At, ClaimIsHeld, Working
<1> QED BY <1>1, <1>2, <1>3, <1>4

LEMMA DeleteFailsTurns ==
  ASSUME Inv, NEW d \in Deleters, DeleteFails(d)
  PROVE  TurnsTypeOK' /\ ClaimIsHeld' /\ DeletingHandedOver' /\ NoLostWakeup'
<1> USE TurnsAssumption DEF Inv
<1>1. TurnsTypeOK'
  <2>1. DeleterGoes(d, "refused")
    BY DEF DeleteFails
  <2>2. deleter' \in [Deleters -> DeleterState]
    BY <2>1, DeleterMoves
  <2> QED
    BY <2>2 DEF DeleteFails, flags, messages, TurnsTypeOK
<1>2. ClaimIsHeld'
  BY DEF DeleteFails, DeleterGoes, flags, messages, Turns, TurnsTypeOK, TurnState, ClaimIsHeld, Working
<1>3. DeletingHandedOver'
  BY DEF DeleteFails, DeleterGoes, flags, messages, Turns, TurnsTypeOK, TurnState, DeletingHandedOver, DeleterState
<1>4. NoLostWakeup'
  BY DEF DeleteFails, DeleterGoes, flags, messages, Turns, TurnsTypeOK, TurnState, NoLostWakeup, At, ClaimIsHeld, Working
<1> QED BY <1>1, <1>2, <1>3, <1>4

LEMMA EndDeletionTurns ==
  ASSUME Inv, NEW d \in Deleters, EndDeletion(d)
  PROVE  TurnsTypeOK' /\ ClaimIsHeld' /\ DeletingHandedOver' /\ NoLostWakeup'
<1> USE TurnsAssumption DEF Inv
<1>1. TurnsTypeOK'
  <2>1. [at |-> "done", had |-> FALSE] \in DeleterState
    BY DEF DeleterState
  <2>2. deleter' \in [Deleters -> DeleterState]
    BY <2>1 DEF EndDeletion, TurnsTypeOK
  <2> QED
    BY <2>2 DEF EndDeletion, flags, messages, TurnsTypeOK
<1>2. ClaimIsHeld'
  BY DEF EndDeletion, DeleterGoes, flags, messages, Turns, TurnsTypeOK, TurnState, ClaimIsHeld, Working
<1>3. DeletingHandedOver'
  BY DEF EndDeletion, DeleterGoes, flags, messages, Turns, TurnsTypeOK, TurnState, DeletingHandedOver, DeleterState
<1>4. NoLostWakeup'
  BY DEF EndDeletion, DeleterGoes, flags, messages, Turns, TurnsTypeOK, TurnState, NoLostWakeup, At, ClaimIsHeld, Working
<1> QED BY <1>1, <1>2, <1>3, <1>4

\* Warmups, cancellations, the scanner, shutdown and evictions touch neither the
\* claim nor the deleting flag, nor the turns and deletions themselves.
LEMMA QuietTurns ==
  ASSUME Inv, UNCHANGED <<active, deleting, turn, woken, deleter>>
  PROVE  ClaimIsHeld' /\ DeletingHandedOver' /\ NoLostWakeup'
BY DEF Inv, ClaimIsHeld, DeletingHandedOver, NoLostWakeup, At

LEMMA WarmerTurns ==
  ASSUME Inv, NEW w \in Warmers, WarmerStep(w)
  PROVE  TurnsTypeOK' /\ ClaimIsHeld' /\ DeletingHandedOver' /\ NoLostWakeup'
<1>1. UNCHANGED <<flags, row, turn, woken, messages, deleter, canceller>>
  BY DEF WarmerStep, WarmReadRow, WarmAsk, WarmEnds
<1>2. warmer' \in [Warmers -> {"idle", "read", "asked", "done"}]
  BY DEF WarmerStep, WarmReadRow, WarmAsk, WarmEnds, WarmerGoes, Inv, TurnsTypeOK
<1>3. TurnsTypeOK'
  BY <1>1, <1>2 DEF flags, messages, Inv, TurnsTypeOK
<1> QED BY <1>1, <1>3, QuietTurns DEF flags

LEMMA CancellerTurns ==
  ASSUME Inv, NEW k \in Cancellers, CancellerStep(k)
  PROVE  TurnsTypeOK' /\ ClaimIsHeld' /\ DeletingHandedOver' /\ NoLostWakeup'
<1>1. UNCHANGED <<active, deleting, shut, row, turn, woken, messages, warmer, deleter>>
  BY DEF CancellerStep, CancelCheckTurn, CancelGetTask, MarkCancelling, CancelAgentFails, CancelAgentOk,
         DrainTimeout, DrainKill, flags
<1>2. cancelling' \in BOOLEAN
  BY DEF CancellerStep, CancelCheckTurn, CancelGetTask, MarkCancelling, CancelAgentFails, CancelAgentOk,
         DrainTimeout, DrainKill, flags, Inv, TurnsTypeOK
<1>3. canceller' \in [Cancellers -> CancellerState]
  <2>1. CASE \E t \in Turns : CancelCheckTurn(k, t)
    BY <2>1 DEF CancelCheckTurn, Inv, TurnsTypeOK, CancellerState
  <2>2. CASE ~\E t \in Turns : CancelCheckTurn(k, t)
    <3>1. PICK place \in {"found", "marked", "draining", "killing", "done"} : CancellerGoes(k, place)
      BY <2>2 DEF CancellerStep, CancelGetTask, MarkCancelling, CancelAgentFails, CancelAgentOk, DrainTimeout, DrainKill
    <3> QED BY <3>1 DEF CancellerGoes, Inv, TurnsTypeOK, CancellerState
  <2> QED BY <2>1, <2>2
<1>4. TurnsTypeOK'
  BY <1>1, <1>2, <1>3 DEF messages, Inv, TurnsTypeOK
<1> QED BY <1>1, <1>4, QuietTurns

LEMMA OtherTurns ==
  ASSUME Inv,
         \/ \E g \in Callers : BuildAgent(g)
         \/ UnheardAnswer \/ MarkShuttingDown \/ ClearTasks \/ ScanIdle \/ Reconfigure
         \/ UNCHANGED vars
  PROVE  TurnsTypeOK' /\ ClaimIsHeld' /\ DeletingHandedOver' /\ NoLostWakeup'
<1>1. /\ UNCHANGED <<active, deleting, cancelling, row, turn, woken, messages, others>>
      /\ shut' \in BOOLEAN
  BY DEF BuildAgent, UnheardAnswer, MarkShuttingDown, ClearTasks, ScanIdle, Reconfigure, vars, flags,
         Inv, TurnsTypeOK
<1>2. TurnsTypeOK'
  BY <1>1 DEF messages, others, Inv, TurnsTypeOK
<1> QED BY <1>1, <1>2, QuietTurns DEF others

LEMMA NextInv ==
  ASSUME Inv, [Next]_vars
  PROVE  Inv'
<1>1. TasksInv'
  <2>1. [TasksNext]_tasksVars
    BY StepIsTaskStep DEF Inv
  <2> QED BY <2>1, TasksNextInv DEF Inv
<1>2. TurnsTypeOK' /\ ClaimIsHeld' /\ DeletingHandedOver' /\ NoLostWakeup'
  <2>1. ASSUME NEW t \in Turns, ClaimStep(t) \/ Release(t) \/ NotifyWaiters(t) \/ AbortTurn(t)
        PROVE  TurnsTypeOK' /\ ClaimIsHeld' /\ DeletingHandedOver' /\ NoLostWakeup'
    BY <2>1, ReadRowTurns, TryClaimTurns, ClaimRefusedTurns, ListenTurns, CheckClaimTurns, WakeUpTurns,
       ReleaseTurns, NotifyWaitersTurns, AbortTurnTurns DEF ClaimStep
  <2>2. ASSUME NEW t \in Turns, AttemptStep(t)
        PROVE  TurnsTypeOK' /\ ClaimIsHeld' /\ DeletingHandedOver' /\ NoLostWakeup'
    BY <2>2, AllowMessageTurns, StoreMessageTurns, SkipMessageTurns, InsertFailsTurns, ReportStartedTurns, BuildOptionsFailTurns,
       AskAgentTurns, AgentBuildFailsTurns, PersistWorkspaceFailsTurns, PromptTurns, AnswerContinuesTurns,
       AnswerFinishesTurns, AnswerIsErrorTurns, ReplayOnceTurns, KeepOrEvictTurns, EvictTaskTurns
    DEF AttemptStep
  <2>3. ASSUME NEW d \in Deleters, DeleterStep(d) \/ DropDeletion(d)
        PROVE  TurnsTypeOK' /\ ClaimIsHeld' /\ DeletingHandedOver' /\ NoLostWakeup'
    BY <2>3, DeleteReadRowTurns, MarkDeletingTurns, DeleteHookTurns, DeleteRowTurns, DeleteFailsTurns,
       EndDeletionTurns, DropDeletionTurns DEF DeleterStep
  <2> QED BY <2>1, <2>2, <2>3, WarmerTurns, CancellerTurns, OtherTurns DEF Next, TurnStep
<1> QED BY <1>1, <1>2 DEF Inv

LEMMA InvAlways == Safety => []Inv
<1>1. Inv /\ [Next]_vars => Inv'
  BY NextInv
<1> QED BY InitInv, <1>1, PTL DEF Safety

\* The types of the turns, of what runs against them, and of the task manager.
THEOREM TurnsTypeCorrect == Safety => []TypeOK
<1>1. Inv => TypeOK
  BY DEF Inv, TasksInv, TurnsTypeOK, TypeOK
<1> QED BY <1>1, InvAlways, PTL

\* The claim of runtime_state.rs: for any number of requests, deletions,
\* cancellations and warmups, one turn of the conversation works at a time, and a
\* claim always belongs to a turn that is on its way to release it.
THEOREM OneTurnAtATime == Safety => []ClaimIsHeld
<1>1. Inv => ClaimIsHeld
  BY DEF Inv
<1> QED BY <1>1, InvAlways, PTL

\* delete of service.rs: a set deleting flag is owed back by a turn or a deletion,
\* however many deletions overlap and however they fail, unless the request of a
\* deletion that found no turn was dropped.
THEOREM DeletingIsHandedOver == Safety => []DeletingHandedOver
<1>1. Inv => DeletingHandedOver
  BY DEF Inv
<1> QED BY <1>1, InvAlways, PTL

\* wait_until_unclaimed of runtime_state.rs: no waiting team turn sleeps through the
\* release it waits for.
THEOREM WakeupsAreKept == Safety => []NoLostWakeup
<1>1. Inv => NoLostWakeup
  BY DEF Inv
<1> QED BY <1>1, InvAlways, PTL

\* The composition implements the task manager with arbitrary callers: what
\* AgentTasksProofs proves of the map, the cells and the callers holds of every
\* conversation with its turns, warmups, deletions and evictions.
THEOREM UsesTheTaskManager == Safety => UsesTaskManager
<1>1. Init => TasksInit
  BY DEF Init
<1>2. Inv /\ [Next]_vars => [TasksNext]_tasksVars
  BY StepIsTaskStep DEF Inv
<1> QED BY <1>1, <1>2, InvAlways, PTL DEF Safety, UsesTaskManager, TasksSafety

(***************************************************************************)
(* The requests' view of the turns: ExclusiveTurns.                        *)
(***************************************************************************)
\* A request that has not had its turn has used nothing of it.
Early == {"idle", "again", "read", "listen", "listening", "waiting", "claimed", "allowed"}
Unspent ==
  \A t \in Turns : turn[t].at \in Early =>
    t \notin stored /\ ~turn[t].replayed /\ turn[t].continued = 0

LineStep == Line!Next \/ UNCHANGED Line!vars

\* A step that moves one turn, as its request sees it.
Kept(x, y) == x.replayed = y.replayed /\ x.continued = y.continued
Moves(x, y) ==
  \/ /\ Kept(x, y)
     /\ \/ Part(x.at) = Part(y.at)
        \/ Part(x.at) = "ready" /\ Part(y.at) \in {"talking", "silent"}
        \/ Part(x.at) = "talking" /\ Part(y.at) = "silent"
        \/ Part(x.at) = "silent" /\ Part(y.at) = "over"
        \/ Part(x.at) = "open" /\ Part(y.at) = "over"
  \/ /\ Part(x.at) = "talking" /\ Part(y.at) = "ready" /\ x.continued < MaxContinuations
     /\ x.replayed = y.replayed /\ y.continued = x.continued + 1
  \/ /\ Part(x.at) = "silent" /\ Part(y.at) = "ready"
     /\ ~x.replayed /\ y.replayed /\ y.continued = 0

LEMMA AskedMoves ==
  ASSUME TurnsTypeOK, NEW t \in Turns, NEW y, turn' = [turn EXCEPT ![t] = y]
  PROVE  Asked' = [Asked EXCEPT ![t] = [at |-> Part(y.at), replayed |-> y.replayed, continued |-> y.continued]]
BY DEF Asked, TurnsTypeOK

LEMMA MoveIsLineStep ==
  ASSUME TurnsTypeOK, NEW t \in Turns, NEW y, turn' = [turn EXCEPT ![t] = y],
         Moves(turn[t], y), UNCHANGED stored
  PROVE  LineStep
<1> DEFINE x == turn[t]
           new == [at |-> Part(y.at), replayed |-> y.replayed, continued |-> y.continued]
<1>1. Asked' = [Asked EXCEPT ![t] = new]
  BY AskedMoves
<1>2. /\ Asked[t] = [at |-> Part(x.at), replayed |-> x.replayed, continued |-> x.continued]
      /\ DOMAIN Asked = Turns
  BY DEF Asked
<1>3. /\ Asked[t].at = Part(x.at) /\ Asked[t].replayed = x.replayed
      /\ Asked[t].continued = x.continued
  BY <1>2
<1>4. CASE Kept(x, y) /\ Part(x.at) = Part(y.at)
  <2>1. new = Asked[t]
    BY <1>2, <1>4 DEF Kept
  <2>2. Asked' = Asked
    BY <1>1, <1>2, <2>1 DEF Asked
  <2> QED
    BY <2>2 DEF LineStep, Line!vars
<1>5. CASE /\ Kept(x, y)
           /\ \/ Part(x.at) = "ready" /\ Part(y.at) \in {"talking", "silent"}
              \/ Part(x.at) = "talking" /\ Part(y.at) = "silent"
              \/ Part(x.at) = "silent" /\ Part(y.at) = "over"
              \/ Part(x.at) = "open" /\ Part(y.at) = "over"
  <2>1. new = [Asked[t] EXCEPT !.at = Part(y.at)]
    BY <1>2, <1>5 DEF Kept
  <2>2. CASE Part(x.at) = "ready" /\ Part(y.at) = "talking"
    <3>1. Line!Talk(t)
      BY <1>1, <1>3, <2>1, <2>2 DEF Line!Talk, Line!Move
    <3> QED
      BY <3>1 DEF LineStep, Line!Next
  <2>3. CASE Part(x.at) \in {"ready", "talking"} /\ Part(y.at) = "silent"
    <3>1. Line!FallSilent(t)
      BY <1>1, <1>3, <2>1, <2>3 DEF Line!FallSilent, Line!Move
    <3> QED
      BY <3>1 DEF LineStep, Line!Next
  <2>4. CASE Part(x.at) = "silent" /\ Part(y.at) = "over"
    <3>1. Line!End(t)
      BY <1>1, <1>3, <2>1, <2>4 DEF Line!End, Line!Move
    <3> QED
      BY <3>1 DEF LineStep, Line!Next
  <2>5. CASE Part(x.at) = "open" /\ Part(y.at) = "over"
    <3>1. Line!Refuse(t)
      BY <1>1, <1>3, <2>1, <2>5 DEF Line!Refuse, Line!Move
    <3> QED
      BY <3>1 DEF LineStep, Line!Next
  <2> QED
    BY <1>5, <2>2, <2>3, <2>4, <2>5
<1>6. CASE /\ Part(x.at) = "talking" /\ Part(y.at) = "ready" /\ x.continued < MaxContinuations
           /\ x.replayed = y.replayed /\ y.continued = x.continued + 1
  <2>0. new = [at |-> "ready", replayed |-> x.replayed, continued |-> x.continued + 1]
    BY <1>6
  <2>1. new = [at |-> "ready", replayed |-> Asked[t].replayed, continued |-> Asked[t].continued + 1]
    BY <1>3, <2>0
  <2>2. Line!Continue(t)
    BY <1>1, <1>3, <1>6, <2>1 DEF Line!Continue, Line!Move
  <2> QED
    BY <2>2 DEF LineStep, Line!Next
<1>7. CASE /\ Part(x.at) = "silent" /\ Part(y.at) = "ready"
           /\ ~x.replayed /\ y.replayed /\ y.continued = 0
  <2>1. y.replayed = TRUE => new = [at |-> "ready", replayed |-> TRUE, continued |-> 0]
    BY <1>7
  <2> QED
    BY <1>1, <1>3, <1>7, <2>1 DEF LineStep, Line!Next, Line!Replay, Line!Move
<1> QED
  BY <1>4, <1>5, <1>6, <1>7 DEF Moves

LEMMA Parts ==
  /\ \A place \in {"claimed", "allowed", "stored", "agent", "replay"} : Part(place) = "ready"
  /\ \A place \in {"failed", "evict", "ending"} : Part(place) = "silent"
  /\ \A place \in {"notifying", "done"} : Part(place) = "over"
  /\ \A place \in {"idle", "again", "read", "listen", "listening", "waiting"} : Part(place) = "open"
  /\ Part("prompting") = "talking"
  BY DEF Part, Ready, Silent

\* A turn that moves, and does not become fresh again.
Moved(t) ==
  /\ turn' = [turn EXCEPT ![t] = turn'[t]]
  /\ Moves(turn[t], turn'[t])
  /\ turn'[t].at \in Early => turn[t].at \in Early /\ Kept(turn[t], turn'[t])

LEMMA GoesKeeps ==
  ASSUME TurnsTypeOK, NEW t \in Turns, NEW place, TurnGoes(t, place)
  PROVE  /\ turn' = [turn EXCEPT ![t] = turn'[t]]
         /\ turn'[t].at = place /\ Kept(turn[t], turn'[t])
<1>1. turn \in [Turns -> TurnState] /\ turn[t] \in TurnState
  BY DEF TurnsTypeOK
<1> QED
  BY <1>1 DEF TurnGoes, Kept, TurnState

LEMMA ClaimMoves ==
  ASSUME TurnsTypeOK, NEW t \in Turns,
         ReadRow(t) \/ ClaimRefused(t) \/ Listen(t) \/ CheckClaim(t) \/ WakeUp(t)
  PROVE  Moved(t) /\ UNCHANGED stored
<1>1. \E place \in {"read", "done", "listen", "listening", "again", "waiting"} : TurnGoes(t, place)
  BY DEF ReadRow, ClaimRefused, Listen, CheckClaim, WakeUp
<1>2. turn[t].at \in {"idle", "again", "read", "listen", "listening", "waiting"}
  BY DEF ReadRow, ClaimRefused, Listen, CheckClaim, WakeUp, At
<1>3. UNCHANGED stored
  BY DEF ReadRow, ClaimRefused, Listen, CheckClaim, WakeUp, messages
<1> QED
  BY <1>1, <1>2, <1>3, GoesKeeps, Parts DEF Moved, Moves, Early

LEMMA AttemptMoves ==
  ASSUME TurnsTypeOK, NEW t \in Turns, AttemptStep(t), ~StoreMessage(t)
  PROVE  Moved(t) /\ UNCHANGED stored
<1>0. turn \in [Turns -> TurnState] /\ turn[t] \in TurnState
  BY DEF TurnsTypeOK
<1>1. UNCHANGED stored
  BY DEF AttemptStep, AllowMessage, SkipMessage, InsertFails, ReportStarted, BuildOptionsFail, AskAgent, AgentBuildFails,
     PersistWorkspaceFails, Prompt, AnswerContinues, AnswerFinishes, AnswerIsError, ReplayOnce, KeepOrEvict,
     EvictTask, messages
<1>2. CASE SkipMessage(t) \/ InsertFails(t) \/ BuildOptionsFail(t) \/ AgentBuildFails(t) \/ PersistWorkspaceFails(t)
  <2>1. TurnGoes(t, "ending") /\ turn[t].at \in {"claimed", "allowed", "stored", "agent"}
    BY <1>2 DEF SkipMessage, InsertFails, BuildOptionsFail, AgentBuildFails, PersistWorkspaceFails, At
  <2> QED
    BY <1>1, <2>1, GoesKeeps, Parts DEF Moved, Moves, Early
<1>3. CASE AllowMessage(t) \/ ReportStarted(t) \/ AskAgent(t)
  <2>1. /\ turn[t].at \in {"claimed", "stored"}
        /\ \/ TurnGoes(t, "stored") \/ TurnGoes(t, "agent")
           \/ turn[t].at = "claimed" /\ TurnGoes(t, "allowed")
    BY <1>3 DEF AllowMessage, ReportStarted, AskAgent, At
  <2> QED
    BY <1>1, <2>1, GoesKeeps, Parts DEF Moved, Moves, Early
<1>4. CASE Prompt(t)
  <2>1. turn' = [turn EXCEPT ![t].at = "prompting", ![t].life = Lifecycle] /\ turn[t].at = "agent"
    BY <1>4 DEF Prompt, At
  <2>2. /\ turn' = [turn EXCEPT ![t] = turn'[t]]
        /\ turn'[t].at = "prompting" /\ Kept(turn[t], turn'[t])
    BY <1>0, <2>1 DEF TurnState, Kept
  <2> QED
    BY <1>1, <2>1, <2>2, Parts DEF Moved, Moves, Early
<1>5. CASE AnswerContinues(t)
  <2>1. /\ turn' = [turn EXCEPT ![t].at = "agent", ![t].continued = @ + 1]
        /\ turn[t].at = "prompting" /\ turn[t].continued < MaxContinuations
    BY <1>5 DEF AnswerContinues, At
  <2>2. /\ turn' = [turn EXCEPT ![t] = turn'[t]] /\ turn'[t].at = "agent"
        /\ turn'[t].replayed = turn[t].replayed /\ turn'[t].continued = turn[t].continued + 1
    BY <1>0, <2>1 DEF TurnState
  <2> QED
    BY <1>1, <2>1, <2>2, Parts DEF Moved, Moves, Early
<1>6. CASE AnswerFinishes(t) \/ AnswerIsError(t)
  <2>1. /\ turn[t].at = "prompting"
        /\ TurnGoes(t, "ending") \/ TurnGoes(t, "failed")
    BY <1>6 DEF AnswerFinishes, AnswerIsError, At
  <2> QED
    BY <1>1, <2>1, GoesKeeps, Parts DEF Moved, Moves, Early
<1>7. CASE ReplayOnce(t)
  <2>1. /\ turn' = [turn EXCEPT ![t].at = "replay", ![t].replayed = TRUE, ![t].continued = 0]
        /\ turn[t].at = "failed" /\ ~turn[t].replayed
    BY <1>7 DEF ReplayOnce, At
  <2>2. /\ turn' = [turn EXCEPT ![t] = turn'[t]]
        /\ turn'[t].at = "replay" /\ turn'[t].replayed = TRUE /\ turn'[t].continued = 0
    BY <1>0, <2>1 DEF TurnState
  <2> QED
    BY <1>1, <2>1, <2>2, Parts DEF Moved, Moves, Early
<1>8. CASE KeepOrEvict(t)
  <2>1. /\ turn[t].at = "failed"
        /\ TurnGoes(t, "evict") \/ TurnGoes(t, "ending")
    BY <1>8 DEF KeepOrEvict, At
  <2> QED
    BY <1>1, <2>1, GoesKeeps, Parts DEF Moved, Moves, Early
<1>9. CASE EvictTask(t)
  <2>1. \/ turn[t].at = "replay" /\ TurnGoes(t, "stored")
        \/ turn[t].at = "evict" /\ TurnGoes(t, "ending")
    BY <1>9 DEF EvictTask, At
  <2> QED
    BY <1>1, <2>1, GoesKeeps, Parts DEF Moved, Moves, Early
<1> QED
  BY <1>2, <1>3, <1>4, <1>5, <1>6, <1>7, <1>8, <1>9 DEF AttemptStep

LEMMA EndMoves ==
  ASSUME TurnsTypeOK, ClaimIsHeld, NEW t \in Turns, Release(t) \/ NotifyWaiters(t) \/ AbortTurn(t)
  PROVE  Moved(t) /\ UNCHANGED stored
<1>1. UNCHANGED stored
  BY DEF Release, NotifyWaiters, AbortTurn, messages
<1>2. CASE Release(t) \/ NotifyWaiters(t)
  <2>1. \/ turn[t].at = "ending" /\ TurnGoes(t, "notifying")
        \/ turn[t].at = "notifying" /\ TurnGoes(t, "done")
    BY <1>2 DEF Release, NotifyWaiters, At
  <2> QED
    BY <1>1, <2>1, GoesKeeps, Parts DEF Moved, Moves, Early
<1>3. CASE AbortTurn(t)
  <2>1. /\ turn[t].at \in TurnPlace \ {"idle", "ending", "notifying", "done"}
        /\ active = t <=> turn[t].at \in Working
        /\ TurnGoes(t, IF active = t THEN "ending" ELSE "done")
    BY <1>3 DEF AbortTurn, ClaimIsHeld, TurnsTypeOK, TurnState
  <2>2. CASE active = t
    <3>1. TurnGoes(t, "ending") /\ turn[t].at \in Working \ {"ending"}
      BY <2>1, <2>2
    <3> QED
      BY <1>1, <3>1, GoesKeeps, Parts DEF Moved, Moves, Early, Working
  <2>3. CASE active # t
    <3>1. TurnGoes(t, "done") /\ turn[t].at \in {"again", "read", "listen", "listening", "waiting"}
      BY <2>1, <2>3 DEF TurnPlace, Working
    <3> QED
      BY <1>1, <3>1, GoesKeeps, Parts DEF Moved, Moves, Early
  <2> QED
    BY <2>2, <2>3
<1> QED
  BY <1>2, <1>3

LEMMA MovedIsLineStep ==
  ASSUME TurnsTypeOK, Unspent, NEW t \in Turns, Moved(t), UNCHANGED stored
  PROVE  LineStep /\ Unspent'
<1>1. LineStep
  BY MoveIsLineStep DEF Moved
<1>2. \A other \in Turns : other # t => turn'[other] = turn[other]
  BY DEF Moved, TurnsTypeOK
<1> QED
  BY <1>1, <1>2 DEF Moved, Unspent, Kept

LEMMA TryClaimIsLineStep ==
  ASSUME TurnsTypeOK, ClaimIsHeld, Unspent, NEW t \in Turns, TryClaim(t)
  PROVE  LineStep /\ Unspent'
<1>1. TurnGoes(t, "claimed") /\ turn[t].at = "read" /\ active = NoTurn /\ UNCHANGED stored
  BY DEF TryClaim, At, messages
<1>2. /\ turn' = [turn EXCEPT ![t] = turn'[t]]
      /\ turn'[t].at = "claimed" /\ Kept(turn[t], turn'[t])
  BY <1>1, GoesKeeps
<1>3. t \notin stored /\ turn[t].replayed = FALSE /\ turn[t].continued = 0
  BY <1>1 DEF Unspent, Early, TurnsTypeOK, TurnState
<1>4. Asked[t] = Line!Fresh("open")
  BY <1>1, <1>3, Parts DEF Asked, Line!Fresh
<1>5. Asked' = [Asked EXCEPT ![t] = Line!Fresh("ready")]
  <2>1. turn'[t].replayed = FALSE /\ turn'[t].continued = 0 /\ Part(turn'[t].at) = "ready"
    BY <1>2, <1>3, Parts DEF Kept
  <2> QED
    BY <1>2, <2>1, AskedMoves DEF Line!Fresh
<1>6. \A u \in Turns : ~Line!HasTurn(u)
  <2> SUFFICES ASSUME NEW u \in Turns PROVE Part(turn[u].at) \notin {"ready", "talking", "silent"}
    BY DEF Line!HasTurn, Asked
  <2>1. turn[u].at \in TurnPlace \ Working
    BY <1>1, TurnsAssumption DEF ClaimIsHeld, TurnsTypeOK, TurnState
  <2> QED
    BY <2>1, Parts DEF TurnPlace, Working
<1>7. Line!Take(t)
  BY <1>1, <1>3, <1>4, <1>5, <1>6 DEF Line!Take, Line!Move, Line!Fresh
<1>8. LineStep
  BY <1>7 DEF LineStep, Line!Next
<1>9. \A other \in Turns : other # t => turn'[other] = turn[other]
  BY <1>2 DEF TurnsTypeOK
<1> QED
  BY <1>1, <1>2, <1>3, <1>8, <1>9 DEF Unspent, Kept

LEMMA StoreIsLineStep ==
  ASSUME TurnsTypeOK, Unspent, NEW t \in Turns, StoreMessage(t)
  PROVE  LineStep /\ Unspent'
<1>1. TurnGoes(t, "stored") /\ turn[t].at = "allowed" /\ stored' = stored \cup {t}
  BY DEF StoreMessage, At
<1>2. /\ turn' = [turn EXCEPT ![t] = turn'[t]]
      /\ turn'[t].at = "stored" /\ Kept(turn[t], turn'[t])
  BY <1>1, GoesKeeps
<1>3. t \notin stored /\ turn[t].replayed = FALSE /\ turn[t].continued = 0
  BY <1>1 DEF Unspent, Early, TurnsTypeOK, TurnState
<1>4. Asked[t] = Line!Fresh("ready")
  BY <1>1, <1>3, Parts DEF Asked, Line!Fresh
<1>5. Asked' = [Asked EXCEPT ![t] = Line!Fresh("ready")]
  <2>1. turn'[t].replayed = FALSE /\ turn'[t].continued = 0 /\ Part(turn'[t].at) = "ready"
    BY <1>2, <1>3, Parts DEF Kept
  <2> QED
    BY <1>2, <2>1, AskedMoves DEF Line!Fresh
<1>6. Asked' = Asked
  BY <1>4, <1>5 DEF Asked
<1>7. LineStep
  BY <1>1, <1>3, <1>4, <1>6 DEF LineStep, Line!Next, Line!Store
<1>8. \A other \in Turns : other # t => turn'[other] = turn[other]
  BY <1>2 DEF TurnsTypeOK
<1> QED
  BY <1>1, <1>2, <1>7, <1>8 DEF Unspent, Early

\* What does not move a turn does not move its request.
LEMMA StillIsLineStep ==
  ASSUME Unspent, UNCHANGED <<turn, stored>>
  PROVE  LineStep /\ Unspent'
BY DEF Unspent, LineStep, Line!vars, Asked

LEMMA NextIsLineStep ==
  ASSUME Inv, Unspent, [Next]_vars
  PROVE  LineStep /\ Unspent'
<1> USE DEF Inv
<1>1. ASSUME NEW t \in Turns, TurnStep(t) \/ AbortTurn(t) PROVE LineStep /\ Unspent'
  BY <1>1, ClaimMoves, AttemptMoves, EndMoves, MovedIsLineStep, TryClaimIsLineStep, StoreIsLineStep
  DEF TurnStep, ClaimStep
<1>2. CASE UnheardAnswer \/ (\E g \in Callers : BuildAgent(g)) \/ MarkShuttingDown \/ ClearTasks
           \/ ScanIdle \/ Reconfigure \/ UNCHANGED vars
  BY <1>2, StillIsLineStep
  DEF UnheardAnswer, BuildAgent, MarkShuttingDown, ClearTasks, ScanIdle, Reconfigure, messages, vars
<1>3. ASSUME NEW w \in Warmers, WarmerStep(w) PROVE LineStep /\ Unspent'
  BY <1>3, StillIsLineStep DEF WarmerStep, WarmReadRow, WarmAsk, WarmEnds, messages
<1>4. ASSUME NEW d \in Deleters, DeleterStep(d) \/ DropDeletion(d) PROVE LineStep /\ Unspent'
  BY <1>4, StillIsLineStep
  DEF DeleterStep, DeleteReadRow, MarkDeleting, DeleteHook, DeleteRow, DeleteFails, EndDeletion,
      DropDeletion, messages
<1>5. ASSUME NEW k \in Cancellers, CancellerStep(k) PROVE LineStep /\ Unspent'
  BY <1>5, StillIsLineStep
  DEF CancellerStep, CancelCheckTurn, CancelGetTask, MarkCancelling, CancelAgentFails, CancelAgentOk,
      DrainTimeout, DrainKill, messages
<1> QED
  BY <1>1, <1>2, <1>3, <1>4, <1>5 DEF Next

\* send_message and run_agent_turn keep the promise of ExclusiveTurns for any
\* requests, deletions, cancellations and bounds: no request has two turns or
\* shares one, stores its message twice, or talks to agents without end.
THEOREM TurnsAreInLine == Safety => TurnsInLine
<1>1. ASSUME Init PROVE Line!Init /\ Unspent
  <2>1. \A t \in Turns : turn[t].at = "idle" /\ turn[t].replayed = FALSE /\ turn[t].continued = 0
    BY <1>1 DEF Init, NewTurn
  <2>2. Asked = [t \in Turns |-> Line!Fresh("open")]
    BY <2>1, Parts DEF Asked, Line!Fresh
  <2>3. stored = {}
    BY <1>1 DEF Init
  <2> QED
    BY <2>1, <2>2, <2>3 DEF Line!Init, Unspent
<1>2. Inv /\ Unspent /\ [Next]_vars => [Line!Next]_(Line!vars) /\ Unspent'
  BY NextIsLineStep DEF LineStep
<1> QED
  BY <1>1, <1>2, InvAlways, PTL DEF Safety, TurnsInLine, Line!Spec

\* The conversations' agents: whatever interleaves with the turns, the task map
\* never names an agent that was killed, and a cell never has two factories
\* (task_manager.rs).
THEOREM ConversationKeepsTasks == Safety => [](MapAgentAlive /\ OneFactoryPerCell)
<1>1. Inv => MapAgentAlive /\ OneFactoryPerCell
  BY DEF Inv, TasksInv
<1> QED
  BY <1>1, InvAlways, PTL

================================================================================
