-------------------------- MODULE AgentTasksProofs --------------------------
(***************************************************************************)
(* Type correctness and the two safety invariants of AgentTasks, for any   *)
(* set of callers and any number of slots.  The inductive invariant adds   *)
(* what ties a caller's place to the cell it holds.                        *)
(***************************************************************************)
EXTENDS AgentTasks, TLAPS

Places ==
  /\ \A g \in Callers : Holds(g, "out") <=> Held(g) = NoCell
  /\ \A g \in Callers : Holds(g, "building") => cell[Held(g)] = "building"

TasksInv == TasksTypeOK /\ Places /\ MapAgentAlive /\ OneFactoryPerCell

USE DEF Cells, NoCell, Living, Built, CellState, CallerPlace, Caller, Away, Holds, Held

LEMMA TasksInitInv == TasksInit => TasksInv
  BY TasksAssumption DEF TasksInit, TasksInv, TasksTypeOK, Places, MapAgentAlive, OneFactoryPerCell

LEMMA EnterSlotInv ==
  ASSUME TasksInv, NEW g \in Callers, EnterSlot(g)
  PROVE  TasksInv'
<1>1. CASE FindSlot(g)
  BY <1>1, TasksAssumption
  DEF EnterSlot, FindSlot, TasksInv, TasksTypeOK, Places, MapAgentAlive, OneFactoryPerCell
<1>2. CASE InsertSlot(g)
  <2>1. PICK c \in Cells :
          /\ cell[c] = "unused" /\ tasks' = c
          /\ cell' = [cell EXCEPT ![c] = "empty"]
          /\ caller' = [caller EXCEPT ![g] = [at |-> "slot", cell |-> c]]
    BY <1>2 DEF InsertSlot
  <2>2. TasksTypeOK'
    BY <2>1, TasksAssumption DEF EnterSlot, TasksInv, TasksTypeOK
  <2>3. \A h \in Callers : Holds(h, "building") \/ Holds(h, "got") => Held(h) # c
    BY <2>1 DEF TasksInv, TasksTypeOK, Places, OneFactoryPerCell
  <2>4. \A h \in Callers : h # g => caller'[h] = caller[h]
    BY <2>1 DEF TasksInv, TasksTypeOK
  <2>5. caller'[g] = [at |-> "slot", cell |-> c]
    BY <2>1 DEF TasksInv, TasksTypeOK
  <2>6. \A d \in Cells : d # c => cell'[d] = cell[d]
    BY <2>1 DEF TasksInv, TasksTypeOK
  <2>7. cell'[c] = "empty"
    BY <2>1 DEF TasksInv, TasksTypeOK
  <2>8. \A h \in Callers : Held(h) \in Cells \cup {NoCell}
    BY DEF TasksInv, TasksTypeOK
  <2>9. Places'
    BY <2>1, <2>3, <2>4, <2>5, <2>6, <2>8 DEF TasksInv, Places
  <2>10. MapAgentAlive'
    BY <2>1, <2>7 DEF MapAgentAlive
  <2>11. OneFactoryPerCell'
    <3>1. \A h, i \in Callers : (Holds(h, "building") /\ Holds(i, "building") /\ Held(h) = Held(i))' => h = i
      BY <2>4, <2>5 DEF TasksInv, OneFactoryPerCell
    <3>2. \A d \in Cells : cell'[d] = "building" => \E h \in Callers : (Holds(h, "building") /\ Held(h) = d)'
      <4>1. SUFFICES ASSUME NEW d \in Cells, cell'[d] = "building"
                     PROVE  \E h \in Callers : (Holds(h, "building") /\ Held(h) = d)'
        OBVIOUS
      <4>2. d # c /\ cell[d] = "building"
        BY <4>1, <2>6, <2>7
      <4>3. PICK h \in Callers : Holds(h, "building") /\ Held(h) = d
        BY <4>2 DEF TasksInv, OneFactoryPerCell
      <4>4. h # g
        BY <4>3 DEF EnterSlot
      <4> QED BY <4>3, <4>4, <2>4
    <3>3. \A h \in Callers : Holds(h, "got")' => cell'[Held(h)'] \in Built
      <4>1. SUFFICES ASSUME NEW h \in Callers, Holds(h, "got")'
                     PROVE  cell'[Held(h)'] \in Built
        OBVIOUS
      <4>2. h # g /\ Holds(h, "got") /\ Held(h)' = Held(h)
        BY <4>1, <2>4, <2>5
      <4>3. Held(h) \in Cells
        BY <4>2, <2>8 DEF TasksInv, Places
      <4> QED BY <4>2, <4>3, <2>3, <2>6 DEF TasksInv, OneFactoryPerCell
    <3> QED BY <3>1, <3>2, <3>3 DEF OneFactoryPerCell
  <2> QED BY <2>2, <2>9, <2>10, <2>11 DEF TasksInv
<1> QED BY <1>1, <1>2 DEF EnterSlot

LEMMA RunFactoryInv ==
  ASSUME TasksInv, NEW g \in Callers, RunFactory(g)
  PROVE  TasksInv'
<1>1. TasksTypeOK'
  BY TasksAssumption DEF RunFactory, TasksInv, TasksTypeOK, Goes, SetStatus
<1>2. Places'
  BY TasksAssumption DEF RunFactory, TasksInv, TasksTypeOK, Places, Goes, SetStatus, OneFactoryPerCell
<1>3. MapAgentAlive'
  BY TasksAssumption DEF RunFactory, TasksInv, TasksTypeOK, Places, MapAgentAlive, Goes, SetStatus
<1>4. OneFactoryPerCell'
  BY TasksAssumption DEF RunFactory, TasksInv, TasksTypeOK, Places, OneFactoryPerCell, Goes, SetStatus
<1> QED BY <1>1, <1>2, <1>3, <1>4 DEF TasksInv

LEMMA FactoryOkInv ==
  ASSUME TasksInv, NEW g \in Callers, FactoryOk(g)
  PROVE  TasksInv'
<1>1. TasksTypeOK'
  BY TasksAssumption DEF FactoryOk, TasksInv, TasksTypeOK, Goes, SetStatus
<1>2. Places'
  BY TasksAssumption DEF FactoryOk, TasksInv, TasksTypeOK, Places, Goes, SetStatus, OneFactoryPerCell
<1>3. MapAgentAlive'
  BY TasksAssumption DEF FactoryOk, TasksInv, TasksTypeOK, Places, MapAgentAlive, Goes, SetStatus
<1>4. OneFactoryPerCell'
  BY TasksAssumption DEF FactoryOk, TasksInv, TasksTypeOK, Places, OneFactoryPerCell, Goes, SetStatus
<1> QED BY <1>1, <1>2, <1>3, <1>4 DEF TasksInv

LEMMA FactoryErrInv ==
  ASSUME TasksInv, NEW g \in Callers, FactoryErr(g)
  PROVE  TasksInv'
<1>1. TasksTypeOK'
  BY TasksAssumption DEF FactoryErr, TasksInv, TasksTypeOK, Goes, SetStatus
<1>2. Places'
  BY TasksAssumption DEF FactoryErr, TasksInv, TasksTypeOK, Places, Goes, SetStatus, OneFactoryPerCell
<1>3. MapAgentAlive'
  BY TasksAssumption DEF FactoryErr, TasksInv, TasksTypeOK, Places, MapAgentAlive, Goes, SetStatus
<1>4. OneFactoryPerCell'
  BY TasksAssumption DEF FactoryErr, TasksInv, TasksTypeOK, Places, OneFactoryPerCell, Goes, SetStatus
<1> QED BY <1>1, <1>2, <1>3, <1>4 DEF TasksInv

LEMMA GiveUpInv ==
  ASSUME TasksInv, NEW g \in Callers, GiveUp(g)
  PROVE  TasksInv'
<1>1. TasksTypeOK'
  BY TasksAssumption DEF GiveUp, TasksInv, TasksTypeOK, Goes, SetStatus
<1>2. Places'
  BY TasksAssumption DEF GiveUp, TasksInv, TasksTypeOK, Places, Goes, SetStatus, OneFactoryPerCell
<1>3. MapAgentAlive'
  BY TasksAssumption DEF GiveUp, TasksInv, TasksTypeOK, Places, MapAgentAlive, Goes, SetStatus
<1>4. OneFactoryPerCell'
  BY TasksAssumption DEF GiveUp, TasksInv, TasksTypeOK, Places, OneFactoryPerCell, Goes, SetStatus
<1> QED BY <1>1, <1>2, <1>3, <1>4 DEF TasksInv

LEMMA TakeBuiltInv ==
  ASSUME TasksInv, NEW g \in Callers, TakeBuilt(g)
  PROVE  TasksInv'
<1>1. TasksTypeOK'
  BY TasksAssumption DEF TakeBuilt, TasksInv, TasksTypeOK, Goes, SetStatus
<1>2. Places'
  BY TasksAssumption DEF TakeBuilt, TasksInv, TasksTypeOK, Places, Goes, SetStatus, OneFactoryPerCell
<1>3. MapAgentAlive'
  BY TasksAssumption DEF TakeBuilt, TasksInv, TasksTypeOK, Places, MapAgentAlive, Goes, SetStatus
<1>4. OneFactoryPerCell'
  BY TasksAssumption DEF TakeBuilt, TasksInv, TasksTypeOK, Places, OneFactoryPerCell, Goes, SetStatus
<1> QED BY <1>1, <1>2, <1>3, <1>4 DEF TasksInv

LEMMA SendPromptInv ==
  ASSUME TasksInv, NEW g \in Callers, SendPrompt(g)
  PROVE  TasksInv'
<1>1. TasksTypeOK'
  BY TasksAssumption DEF SendPrompt, TasksInv, TasksTypeOK, Goes, SetStatus
<1>2. Places'
  BY TasksAssumption DEF SendPrompt, TasksInv, TasksTypeOK, Places, Goes, SetStatus, OneFactoryPerCell
<1>3. MapAgentAlive'
  BY TasksAssumption DEF SendPrompt, TasksInv, TasksTypeOK, Places, MapAgentAlive, Goes, SetStatus
<1>4. OneFactoryPerCell'
  BY TasksAssumption DEF SendPrompt, TasksInv, TasksTypeOK, Places, OneFactoryPerCell, Goes, SetStatus
<1> QED BY <1>1, <1>2, <1>3, <1>4 DEF TasksInv

LEMMA LetGoInv ==
  ASSUME TasksInv, NEW g \in Callers, LetGo(g)
  PROVE  TasksInv'
<1>1. TasksTypeOK'
  BY TasksAssumption DEF LetGo, TasksInv, TasksTypeOK, Goes, SetStatus
<1>2. Places'
  BY TasksAssumption DEF LetGo, TasksInv, TasksTypeOK, Places, Goes, SetStatus, OneFactoryPerCell
<1>3. MapAgentAlive'
  BY TasksAssumption DEF LetGo, TasksInv, TasksTypeOK, Places, MapAgentAlive, Goes, SetStatus
<1>4. OneFactoryPerCell'
  BY TasksAssumption DEF LetGo, TasksInv, TasksTypeOK, Places, OneFactoryPerCell, Goes, SetStatus
<1> QED BY <1>1, <1>2, <1>3, <1>4 DEF TasksInv

\* An agent's terminal event, heard or unheard by its sender.
LEMMA TerminalInv ==
  ASSUME TasksInv, NEW c \in Cells, cell[c] \in {"running", "killed"}, SetStatus(c, "finished"),
         UNCHANGED <<tasks, scanner, clearing>>,
         \/ UNCHANGED caller
         \/ \E g \in Callers : Holds(g, "got") /\ caller' = [caller EXCEPT ![g] = Away]
  PROVE  TasksInv'
<1>1. /\ cell' \in [Cells -> CellState]
      /\ \A d \in Cells : cell'[d] = cell[d] \/ (cell[d] \in Built /\ cell'[d] = "finished")
  BY DEF SetStatus, TasksInv, TasksTypeOK
<1>2. CASE UNCHANGED caller
  BY <1>1, <1>2, TasksAssumption DEF TasksInv, TasksTypeOK, Places, MapAgentAlive, OneFactoryPerCell
<1>3. ASSUME NEW g \in Callers, Holds(g, "got"), caller' = [caller EXCEPT ![g] = Away]
      PROVE  TasksInv'
  <2>1. /\ caller' \in [Callers -> Caller] /\ caller'[g] = Away
        /\ \A h \in Callers : h # g => caller'[h] = caller[h]
    BY <1>3 DEF TasksInv, TasksTypeOK
  <2>2. TasksTypeOK' /\ MapAgentAlive'
    BY <1>1, <2>1, TasksAssumption DEF TasksInv, TasksTypeOK, MapAgentAlive
  <2>3. Places'
    BY <1>1, <1>3, <2>1, TasksAssumption DEF TasksInv, TasksTypeOK, Places
  <2>4. OneFactoryPerCell'
    BY <1>1, <1>3, <2>1, TasksAssumption DEF TasksInv, TasksTypeOK, Places, OneFactoryPerCell
  <2> QED BY <2>2, <2>3, <2>4 DEF TasksInv
<1> QED BY <1>2, <1>3

\* Every way of taking the entry out of the map.
LEMMA RemovalInv ==
  ASSUME TasksInv, RemoveTask, UNCHANGED caller,
         scanner' \in {"waiting", "collected"}, clearing' \in {"before", "collected", "done"}
  PROVE  TasksInv'
<1>1. /\ cell' \in [Cells -> CellState]
      /\ \A d \in Cells : cell'[d] = cell[d] \/ (cell[d] \in Built /\ cell'[d] = "killed")
  BY DEF RemoveTask, TasksInv, TasksTypeOK
<1> QED BY <1>1, TasksAssumption DEF RemoveTask, TasksInv, TasksTypeOK, Places, MapAgentAlive, OneFactoryPerCell

\* Steps that leave map, cells and callers alone.
LEMMA UnchangedInv ==
  ASSUME TasksInv, UNCHANGED <<tasks, cell, caller>>,
         scanner' \in {"waiting", "collected"}, clearing' \in {"before", "collected", "done"}
  PROVE  TasksInv'
BY DEF TasksInv, TasksTypeOK, Places, MapAgentAlive, OneFactoryPerCell

LEMMA TasksNextInv ==
  ASSUME TasksInv, [TasksNext]_tasksVars
  PROVE  TasksInv'
<1> USE DEF TasksInv, TasksTypeOK
<1>1. ASSUME NEW g \in Callers, CallerStep(g)
      PROVE  TasksInv'
  <2>1. CASE EmitTerminal(g) /\ caller' \in {caller, [caller EXCEPT ![g] = Away]}
    <3>1. Held(g) \in Cells
      BY <2>1 DEF EmitTerminal, Places
    <3> QED BY <2>1, <3>1, TerminalInv DEF EmitTerminal
  <2> QED BY <1>1, <2>1, EnterSlotInv, RunFactoryInv, FactoryOkInv, FactoryErrInv, GiveUpInv, TakeBuiltInv,
             SendPromptInv, LetGoInv DEF CallerStep
<1>2. ASSUME NEW c \in Cells, EmitUnheard(c)
      PROVE  TasksInv'
  BY <1>2, TerminalInv DEF EmitUnheard
<1>3. CASE Kill
  BY <1>3, RemovalInv DEF Kill
<1>4. CASE CollectIdle
  BY <1>4, UnchangedInv DEF CollectIdle
<1>5. CASE IdleKill
  BY <1>5, RemovalInv DEF IdleKill
<1>6. CASE ClearCollect
  BY <1>6, UnchangedInv DEF ClearCollect
<1>7. CASE ClearKill
  BY <1>7, RemovalInv DEF ClearKill
<1>8. CASE UNCHANGED tasksVars
  BY <1>8, UnchangedInv DEF tasksVars
<1> QED BY <1>1, <1>2, <1>3, <1>4, <1>5, <1>6, <1>7, <1>8 DEF TasksNext

\* The state of the task manager is always well formed.
THEOREM TasksTypeCorrect == TasksSafety => []TasksTypeOK
<1>1. TasksInv => TasksTypeOK
  BY DEF TasksInv
<1> QED BY <1>1, TasksInitInv, TasksNextInv, PTL DEF TasksSafety

\* The agent in the map is never one that was killed: every removal takes the
\* entry out before it kills.
THEOREM MapHoldsNoKilledAgent == TasksSafety => []MapAgentAlive
<1>1. TasksInv => MapAgentAlive
  BY DEF TasksInv
<1> QED BY <1>1, TasksInitInv, TasksNextInv, PTL DEF TasksSafety

\* Single flight: one factory at a time for a cell, whoever kills meanwhile.
THEOREM SingleFlight == TasksSafety => []OneFactoryPerCell
<1>1. TasksInv => OneFactoryPerCell
  BY DEF TasksInv
<1> QED BY <1>1, TasksInitInv, TasksNextInv, PTL DEF TasksSafety

-----------------------------------------------------------------------------
(* Every caller that waits for a cell is served.  Enabledness is out of    *)
(* the prover's reach: it enters as the hypothesis WaitersCanMove, an      *)
(* invariant the model checker checks.                                     *)

CallersFair == \A g \in Callers : CallerFairness(g)
Safe == TasksInv /\ WaitersCanMove
Behaviour == [][TasksNext]_tasksVars /\ []Safe /\ []CallersFair

Waits(g) == Holds(g, "slot")
CellReady(g) == Waits(g) /\ cell[Held(g)] # "building"
Builds(h, g) == Waits(g) /\ Holds(h, "building") /\ Held(h) = Held(g)

\* While g waits for its cell, only h ends the building h has begun.
LEMMA BuildingStays ==
  ASSUME TasksInv, [TasksNext]_tasksVars, NEW g \in Callers, NEW h \in Callers,
         Builds(h, g), Waits(g)'
  PROVE  \/ Builds(h, g)'
         \/ FactoryOk(h) \/ FactoryErr(h)
<1> USE DEF Builds, Waits, TasksInv, TasksTypeOK
<1> SUFFICES ASSUME ~(FactoryOk(h) \/ FactoryErr(h)) PROVE Builds(h, g)'
  OBVIOUS
<1>0. g # h
  OBVIOUS
<1>1. ASSUME NEW k \in Callers, CallerStep(k) PROVE Builds(h, g)'
  <2>1. CASE EnterSlot(k)
    BY <2>1 DEF EnterSlot, FindSlot, InsertSlot
  <2>2. CASE RunFactory(k)
    BY <2>2, TasksAssumption DEF RunFactory, Goes, Places
  <2>3. CASE FactoryOk(k) \/ FactoryErr(k)
    <3>1. k # h /\ k # g
      BY <2>3 DEF FactoryOk, FactoryErr
    <3> QED
      BY <2>3, <3>1 DEF FactoryOk, FactoryErr, Goes
  <2>4. CASE GiveUp(k) \/ TakeBuilt(k)
    BY <2>4 DEF GiveUp, TakeBuilt, Goes
  <2>5. CASE SendPrompt(k) \/ LetGo(k)
    BY <2>5 DEF SendPrompt, LetGo
  <2>6. CASE EmitTerminal(k) /\ caller' \in {caller, [caller EXCEPT ![k] = Away]}
    BY <2>6 DEF EmitTerminal
  <2> QED
    BY <1>1, <2>1, <2>2, <2>3, <2>4, <2>5, <2>6 DEF CallerStep
<1>2. CASE UNCHANGED caller
  BY <1>2
<1> QED
  BY <1>1, <1>2 DEF TasksNext, tasksVars, EmitUnheard, Kill, CollectIdle, IdleKill, ClearCollect, ClearKill

\* A factory that returns leaves a cell that its waiters can have.
LEMMA FactoryLeaves ==
  ASSUME TasksInv, NEW g \in Callers, NEW h \in Callers, Builds(h, g), Waits(g)',
         FactoryOk(h) \/ FactoryErr(h)
  PROVE  CellReady(g)'
<1> USE DEF Builds, Waits, CellReady, TasksInv, TasksTypeOK
<1>1. g # h /\ Held(g) \in Cells /\ Held(g)' = Held(g)
  BY TasksAssumption DEF FactoryOk, FactoryErr, Goes, Places
<1> QED
  BY <1>1 DEF FactoryOk, FactoryErr

LEMMA BuildingEnds ==
  ASSUME NEW g \in Callers, NEW h \in Callers
  PROVE  Behaviour => (Builds(h, g) => <>(CellReady(g) \/ ~Waits(g)))
<1> DEFINE P == Builds(h, g)
           Q == CellReady(g) \/ ~Waits(g)
<1>1. P /\ Safe /\ [TasksNext]_tasksVars => P' \/ Q'
  BY BuildingStays, FactoryLeaves DEF Safe
<1>2. P /\ Safe /\ <<FactoryOk(h) \/ FactoryErr(h)>>_tasksVars => Q'
  BY FactoryLeaves DEF Safe
<1>3. Safe => (P => CanReturn(h))
  <2> SUFFICES ASSUME Safe, P PROVE CanReturn(h)
    OBVIOUS
  <2>1. cell[Held(g)] = "building"
    BY DEF Safe, TasksInv, Places, Builds
  <2>2. PICK k \in Callers : Holds(k, "building") /\ Held(k) = Held(g) /\ CanReturn(k)
    BY <2>1 DEF Safe, WaitersCanMove, Builds, Waits
  <2>3. k = h
    BY <2>2 DEF Safe, TasksInv, OneFactoryPerCell, Builds
  <2> QED
    BY <2>2, <2>3
<1>4. CallersFair => CallerFairness(h)
  BY DEF CallersFair
<1> HIDE DEF P, Q
<1>5. Behaviour => (P => <>Q)
  BY <1>1, <1>2, <1>3, <1>4, PTL DEF Behaviour, CallerFairness, CanReturn
<1> QED
  BY <1>5 DEF P, Q

\* A waiter whose cell nobody builds keeps waiting or moves.
LEMMA MovesOn ==
  ASSUME NEW g \in Callers
  PROVE  Waits(g) /\ <<RunFactory(g) \/ TakeBuilt(g)>>_tasksVars /\ Safe => ~Waits(g)'
BY DEF Safe, TasksInv, TasksTypeOK, Waits, RunFactory, TakeBuilt, Goes

\* A caller that waits is served, for any number of callers and slots, whatever
\* is killed and however many factories fail, if factories return and the
\* permits are fair (CallerFairness, which is asked of every suffix: weak and
\* strong fairness say nothing about any prefix).
THEOREM WaitersAreServed ==
  TasksSafety /\ []CallersFair /\ []WaitersCanMove => AskersAreServed
<1>1. TasksSafety /\ []CallersFair /\ []WaitersCanMove => Behaviour
  BY TasksInitInv, TasksNextInv, PTL DEF TasksSafety, Safe, Behaviour
<1>2. ASSUME NEW g \in Callers PROVE Behaviour => (Waits(g) ~> ~Waits(g))
  <2>1. Behaviour => ((\E h \in Callers : Builds(h, g)) => <>(CellReady(g) \/ ~Waits(g)))
    BY BuildingEnds
  <2> DEFINE BeingBuilt == \E h \in Callers : Builds(h, g)
  <2>2. Safe => (Waits(g) => CellReady(g) \/ BeingBuilt)
    BY DEF Safe, WaitersCanMove, CellReady, Builds, Waits
  <2>3. Safe => (CellReady(g) => CanBeServed(g))
    BY DEF Safe, WaitersCanMove, CellReady, Waits
  <2>4. CallersFair => CallerFairness(g)
    BY DEF CallersFair
  <2>5. Waits(g) /\ <<RunFactory(g) \/ TakeBuilt(g)>>_tasksVars /\ Safe => ~Waits(g)'
    BY MovesOn
  <2>6. Behaviour => (BeingBuilt => <>(CellReady(g) \/ ~Waits(g)))
    BY <2>1
  <2>7. CellReady(g) => Waits(g)
    BY DEF CellReady
  <2> HIDE DEF BeingBuilt
  <2> QED
    BY <2>2, <2>3, <2>4, <2>5, <2>6, <2>7, PTL
    DEF Behaviour, CallerFairness, CanBeServed
<1>3. ASSUME NEW g \in Callers
      PROVE  Behaviour => (Holds(g, "slot") ~> ~Holds(g, "slot"))
  BY <1>2 DEF Waits
<1> QED
  BY <1>1, <1>3 DEF AskersAreServed

=============================================================================
