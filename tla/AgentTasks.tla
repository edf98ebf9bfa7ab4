----------------------------- MODULE AgentTasks -----------------------------
(***************************************************************************)
(* The task manager for one conversation: the entry of its map, the        *)
(* single-flight cells that callers of get_or_build_task share, the agents *)
(* the factory puts into them, and the three ways an entry is taken out:   *)
(* kill / kill_and_wait, the idle scanner, and clear at shutdown.  Callers *)
(* keep the agent they were given, whatever happens to the entry.          *)
(***************************************************************************)
EXTENDS Naturals

CONSTANTS Callers,   \* tasks that call get_or_build_task
          MaxCells,  \* bound: slots ever inserted into the map
          Acp        \* the agent type is Acp, the only one scanned for idleness

ASSUME TasksAssumption == MaxCells \in Nat /\ Acp \in BOOLEAN

VARIABLES
  tasks,    \* the cell in the map under the conversation, NoCell if none
  cell,     \* the content of each cell
  caller,   \* each caller's place in get_or_build_task and the slot it holds
  scanner,  \* the idle scanner: between ticks, or with a kill task spawned
  clearing  \* clear() at shutdown

tasksVars == <<tasks, cell, caller, scanner, clearing>>

Cells == 1..MaxCells
NoCell == 0

\* What an initialised cell holds: an agent with no status yet, with status
\* Running or Finished, or one the manager has killed.
Living == {"fresh", "running", "finished"}
Built == Living \cup {"killed"}
CellState == Built \cup {"unused", "empty", "building"}

CallerPlace == {"out", "slot", "building", "got"}
Caller == [at : CallerPlace, cell : Cells \cup {NoCell}]
Away == [at |-> "out", cell |-> NoCell]

TasksTypeOK ==
  /\ tasks \in Cells \cup {NoCell}
  /\ cell \in [Cells -> CellState]
  /\ caller \in [Callers -> Caller]
  /\ scanner \in {"waiting", "collected"}
  /\ clearing \in {"before", "collected", "done"}

TasksInit ==
  /\ tasks = NoCell
  /\ cell = [c \in Cells |-> "unused"]
  /\ caller = [g \in Callers |-> Away]
  /\ scanner = "waiting"
  /\ clearing = "before"

(***************************************************************************)
(* get_or_build_task.                                                      *)
(***************************************************************************)
Holds(g, place) == caller[g].at = place
Held(g) == caller[g].cell
Goes(g, place) == caller' = [caller EXCEPT ![g].at = place]

FindSlot(g) ==
  /\ tasks # NoCell
  /\ caller' = [caller EXCEPT ![g] = [at |-> "slot", cell |-> tasks]]
  /\ UNCHANGED <<tasks, cell>>

\* A slot inserted past the last one (mutant).
InsertSlotPastEnd(g) ==
  /\ tasks = NoCell
  /\ \E c \in 1..(MaxCells + 1) :
       /\ \A d \in 1..(c - 1) : cell[d] # "unused"
       /\ tasks' = c
       /\ cell' = [cell EXCEPT ![c] = "empty"]
       /\ caller' = [caller EXCEPT ![g] = [at |-> "slot", cell |-> c]]

InsertSlot(g) ==
  /\ tasks = NoCell
  /\ \E c \in Cells :
       /\ cell[c] = "unused" /\ \A d \in 1..(c - 1) : cell[d] # "unused"
       /\ tasks' = c
       /\ cell' = [cell EXCEPT ![c] = "empty"]
       /\ caller' = [caller EXCEPT ![g] = [at |-> "slot", cell |-> c]]

\* The entry of the map, created if it is missing.
EnterSlot(g) ==
  /\ Holds(g, "out")
  /\ FindSlot(g) \/ InsertSlot(g)
  /\ UNCHANGED <<scanner, clearing>>

\* A factory that starts beside the one that is running, and one whose failure
\* leaves the cell as if it still ran (mutants).
RunFactoryAlways(g) ==
  /\ Holds(g, "slot") /\ cell[Held(g)] \in {"empty", "building"}
  /\ cell' = [cell EXCEPT ![Held(g)] = "building"]
  /\ Goes(g, "building")
  /\ UNCHANGED <<tasks, scanner, clearing>>
FactoryErrKeepingPermit(g) ==
  /\ Holds(g, "building")
  /\ caller' = [caller EXCEPT ![g] = Away]
  /\ UNCHANGED <<tasks, cell, scanner, clearing>>

\* A waiter that builds only while its cell is still the one in the map (mutant).
RunFactoryInMap(g) ==
  /\ Holds(g, "slot") /\ cell[Held(g)] = "empty" /\ tasks = Held(g)
  /\ cell' = [cell EXCEPT ![Held(g)] = "building"]
  /\ Goes(g, "building")
  /\ UNCHANGED <<tasks, scanner, clearing>>

\* get_or_try_init: the caller that has the permit of the empty cell builds.
RunFactory(g) ==
  /\ Holds(g, "slot") /\ cell[Held(g)] = "empty"
  /\ cell' = [cell EXCEPT ![Held(g)] = "building"]
  /\ Goes(g, "building")
  /\ UNCHANGED <<tasks, scanner, clearing>>

FactoryOk(g) ==
  /\ Holds(g, "building")
  /\ cell' = [cell EXCEPT ![Held(g)] = "fresh"]
  /\ Goes(g, "got")
  /\ UNCHANGED <<tasks, scanner, clearing>>

\* Also what remains of a caller whose future is dropped while it builds.
FactoryErr(g) ==
  /\ Holds(g, "building")
  /\ cell' = [cell EXCEPT ![Held(g)] = "empty"]
  /\ caller' = [caller EXCEPT ![g] = Away]
  /\ UNCHANGED <<tasks, scanner, clearing>>

\* The future of a waiting caller is dropped.
GiveUp(g) ==
  /\ Holds(g, "slot")
  /\ caller' = [caller EXCEPT ![g] = Away]
  /\ UNCHANGED <<tasks, cell, scanner, clearing>>

TakeBuilt(g) ==
  /\ Holds(g, "slot") /\ cell[Held(g)] \in Built
  /\ Goes(g, "got")
  /\ UNCHANGED <<tasks, cell, scanner, clearing>>

(***************************************************************************)
(* The agent in a caller's hands (external, seen through its status).      *)
(***************************************************************************)
SetStatus(c, status) ==
  cell' = [cell EXCEPT ![c] = IF @ = "killed" THEN @ ELSE status]

SendPrompt(g) ==
  /\ Holds(g, "got")
  /\ SetStatus(Held(g), "running")
  /\ UNCHANGED <<tasks, caller, scanner, clearing>>

EmitTerminal(g) ==
  /\ Holds(g, "got") /\ cell[Held(g)] \in {"running", "killed"}
  /\ SetStatus(Held(g), "finished")
  /\ UNCHANGED <<tasks, scanner, clearing>>

\* The agent ends a prompt whose sender has gone.
EmitUnheard(c) ==
  /\ cell[c] = "running" /\ \A g \in Callers : ~(Holds(g, "got") /\ Held(g) = c)
  /\ SetStatus(c, "finished")
  /\ UNCHANGED <<tasks, caller, scanner, clearing>>

LetGo(g) ==
  /\ Holds(g, "got")
  /\ caller' = [caller EXCEPT ![g] = Away]
  /\ UNCHANGED <<tasks, cell, scanner, clearing>>

(***************************************************************************)
(* Removal.  kill finds nothing to kill in a cell that is being built.     *)
(***************************************************************************)
\* An agent that is killed and stays in the map (mutant).
RemoveTaskKeepingEntry ==
  /\ cell' = [c \in Cells |-> IF c = tasks /\ cell[c] \in Built THEN "killed" ELSE cell[c]]
  /\ UNCHANGED tasks

RemoveTask ==
  /\ tasks' = NoCell
  /\ cell' = [c \in Cells |-> IF c = tasks /\ cell[c] \in Built THEN "killed" ELSE cell[c]]

Kill ==
  /\ tasks # NoCell
  /\ RemoveTask /\ UNCHANGED <<caller, scanner, clearing>>

\* The idle scanner: collect_idle picks the conversation, and a task spawned
\* for it kills whatever agent is in the map when it runs.
CollectIdle ==
  /\ scanner = "waiting"
  /\ Acp /\ tasks # NoCell /\ cell[tasks] = "finished"
  /\ scanner' = "collected"
  /\ UNCHANGED <<tasks, cell, caller, clearing>>

IdleKill ==
  /\ scanner = "collected"
  /\ scanner' = "waiting"
  /\ RemoveTask /\ UNCHANGED <<caller, clearing>>

\* clear: the keys are read first, then removed one by one.
ClearCollect ==
  /\ clearing = "before"
  /\ clearing' = IF tasks = NoCell THEN "done" ELSE "collected"
  /\ UNCHANGED <<tasks, cell, caller, scanner>>

ClearKill ==
  /\ clearing = "collected"
  /\ clearing' = "done"
  /\ RemoveTask /\ UNCHANGED <<caller, scanner>>

CallerStep(g) ==
  \/ EnterSlot(g)
  \/ RunFactory(g) \/ FactoryOk(g) \/ FactoryErr(g) \/ GiveUp(g) \/ TakeBuilt(g)
  \/ SendPrompt(g) \/ LetGo(g)
  \/ EmitTerminal(g) /\ caller' \in {caller, [caller EXCEPT ![g] = Away]}

TasksNext ==
  \/ \E g \in Callers : CallerStep(g)
  \/ \E c \in Cells : EmitUnheard(c)
  \/ Kill \/ CollectIdle \/ IdleKill \/ ClearCollect \/ ClearKill

\* A factory returns; the permit of a cell goes to its waiters in their order,
\* so a caller that could be served again and again is served.
CallerFairness(g) ==
  /\ WF_tasksVars(FactoryOk(g) \/ FactoryErr(g))
  /\ SF_tasksVars(RunFactory(g) \/ TakeBuilt(g))

TasksSafety == TasksInit /\ [][TasksNext]_tasksVars
TasksSpec == TasksSafety /\ \A g \in Callers : CallerFairness(g)
-----------------------------------------------------------------------------
\* Whoever asks for the task of the conversation is never given one that the
\* manager itself has killed before the question: kill, kill_and_wait, clear and
\* the idle scanner take the entry out of the map before they kill.
MapAgentAlive == tasks # NoCell => cell[tasks] # "killed"

\* The factory runs at most once at a time for a cell, exactly while the cell
\* counts as being built, and whoever has left get_or_build_task with an agent
\* holds an initialised cell, also after kills and failed builds.
OneFactoryPerCell ==
  /\ \A g, h \in Callers :
       Holds(g, "building") /\ Holds(h, "building") /\ Held(g) = Held(h) => g = h
  /\ \A c \in Cells :
       cell[c] = "building" => \E g \in Callers : Holds(g, "building") /\ Held(g) = c
  /\ \A g \in Callers : Holds(g, "got") => cell[Held(g)] \in Built

CanReturn(g) == ENABLED <<FactoryOk(g) \/ FactoryErr(g)>>_tasksVars
CanBeServed(g) == ENABLED <<RunFactory(g) \/ TakeBuilt(g)>>_tasksVars

\* Nobody waits for nothing: a caller with a slot can build or take what its cell
\* holds, or a caller builds that very cell and its factory can return.  That is
\* so although the entry may be gone from the map, the cell be a second one
\* after a kill, and the caller that began to build it have failed or left.
WaitersCanMove ==
  \A g \in Callers : Holds(g, "slot") =>
    IF cell[Held(g)] = "building"
    THEN \E h \in Callers : Holds(h, "building") /\ Held(h) = Held(g) /\ CanReturn(h)
    ELSE CanBeServed(g)

\* A caller that waits for the cell of another one is served in the end: it gets
\* the agent, or builds it when the other factory has failed.
AskersAreServed ==
  \A g \in Callers : Holds(g, "slot") ~> ~Holds(g, "slot")

=============================================================================
