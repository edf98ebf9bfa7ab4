-------------------------- MODULE ConversationTurns --------------------------
(***************************************************************************)
(* The turns of one conversation: the claim that lets one turn run at a    *)
(* time, the deleting, cancelling and shutting-down flags beside it, the   *)
(* turn from send_message or run_agent_turn through the orchestrator to    *)
(* the release of its claim, and what runs against it: deletion, user      *)
(* cancellation, warmup, the idle scanner, evictions and shutdown.  Agents *)
(* come from the task manager, AgentTasks, whose callers are the turns and *)
(* the warmups.                                                            *)
(***************************************************************************)
EXTENDS AgentTasks

CONSTANTS UserTurns,         \* send_message requests
          TeamTurns,         \* run_agent_turn requests of the team adapter
          Warmers,           \* warmup requests
          Deleters,          \* delete requests
          Cancellers,        \* cancel requests
          NoTurn,
          MaxContinuations,  \* bound: MAX_CRON_CONTINUATIONS_PER_TURN
          MayShutDown,       \* the process may be told to stop
          MayReconfigure     \* update and set_config_option may evict the task

Turns == UserTurns \cup TeamTurns

ASSUME TurnsAssumption ==
  /\ UserTurns \cap TeamTurns = {} /\ Turns \cap Warmers = {}
  /\ Callers = Turns \cup Warmers
  /\ NoTurn \notin Turns
  /\ MaxContinuations \in Nat
  /\ MayShutDown \in BOOLEAN /\ MayReconfigure \in BOOLEAN

VARIABLES
  active,      \* active_turns: the turn whose claim is held
  deleting,    \* the conversation is in deleting_conversations
  cancelling,  \* the conversation is in cancelling_conversations
  shut,        \* shutting_down
  row,         \* the conversation has its row
  turn,        \* each turn's place and what its future remembers
  woken,       \* turns whose Notified has been woken
  stored,      \* user turns whose message is in the database
  accepted,    \* user turns whose request was, or will be, answered with Ok
  warmer,      \* each warmup's place
  deleter,     \* each deletion's place and its had_active_turn
  canceller    \* each cancellation's place and the turn it names

flags == <<active, deleting, cancelling, shut>>
messages == <<stored, accepted>>
others == <<warmer, deleter, canceller>>
vars == <<tasksVars, flags, row, turn, woken, messages, others>>

TurnPlace == {"idle", "again", "read", "listen", "listening", "waiting", "claimed", "allowed", "stored",
              "agent", "prompting", "failed", "replay", "evict", "ending", "notifying", "done"}
Lifecycles == {"Active", "Deleting", "Cancelling", "ShuttingDown"}
TurnState == [at : TurnPlace, life : Lifecycles, replayed : BOOLEAN, continued : 0..MaxContinuations]
NewTurn == [at |-> "idle", life |-> "Active", replayed |-> FALSE, continued |-> 0]
DeleterState == [at : {"idle", "read", "marked", "hooked", "refused", "deleted", "done", "lost"},
                 had : BOOLEAN]
CancellerState == [at : {"idle", "checked", "found", "marked", "draining", "killing", "done"},
                   turn : Turns \cup {NoTurn}]

TypeOK ==
  /\ TasksTypeOK
  /\ active \in Turns \cup {NoTurn}
  /\ deleting \in BOOLEAN /\ cancelling \in BOOLEAN /\ shut \in BOOLEAN /\ row \in BOOLEAN
  /\ turn \in [Turns -> TurnState]
  /\ woken \subseteq TeamTurns
  /\ stored \subseteq UserTurns /\ accepted \subseteq UserTurns
  /\ warmer \in [Warmers -> {"idle", "read", "asked", "done"}]
  /\ deleter \in [Deleters -> DeleterState]
  /\ canceller \in [Cancellers -> CancellerState]

Init ==
  /\ TasksInit
  /\ active = NoTurn
  /\ deleting = FALSE /\ cancelling = FALSE /\ shut = FALSE /\ row = TRUE
  /\ turn = [t \in Turns |-> NewTurn]
  /\ woken = {} /\ stored = {} /\ accepted = {}
  /\ warmer = [w \in Warmers |-> "idle"]
  /\ deleter = [d \in Deleters |-> [at |-> "idle", had |-> FALSE]]
  /\ canceller = [k \in Cancellers |-> [at |-> "idle", turn |-> NoTurn]]

\* lifecycle_for: shutdown before deletion before cancellation.
Lifecycle ==
  CASE shut -> "ShuttingDown"
    [] ~shut /\ deleting -> "Deleting"
    [] ~shut /\ ~deleting /\ cancelling -> "Cancelling"
    [] OTHER -> "Active"

At(t, place) == turn[t].at = place
TurnGoes(t, place) == turn' = [turn EXCEPT ![t].at = place]

(***************************************************************************)
(* The claim.                                                              *)
(***************************************************************************)
\* The request is refused when the row is gone or cannot be read, when its
\* runtime is a deprecated one, or when a user writes to a conversation that a
\* team owns.
ReadRow(t) ==
  /\ At(t, "idle") \/ At(t, "again")
  /\ TurnGoes(t, "done") \/ (row /\ TurnGoes(t, "read"))
  /\ UNCHANGED <<tasksVars, flags, row, woken, messages, others>>

\* A claim that does not look for the claim of another turn (mutant).
TryClaimUnchecked(t) ==
  /\ At(t, "read") /\ ~shut /\ ~deleting
  /\ active' = t
  /\ TurnGoes(t, "claimed")
  /\ UNCHANGED <<tasksVars, deleting, cancelling, shut, row, woken, messages, others>>

\* try_claim_turn succeeds; it does not look at the cancelling flag.
TryClaim(t) ==
  /\ At(t, "read") /\ ~shut /\ ~deleting
  /\ active = NoTurn
  /\ active' = t
  /\ TurnGoes(t, "claimed")
  /\ UNCHANGED <<tasksVars, deleting, cancelling, shut, row, woken, messages, others>>

\* Busy: the request fails, except that the team adapter waits when the reason
\* is a running turn.
ClaimRefused(t) ==
  /\ At(t, "read") /\ (shut \/ deleting \/ active # NoTurn)
  /\ TurnGoes(t, IF t \in TeamTurns /\ ~shut /\ ~deleting THEN "listen" ELSE "done")
  /\ UNCHANGED <<tasksVars, flags, row, woken, messages, others>>

\* wait_until_unclaimed creates its Notified before it looks at the claim.
Listen(t) ==
  /\ At(t, "listen")
  /\ TurnGoes(t, "listening")
  /\ UNCHANGED <<tasksVars, flags, row, woken, messages, others>>

CheckClaim(t) ==
  /\ At(t, "listening")
  /\ TurnGoes(t, IF active = NoTurn THEN "again" ELSE "waiting")
  /\ woken' = IF active = NoTurn THEN woken \ {t} ELSE woken
  /\ UNCHANGED <<tasksVars, flags, row, messages, others>>

WakeUp(t) ==
  /\ At(t, "waiting") /\ t \in woken
  /\ TurnGoes(t, "listen")
  /\ woken' = woken \ {t}
  /\ UNCHANGED <<tasksVars, flags, row, messages, others>>

(***************************************************************************)
(* send_message up to the hand-over to the orchestrator.  An insert fails  *)
(* when the row is gone (a foreign key), and may fail at any time.  A      *)
(* request whose client disconnects is dropped at an await of these steps, *)
(* and its claim with it: that is a failed insert, or failed options.      *)
(***************************************************************************)
AllowMessage(t) ==
  /\ t \in UserTurns /\ At(t, "claimed")
  /\ Lifecycle # "Cancelling"
  /\ TurnGoes(t, "allowed")
  /\ UNCHANGED <<tasksVars, flags, row, woken, messages, others>>

\* The conversation may have been marked as cancelling since.
StoreMessage(t) ==
  /\ t \in UserTurns /\ At(t, "allowed") /\ row
  /\ stored' = stored \cup {t} /\ accepted' = accepted \cup {t}
  /\ TurnGoes(t, "stored")
  /\ UNCHANGED <<tasksVars, flags, row, woken, others>>

\* While the conversation counts as cancelling the message is not written; the
\* turn ends at once and the request is answered with Ok.
SkipMessage(t) ==
  /\ t \in UserTurns /\ At(t, "claimed")
  /\ Lifecycle = "Cancelling"
  /\ accepted' = accepted \cup {t}
  /\ TurnGoes(t, "ending")
  /\ UNCHANGED <<tasksVars, flags, row, woken, stored, others>>

InsertFails(t) ==
  /\ t \in UserTurns /\ At(t, "allowed")
  /\ TurnGoes(t, "ending")
  /\ UNCHANGED <<tasksVars, flags, row, woken, messages, others>>

\* A team turn reports its start and stores nothing.
ReportStarted(t) ==
  /\ t \in TeamTurns /\ At(t, "claimed")
  /\ TurnGoes(t, "stored")
  /\ UNCHANGED <<tasksVars, flags, row, woken, messages, others>>

BuildOptionsFail(t) ==
  /\ At(t, "stored") /\ ~turn[t].replayed
  /\ TurnGoes(t, "ending")
  /\ UNCHANGED <<tasksVars, flags, row, woken, messages, others>>

(***************************************************************************)
(* run_attempt: the agent, the prompt and its continuations.               *)
(***************************************************************************)
AskAgent(t) ==
  /\ At(t, "stored")
  /\ EnterSlot(t)
  /\ TurnGoes(t, "agent")
  /\ UNCHANGED <<flags, row, woken, messages, others>>

BuildAgent(g) ==
  /\ RunFactory(g) \/ FactoryOk(g) \/ TakeBuilt(g)
  /\ UNCHANGED <<flags, row, turn, woken, messages, others>>

AgentBuildFails(t) ==
  /\ At(t, "agent") /\ FactoryErr(t)
  /\ TurnGoes(t, "ending")
  /\ UNCHANGED <<flags, row, woken, messages, others>>

PersistWorkspaceFails(t) ==
  /\ At(t, "agent") /\ LetGo(t)
  /\ TurnGoes(t, "ending")
  /\ UNCHANGED <<flags, row, woken, messages, others>>

\* The lifecycle is read before the prompt is sent, and used after the answer.
Prompt(t) ==
  /\ At(t, "agent") /\ SendPrompt(t)
  /\ turn' = [turn EXCEPT ![t].at = "prompting", ![t].life = Lifecycle]
  /\ UNCHANGED <<flags, row, woken, messages, others>>

\* Continuations without a limit (mutant).
AnswerContinuesAlways(t) ==
  /\ At(t, "prompting") /\ EmitTerminal(t) /\ UNCHANGED caller
  /\ turn[t].life = "Active"
  /\ turn' = [turn EXCEPT ![t].at = "agent", ![t].continued = @ + 1]
  /\ UNCHANGED <<flags, row, woken, messages, others>>

AnswerContinues(t) ==
  /\ At(t, "prompting") /\ EmitTerminal(t) /\ UNCHANGED caller
  /\ turn[t].life = "Active" /\ turn[t].continued < MaxContinuations
  /\ turn' = [turn EXCEPT ![t].at = "agent", ![t].continued = @ + 1]
  /\ UNCHANGED <<flags, row, woken, messages, others>>

AnswerFinishes(t) ==
  /\ At(t, "prompting") /\ EmitTerminal(t) /\ caller' = [caller EXCEPT ![t] = Away]
  /\ TurnGoes(t, "ending")
  /\ UNCHANGED <<flags, row, woken, messages, others>>

AnswerIsError(t) ==
  /\ At(t, "prompting") /\ EmitTerminal(t) /\ caller' = [caller EXCEPT ![t] = Away]
  /\ TurnGoes(t, "failed")
  /\ UNCHANGED <<flags, row, woken, messages, others>>

(***************************************************************************)
(* run_user_turn after an error: one replay with a new agent, or an        *)
(* eviction, or neither.  Whether the error is retryable is left open.     *)
(***************************************************************************)
ReplayOnce(t) ==
  /\ At(t, "failed") /\ Acp /\ Lifecycle = "Active" /\ ~turn[t].replayed
  /\ turn' = [turn EXCEPT ![t].at = "replay", ![t].replayed = TRUE, ![t].continued = 0]
  /\ UNCHANGED <<tasksVars, flags, row, woken, messages, others>>

KeepOrEvict(t) ==
  /\ At(t, "failed")
  /\ TurnGoes(t, IF Acp /\ Lifecycle \notin {"Deleting", "ShuttingDown"} THEN "evict" ELSE "ending")
  /\ UNCHANGED <<tasksVars, flags, row, woken, messages, others>>

\* An eviction that leaves the killed agent in the map (mutant).
EvictTaskKeepingEntry(t) ==
  /\ At(t, "replay") \/ At(t, "evict")
  /\ RemoveTaskKeepingEntry /\ UNCHANGED <<caller, scanner, clearing>>
  /\ TurnGoes(t, IF At(t, "replay") THEN "stored" ELSE "ending")
  /\ UNCHANGED <<flags, row, woken, messages, others>>

\* kill_and_wait of the conversation's task, which need not be the agent that
\* has failed.
EvictTask(t) ==
  /\ At(t, "replay") \/ At(t, "evict")
  /\ RemoveTask /\ UNCHANGED <<caller, scanner, clearing>>
  /\ TurnGoes(t, IF At(t, "replay") THEN "stored" ELSE "ending")
  /\ UNCHANGED <<flags, row, woken, messages, others>>

(***************************************************************************)
(* The release, also by Drop, and the wake-up of the waiters after it.     *)
(***************************************************************************)
\* Releases that forget the deleting flag, or the waiters (mutants).
ReleaseKeepingDeleting(t) ==
  /\ At(t, "ending")
  /\ active' = NoTurn /\ cancelling' = FALSE
  /\ TurnGoes(t, "notifying")
  /\ UNCHANGED <<tasksVars, deleting, shut, row, woken, messages, others>>
ReleaseSilently(t) ==
  /\ At(t, "ending")
  /\ active' = NoTurn /\ deleting' = FALSE /\ cancelling' = FALSE
  /\ TurnGoes(t, "done")
  /\ UNCHANGED <<tasksVars, shut, row, woken, messages, others>>

Release(t) ==
  /\ At(t, "ending")
  /\ active' = NoTurn /\ deleting' = FALSE /\ cancelling' = FALSE
  /\ TurnGoes(t, "notifying")
  /\ UNCHANGED <<tasksVars, shut, row, woken, messages, others>>

\* The event loop of a team agent is aborted in the middle of its turn: the
\* claim is dropped, a cell it was building stays empty, and an agent it was
\* listening to goes on.
AbortTurn(t) ==
  /\ t \in TeamTurns /\ turn[t].at \notin {"idle", "ending", "notifying", "done"}
  /\ cell' = [c \in Cells |-> IF Holds(t, "building") /\ c = Held(t) THEN "empty" ELSE cell[c]]
  /\ caller' = [caller EXCEPT ![t] = Away]
  /\ TurnGoes(t, IF active = t THEN "ending" ELSE "done")
  /\ woken' = woken \ {t}
  /\ UNCHANGED <<tasks, scanner, clearing, flags, row, messages, others>>

\* A turn of the team adapter that goes round its waiting loop again (mutant).
NotifyWaitersAndGoRound(t) ==
  /\ At(t, "notifying")
  /\ TurnGoes(t, IF t \in TeamTurns THEN "again" ELSE "done")
  /\ woken' = woken \cup {u \in TeamTurns : turn[u].at \in {"listening", "waiting"}}
  /\ UNCHANGED <<tasksVars, flags, row, messages, others>>

NotifyWaiters(t) ==
  /\ At(t, "notifying")
  /\ TurnGoes(t, "done")
  /\ woken' = woken \cup {u \in TeamTurns : turn[u].at \in {"listening", "waiting"}}
  /\ UNCHANGED <<tasksVars, flags, row, messages, others>>

(***************************************************************************)
(* warmup: the agent is built without a claim.  The request may be dropped *)
(* while it waits for the agent.                                           *)
(***************************************************************************)
WarmerGoes(w, place) == warmer' = [warmer EXCEPT ![w] = place]

WarmReadRow(w) ==
  /\ warmer[w] = "idle"
  /\ WarmerGoes(w, IF row THEN "read" ELSE "done")
  /\ UNCHANGED <<tasksVars, flags, row, turn, woken, messages, deleter, canceller>>

WarmAsk(w) ==
  /\ warmer[w] = "read" /\ EnterSlot(w)
  /\ WarmerGoes(w, "asked")
  /\ UNCHANGED <<flags, row, turn, woken, messages, deleter, canceller>>

WarmEnds(w) ==
  /\ warmer[w] = "asked" /\ (LetGo(w) \/ FactoryErr(w) \/ GiveUp(w))
  /\ WarmerGoes(w, "done")
  /\ UNCHANGED <<flags, row, turn, woken, messages, deleter, canceller>>

(***************************************************************************)
(* delete: the flag, the hook that kills the agent, the row, the flag.     *)
(***************************************************************************)
DeleterGoes(d, place) == deleter' = [deleter EXCEPT ![d].at = place]

DeleteReadRow(d) ==
  /\ deleter[d].at = "idle"
  /\ DeleterGoes(d, IF row THEN "read" ELSE "done")
  /\ UNCHANGED <<tasksVars, flags, row, turn, woken, messages, warmer, canceller>>

MarkDeleting(d) ==
  /\ deleter[d].at = "read"
  /\ deleting' = TRUE
  /\ deleter' = [deleter EXCEPT ![d] = [at |-> "marked", had |-> active # NoTurn]]
  /\ UNCHANGED <<tasksVars, active, cancelling, shut, row, turn, woken, messages, warmer, canceller>>

\* on_conversation_deleted of the task manager.
DeleteHook(d) ==
  /\ deleter[d].at = "marked"
  /\ RemoveTask /\ UNCHANGED <<caller, scanner, clearing>>
  /\ DeleterGoes(d, "hooked")
  /\ UNCHANGED <<flags, row, turn, woken, messages, warmer, canceller>>

DeleteRow(d) ==
  /\ deleter[d].at = "hooked" /\ row
  /\ row' = FALSE
  /\ DeleterGoes(d, "deleted")
  /\ UNCHANGED <<tasksVars, flags, turn, woken, messages, warmer, canceller>>

\* The repository reports an error, or that another request was faster.
DeleteFails(d) ==
  /\ deleter[d].at = "hooked"
  /\ DeleterGoes(d, "refused")
  /\ UNCHANGED <<tasksVars, flags, row, turn, woken, messages, warmer, canceller>>

\* A deletion that leaves its flag to the turn also when there is none, or when
\* it has failed (mutant).
EndDeletionLeavingFlag(d) ==
  /\ deleter[d].at \in {"refused", "deleted"}
  /\ deleting' = IF deleter[d].had THEN FALSE ELSE deleting
  /\ deleter' = [deleter EXCEPT ![d] = [at |-> "done", had |-> FALSE]]
  /\ UNCHANGED <<tasksVars, active, cancelling, shut, row, turn, woken, messages, warmer, canceller>>

\* The flag is cleared, unless a turn was active when it was set: then the
\* release of that turn has cleared it or will.
EndDeletion(d) ==
  /\ deleter[d].at \in {"refused", "deleted"}
  /\ deleting' = IF deleter[d].at = "refused" \/ ~deleter[d].had THEN FALSE ELSE deleting
  /\ deleter' = [deleter EXCEPT ![d] = [at |-> "done", had |-> FALSE]]
  /\ UNCHANGED <<tasksVars, active, cancelling, shut, row, turn, woken, messages, warmer, canceller>>

\* delete is awaited in the handler of its request: when the client disconnects
\* the future is dropped at an await, and nothing takes a flag it owes back.
DropDeletion(d) ==
  /\ deleter[d].at \in {"marked", "hooked", "refused", "deleted"}
  /\ deleter' = [deleter EXCEPT ![d] = [at |-> IF deleter[d].had THEN "done" ELSE "lost", had |-> FALSE]]
  /\ UNCHANGED <<tasksVars, flags, row, turn, woken, messages, warmer, canceller>>

(***************************************************************************)
(* cancel, and the task it leaves behind for an agent that does not stop.  *)
(***************************************************************************)
CancellerGoes(k, place) == canceller' = [canceller EXCEPT ![k].at = place]

\* The row was looked up before; the turn may be any that runs now.
CancelCheckTurn(k, t) ==
  /\ canceller[k].at = "idle" /\ active = t
  /\ canceller' = [canceller EXCEPT ![k] = [at |-> "checked", turn |-> t]]
  /\ UNCHANGED <<tasksVars, flags, row, turn, woken, messages, warmer, deleter>>

CancelGetTask(k) ==
  /\ canceller[k].at = "checked"
  /\ CancellerGoes(k, IF tasks # NoCell /\ cell[tasks] \in Built THEN "found" ELSE "done")
  /\ UNCHANGED <<tasksVars, flags, row, turn, woken, messages, warmer, deleter>>

\* mark_cancelling does not ask which turn is active now.
MarkCancelling(k) ==
  /\ canceller[k].at = "found"
  /\ cancelling' = TRUE
  /\ CancellerGoes(k, "marked")
  /\ UNCHANGED <<tasksVars, active, deleting, shut, row, turn, woken, messages, warmer, deleter>>

CancelAgentFails(k) ==
  /\ canceller[k].at = "marked"
  /\ cancelling' = FALSE
  /\ CancellerGoes(k, "done")
  /\ UNCHANGED <<tasksVars, active, deleting, shut, row, turn, woken, messages, warmer, deleter>>

CancelAgentOk(k) ==
  /\ canceller[k].at = "marked"
  /\ CancellerGoes(k, IF Acp THEN "draining" ELSE "done")
  /\ UNCHANGED <<tasksVars, flags, row, turn, woken, messages, warmer, deleter>>

DrainTimeout(k) ==
  /\ canceller[k].at = "draining"
  /\ CancellerGoes(k, IF active = canceller[k].turn /\ cancelling THEN "killing" ELSE "done")
  /\ UNCHANGED <<tasksVars, flags, row, turn, woken, messages, warmer, deleter>>

DrainKill(k) ==
  /\ canceller[k].at = "killing"
  /\ RemoveTask /\ UNCHANGED <<caller, scanner, clearing>>
  /\ CancellerGoes(k, "done")
  /\ UNCHANGED <<flags, row, turn, woken, messages, warmer, deleter>>

(***************************************************************************)
(* Shutdown, the idle scanner, and requests that evict the task.           *)
(***************************************************************************)
MarkShuttingDown ==
  /\ MayShutDown /\ ~shut
  /\ shut' = TRUE
  /\ UNCHANGED <<tasksVars, active, deleting, cancelling, row, turn, woken, messages, others>>

ClearTasks ==
  /\ shut /\ (ClearCollect \/ ClearKill)
  /\ UNCHANGED <<flags, row, turn, woken, messages, others>>

ScanIdle ==
  /\ CollectIdle \/ IdleKill
  /\ UNCHANGED <<flags, row, turn, woken, messages, others>>

Reconfigure ==
  /\ MayReconfigure /\ row /\ Kill
  /\ UNCHANGED <<flags, row, turn, woken, messages, others>>

ClaimStep(t) ==
  \/ ReadRow(t) \/ TryClaim(t) \/ ClaimRefused(t)
  \/ Listen(t) \/ CheckClaim(t) \/ WakeUp(t)

AttemptStep(t) ==
  \/ AllowMessage(t) \/ StoreMessage(t) \/ SkipMessage(t) \/ InsertFails(t) \/ ReportStarted(t) \/ BuildOptionsFail(t)
  \/ AskAgent(t) \/ AgentBuildFails(t) \/ PersistWorkspaceFails(t)
  \/ Prompt(t) \/ AnswerContinues(t) \/ AnswerFinishes(t) \/ AnswerIsError(t)
  \/ ReplayOnce(t) \/ KeepOrEvict(t) \/ EvictTask(t)

UnheardAnswer ==
  /\ \E c \in Cells : EmitUnheard(c)
  /\ UNCHANGED <<flags, row, turn, woken, messages, others>>

TurnStep(t) == ClaimStep(t) \/ AttemptStep(t) \/ Release(t) \/ NotifyWaiters(t)

WarmerStep(w) == WarmReadRow(w) \/ WarmAsk(w) \/ WarmEnds(w)

DeleterStep(d) ==
  \/ DeleteReadRow(d) \/ MarkDeleting(d) \/ DeleteHook(d)
  \/ DeleteRow(d) \/ DeleteFails(d) \/ EndDeletion(d)

CancellerStep(k) ==
  \/ \E t \in Turns : CancelCheckTurn(k, t)
  \/ CancelGetTask(k) \/ MarkCancelling(k) \/ CancelAgentFails(k) \/ CancelAgentOk(k)
  \/ DrainTimeout(k) \/ DrainKill(k)

Next ==
  \/ \E t \in Turns : TurnStep(t) \/ AbortTurn(t)
  \/ UnheardAnswer
  \/ \E g \in Callers : BuildAgent(g)
  \/ \E w \in Warmers : WarmerStep(w)
  \/ \E d \in Deleters : DeleterStep(d) \/ DropDeletion(d)
  \/ \E k \in Cancellers : CancellerStep(k)
  \/ MarkShuttingDown \/ ClearTasks \/ ScanIdle \/ Reconfigure

Safety == Init /\ [][Next]_vars

\* Requests, users and scanners come or stay away.  A turn that has begun goes
\* on: from its hand-over on it is a task of the async runtime, every call it
\* awaits returns, the agent's answer included, and where it is dropped before,
\* its claim is released.  A factory returns, and the permit of a cell is handed
\* to its waiters in turn.  A delete request goes on or is dropped.
Fairness ==
  /\ \A t \in Turns : WF_vars(~At(t, "idle") /\ TurnStep(t))
  /\ \A g \in Callers : /\ WF_vars(Holds(g, "building") /\ BuildAgent(g))
                         /\ SF_vars(Holds(g, "slot") /\ BuildAgent(g))
  /\ \A d \in Deleters : WF_vars(deleter[d].at # "idle" /\ (DeleterStep(d) \/ DropDeletion(d)))

Spec == Safety /\ Fairness
-----------------------------------------------------------------------------
Working == {"claimed", "allowed", "stored", "agent", "prompting", "failed", "replay", "evict", "ending"}

\* One turn of a conversation runs at a time, and the claim belongs to a turn that
\* will release it: nobody keeps a conversation busy after its turn has ended, on
\* any path through errors, refusals, replays, deletions and cancellations.
ClaimIsHeld == \A t \in Turns : active = t <=> turn[t].at \in Working

\* A conversation that counts as being deleted, and therefore refuses turns, has
\* somebody who will take the flag back: the active turn when it releases, or a
\* deletion under way that found no turn.  The one exception is such a deletion
\* whose request was dropped with its connection.
DeletingHandedOver ==
  deleting =>
    \/ active # NoTurn
    \/ \E d \in Deleters :
         deleter[d].at \in {"marked", "hooked", "refused", "deleted", "lost"} /\ ~deleter[d].had

\* wait_until_unclaimed does not sleep through a release: a team turn that waits
\* has been woken, or the conversation is claimed, or a release is about to notify.
NoLostWakeup ==
  \A t \in TeamTurns : At(t, "waiting") =>
    \/ t \in woken
    \/ active # NoTurn
    \/ \E u \in Turns : At(u, "notifying")

\* Turns, warmups, deletions, cancellations and evictions change agents and the
\* task map only as the operations of the task manager do, so that what holds of
\* the manager under arbitrary callers holds here.
UsesTaskManager == TasksSafety

\* What of a turn's place its request can tell.
Ready == {"claimed", "allowed", "stored", "agent", "replay"}
Silent == {"failed", "evict", "ending"}
Part(place) ==
  CASE place \in Ready -> "ready"
    [] place \in Silent -> "silent"
    [] place = "prompting" -> "talking"
    [] place \in {"notifying", "done"} -> "over"
    [] OTHER -> "open"

Asked == [t \in Turns |-> [at |-> Part(turn[t].at), replayed |-> turn[t].replayed,
                           continued |-> turn[t].continued]]

Line == INSTANCE ExclusiveTurns WITH Requests <- Turns, request <- Asked

\* The requests of a conversation get what ExclusiveTurns promises them: each is
\* refused or has one turn, alone, that stores its message once, talks to the agent
\* at most 2 * (1 + MaxContinuations) times and never comes back, however claims,
\* replays, continuations, aborts, deletions and cancellations interleave.
TurnsInLine == Line!Spec

\* Every request that has read its row gets an end: it is refused, or its turn
\* runs and releases the claim; a team turn retries until it has had its turn.
TurnsEnd == \A t \in Turns : At(t, "read") ~> At(t, "done")

\* The conversation does not stay "being deleted", unless a delete request that
\* found no turn has been dropped with its connection: one that found a turn may
\* be dropped as well, the release of that turn takes the flag back.
DeletingEnds == deleting ~> ~deleting \/ (\E d \in Deleters : deleter[d].at = "lost")

=============================================================================
