---------------------------- MODULE TeamSession ----------------------------
(***************************************************************************)
(* TeamRun with what lies around the run manager: the mailboxes, the       *)
(* Notify of each event loop, the snapshot of the mailbox a loop carries   *)
(* through a turn, and the one recovery scan of a session.  Every step is  *)
(* a step of TeamRun together with what happens to the mail, or a step     *)
(* that leaves the run manager alone; so what is proved about TeamRun      *)
(* holds here.                                                             *)
(*                                                                         *)
(* A behaviour is one life of a session.  It may begin with unread mail    *)
(* that an earlier life, ended by a stop or a crash, has left behind.      *)
(*                                                                         *)
(* Only who owns a message matters, not its text.  The idle notifications  *)
(* of teammates carry no promise, so all of them are one message, Note.    *)
(***************************************************************************)
EXTENDS TeamRun

CONSTANTS
  Note,       \* the idle notifications in the mailbox of the leader
  Backlog,    \* messages an earlier life may have left unread
  MaxFaults   \* bound: calls of the mailbox that fail, stop requests dropped

ASSUME SessionAssumption ==
  Note \notin Msgs \cup {NoMsg} /\ Backlog \subseteq Msgs /\ MaxFaults \in Nat

VARIABLES
  unread,     \* per slot: the mailbox rows that are not marked read
  written,    \* messages that have been written
  letters,    \* per lease of a requester: the message written under it
  place,      \* per slot: where its event loop is
  permit,     \* per slot: the permit of its Notify
  input,      \* per slot: the unread messages the loop has in hand
  scan,       \* the recovery scan: slots to look at, and slots found with mail
  drain,      \* per stop request: the mailboxes read, and the rows to mark read
  faults,     \* calls of the mailbox that have failed, stop requests dropped
  accepted,   \* history: messages whose wake has been committed
  delivered,  \* history: messages handed to an agent
  discarded,  \* history: messages a cancellation has marked read
  passed      \* history: slots whose loop had mail in hand and passed it by, because
              \* the message of the intervention in front was not among it

mailVars == <<unread, written, letters>>
loopVars == <<place, permit, input>>
asideVars == <<scan, drain>>
history == <<accepted, delivered, discarded, passed>>
sessionVars == <<mailVars, loopVars, asideVars, faults, history>>
allVars == <<vars, sessionVars>>

Mail == Msgs \cup {Note}
Place == {"waiting", "looking", "read", "turn", "marked", "told"}
Scan == [left : SUBSET Slots, found : SUBSET Slots]
Drain == [read : SUBSET Slots, mail : SUBSET Mail, marked : BOOLEAN]

SessionTypeOK ==
  /\ unread \in [Slots -> SUBSET Mail]
  /\ written \subseteq Msgs
  /\ letters \in [LeaseIds -> Msgs \cup {NoMsg}]
  /\ place \in [Slots -> Place]
  /\ permit \in [Slots -> BOOLEAN]
  /\ input \in [Slots -> SUBSET Mail]
  /\ scan \in Scan
  /\ drain \in [Stoppers -> Drain]
  /\ faults \in 0..MaxFaults
  /\ accepted \subseteq Msgs /\ delivered \subseteq Mail /\ discarded \subseteq Mail
  /\ passed \subseteq Slots

NoScan == [left |-> {}, found |-> {}]
NoDrain == [read |-> {}, mail |-> {}, marked |-> FALSE]

SessionInit ==
  /\ Init
  /\ \E owner \in [Backlog -> Slots] : \E left \in SUBSET Backlog :
       /\ unread = [s \in Slots |-> {m \in left : owner[m] = s}]
       /\ written = left
  /\ letters = [id \in LeaseIds |-> NoMsg]
  /\ place = [s \in Slots |-> "waiting"]
  /\ permit = [s \in Slots |-> FALSE]
  /\ input = [s \in Slots |-> {}]
  /\ scan = [NoScan EXCEPT !.left = Loops]
  /\ drain = [p \in Stoppers |-> NoDrain]
  /\ faults = 0
  /\ accepted = {} /\ delivered = {} /\ discarded = {} /\ passed = {}

-----------------------------------------------------------------------------
At(s, p) == place[s] = p
Goes(s, p) == place' = [place EXCEPT ![s] = p]

\* A notification that is lost on a loop that does not wait (mutant).
NotifyWaiting(targets) ==
  permit' = [s \in Slots |-> permit[s] \/ (s \in targets \cap Loops /\ At(s, "waiting"))]

\* EventLoopRegistry::notify: notify_one, for a slot with a registered loop.
Notify(targets) == permit' = [s \in Slots |-> permit[s] \/ s \in targets \cap Loops]

\* A call of the mailbox fails.
Fault == faults < MaxFaults /\ faults' = faults + 1

-----------------------------------------------------------------------------
(* Requesters: send_message, send_message_to_agent, team_send_message.     *)

Ask ==
  /\ \E s \in Slots, id \in LeaseIds :
       \/ AcquireIntervention(s, id) \/ AcquireNewRun(s, id)
       \/ \E source \in Sources : AcquireScoped(s, source, id)
  /\ UNCHANGED sessionVars

Unwritten(l) == l \in calls /\ l.id \in LeaseIds /\ letters[l.id] = NoMsg

WriteLetter(l) ==
  LET m == CHOOSE n \in Msgs \ written : TRUE IN
  /\ Unwritten(l) /\ written # Msgs
  /\ unread' = [unread EXCEPT ![l.slot] = @ \cup {m}]
  /\ written' = written \cup {m}
  /\ letters' = [letters EXCEPT ![l.id] = m]
  /\ UNCHANGED <<vars, loopVars, asideVars, faults, history>>

\* The write fails.  Bound: it also does when all of Msgs have been written.
DropLetter(l) ==
  /\ Unwritten(l) /\ AbortLease(l)
  /\ IF written = Msgs THEN UNCHANGED faults ELSE Fault
  /\ UNCHANGED <<mailVars, loopVars, asideVars, history>>

\* The wake is committed with the id of the message, and the loop notified;
\* or the caller gets an error for a message that has been written.
CommitLetter(l) ==
  LET m == letters[l.id] IN
  /\ l \in calls /\ l.id \in LeaseIds /\ m # NoMsg
  /\ CommitLease(l, m)
  /\ letters' = [letters EXCEPT ![l.id] = NoMsg]
  /\ IF IsActive(run) /\ l \in run.leases
     THEN accepted' = accepted \cup {m} /\ Notify({l.slot})
     ELSE UNCHANGED <<accepted, permit>>
  /\ UNCHANGED <<unread, written, place, input, asideVars, faults, delivered, discarded, passed>>

-----------------------------------------------------------------------------
(* try_start_recovery_drain, once in the life of a session.                *)

\* It reads the mailboxes one by one; when a read fails it ends, and as its flag
\* is set there is no other.
FindBacklog ==
  /\ \E s \in scan.left :
       scan' = [left |-> scan.left \ {s},
                found |-> IF unread[s] = {} THEN scan.found ELSE scan.found \cup {s}]
  /\ UNCHANGED <<vars, mailVars, loopVars, drain, faults, history>>

ScanFails ==
  /\ scan.left # {} /\ Fault
  /\ scan' = NoScan
  /\ UNCHANGED <<vars, mailVars, loopVars, drain, history>>

RecoverFound ==
  /\ scan.left = {} /\ scan.found # {}
  /\ \/ /\ \E first \in Loops : RecoverBacklog(scan.found, first)
        /\ Notify({s \in scan.found : run'.pending[s] # run.pending[s]})
     \/ run.status = "Cancelling" /\ UNCHANGED <<vars, permit>>
  /\ scan' = NoScan
  /\ UNCHANGED <<mailVars, place, input, drain, faults, history>>

-----------------------------------------------------------------------------
(* The event loop: what it knows of the mailbox, step by step.             *)

\* notified() returns and takes the permit.
Notified(s) ==
  /\ At(s, "waiting") /\ permit[s]
  /\ permit' = [permit EXCEPT ![s] = FALSE]
  /\ Goes(s, "looking")
  /\ UNCHANGED <<vars, mailVars, input, asideVars, faults, history>>

\* compute_wake_input reads the mailbox first ...
ReadMailbox(s) ==
  /\ At(s, "looking")
  /\ input' = [input EXCEPT ![s] = unread[s]]
  /\ Goes(s, "read")
  /\ UNCHANGED <<vars, mailVars, permit, asideVars, faults, history>>

\* ... or fails to: the loop sleeps for a second and waits for the next signal.
ReadFails(s) ==
  /\ At(s, "looking") /\ Fault
  /\ Goes(s, "waiting")
  /\ UNCHANGED <<vars, mailVars, permit, input, asideVars, history>>

\* The wake's message is taken for the mailbox (mutant).
PeekNextByName(s) ==
  /\ At(s, "read") /\ PeekWake(s)
  /\ input' = [input EXCEPT ![s] = IF turns'[s].seen = NoWake THEN @ ELSE {turns'[s].seen.msg}]
  /\ UNCHANGED <<mailVars, place, permit, asideVars, faults, history>>

\* Then it asks for the next wake: an intervention takes its own message
\* only (the user's wakes name their message) ...
PeekNext(s) ==
  /\ At(s, "read") /\ PeekWake(s)
  /\ LET seen == turns'[s].seen IN
     /\ input' = [input EXCEPT ![s] = IF seen.source = "UserIntervention" THEN @ \cap {seen.msg} ELSE @]
     /\ passed' = IF input[s] # {} /\ input'[s] = {} THEN passed \cup {s} ELSE passed
  /\ UNCHANGED <<mailVars, place, permit, asideVars, faults, accepted, delivered, discarded>>

\* ... and then for the run.
NoteNext(s) ==
  /\ At(s, "read") /\ NoteRun(s)
  /\ UNCHANGED sessionVars

LeaveMail(s) ==
  /\ At(s, "read") /\ input[s] # {} /\ LeaveBacklog(s)
  /\ Goes(s, "waiting")
  /\ input' = [input EXCEPT ![s] = {}]
  /\ UNCHANGED <<mailVars, permit, asideVars, faults, history>>

\* Nothing to send ends the drain with one wake dropped: the mailbox was empty,
\* or what was in it has been passed by.
FindEmpty(s) ==
  /\ At(s, "read") /\ input[s] = {} /\ ObserveEmptyWake(s)
  /\ Goes(s, "waiting")
  /\ UNCHANGED <<mailVars, permit, input, asideVars, faults, history>>

Claim(s) ==
  /\ At(s, "read") /\ input[s] # {} /\ ClaimWake(s)
  /\ IF turns'[s].phase = "claimed"
     THEN Goes(s, "turn") /\ UNCHANGED input
     ELSE Goes(s, "waiting") /\ input' = [input EXCEPT ![s] = {}]
  /\ UNCHANGED <<mailVars, permit, asideVars, faults, history>>

\* The port refuses.  The port of the application waits for a conversation that
\* is busy, so its answer is never the "already running" of RetryStartLater.
Refused(s) ==
  /\ StartFails(s)
  /\ UNCHANGED sessionVars

\* The agent gets the messages with its prompt.
Prompt(s) ==
  /\ \E t \in TurnIds : StartTurn(s, t)
  /\ delivered' = delivered \cup input[s]
  /\ UNCHANGED <<mailVars, loopVars, asideVars, faults, accepted, discarded, passed>>

LateStart(s) ==
  /\ CancelLateStart(s) \/ FinishLateStart(s) \/ (At(s, "turn") /\ FailStarted(s))
  /\ UNCHANGED sessionVars

\* Everything that is unread is marked, as read_unread does (mutant).
MarkAllRead(s) ==
  /\ At(s, "turn") /\ turns[s].phase = "running"
  /\ unread' = [unread EXCEPT ![s] = {}]
  /\ UNCHANGED faults
  /\ Goes(s, "marked")
  /\ UNCHANGED <<vars, written, letters, permit, input, asideVars, history>>

\* The rows of the turn are not marked (mutant).
MarkNothing(s) ==
  /\ At(s, "turn") /\ turns[s].phase = "running"
  /\ Goes(s, "marked")
  /\ UNCHANGED <<vars, mailVars, permit, input, asideVars, faults, history>>

\* The port has answered with an outcome: mark_read_batch for the snapshot,
\* whose failure is ignored.
MarkRead(s) ==
  /\ At(s, "turn") /\ turns[s].phase = "running"
  /\ \/ unread' = [t \in Slots |-> unread[t] \ input[s]] /\ UNCHANGED faults
     \/ UNCHANGED unread /\ Fault
  /\ Goes(s, "marked")
  /\ UNCHANGED <<vars, written, letters, permit, input, asideVars, history>>

\* finalize_turn of the scheduler: a teammate tells the leader that it is idle.
TellLead(s) ==
  /\ At(s, "marked") \/ (At(s, "turn") /\ turns[s].phase = "failed")
  /\ \/ /\ unread' = [unread EXCEPT ![Lead] = IF s = Lead THEN @ ELSE @ \cup {Note}]
        /\ UNCHANGED faults
     \/ s # Lead /\ UNCHANGED unread /\ Fault
  /\ Goes(s, "told")
  /\ UNCHANGED <<vars, written, letters, permit, input, asideVars, history>>

WakeLead(s) ==
  /\ At(s, "told")
  /\ \/ AcquireWakeLead(s) /\ UNCHANGED permit
     \/ \E l \in calls : CommitWakeLead(s, l) /\ Notify(IF l \in run.leases THEN {Lead} ELSE {})
  /\ UNCHANGED <<mailVars, place, input, asideVars, faults, history>>

Complete(s) ==
  /\ At(s, "told")
  /\ (\E ok \in BOOLEAN : CompleteChild(s, ok)) \/ MaybeCompleteRun(s)
  /\ UNCHANGED sessionVars

\* A released wake notifies the loop itself, which looks again anyway.
GoRound(s) ==
  /\ At(s, "told") /\ ReleaseSuppressed(s)
  /\ Goes(s, "looking")
  /\ input' = [input EXCEPT ![s] = {}]
  /\ Notify(IF run'.pending[s] # run.pending[s] THEN {s} ELSE {})
  /\ UNCHANGED <<mailVars, asideVars, faults, history>>

-----------------------------------------------------------------------------
(* Stop requests.  cancel_run reads one mailbox after the other, marks what *)
(* it has found, and then lists the children.                              *)

ReadMail(p) ==
  /\ stops[p].phase = "cancelBegun" /\ ~drain[p].marked
  /\ \E s \in Slots \ drain[p].read :
       drain' = [drain EXCEPT ![p].read = @ \cup {s}, ![p].mail = @ \cup unread[s]]
  /\ UNCHANGED <<vars, mailVars, loopVars, scan, faults, history>>

DiscardMail(p) ==
  /\ stops[p].phase = "cancelBegun" /\ ~drain[p].marked /\ drain[p].read = Slots
  /\ unread' = [s \in Slots |-> unread[s] \ drain[p].mail]
  /\ discarded' = discarded \cup drain[p].mail
  /\ drain' = [drain EXCEPT ![p].marked = TRUE]
  /\ UNCHANGED <<vars, written, letters, loopVars, scan, faults, accepted, delivered, passed>>

SweepBegins(p) ==
  /\ drain[p].marked /\ ListChildren(p)
  /\ drain' = [drain EXCEPT ![p] = NoDrain]
  /\ UNCHANGED <<mailVars, loopVars, scan, faults, history>>

\* A read or the marking fails, and with it the request; so it does when the
\* leader's mailbox cannot be written to.
MailFails(p) ==
  /\ stops[p].phase \in {"notify", "notifyThenEnd"} \/ (stops[p].phase = "cancelBegun" /\ ~drain[p].marked)
  /\ EndStop(p) /\ Fault
  /\ drain' = [drain EXCEPT ![p] = NoDrain]
  /\ UNCHANGED <<mailVars, loopVars, scan, history>>

\* The client disconnects, and the handler is dropped at the await it is at.
DropStop(p) ==
  /\ EndStop(p) /\ Fault
  /\ drain' = [drain EXCEPT ![p] = NoDrain]
  /\ UNCHANGED <<mailVars, loopVars, scan, history>>

\* The cancellation port fails, which ends the requests that are not cancel_run.
PortFails(p) ==
  /\ stops[p].phase \in {"childCancel", "pauseCancel"} /\ EndStop(p)
  /\ UNCHANGED sessionVars

\* notify_leader_child_interrupted: an idle notification in the slot's name.
Notice(p) ==
  /\ WriteNotice(p)
  /\ unread' = [unread EXCEPT ![Lead] = @ \cup {Note}]
  /\ UNCHANGED <<written, letters, loopVars, asideVars, faults, history>>

\* The other steps of stop requests do not touch the mail.
StopKeepsMail(p) ==
  /\ \/ CheckCancel(p) \/ BeginCancel(p) \/ (\E c \in stops[p].todo : SweepChild(p, c))
     \/ FinishSweep(p) \/ (\E s \in Slots : BeginCancelChild(p, s)) \/ FinishCancelChild(p)
     \/ FinishLead(p) \/ NotifyLead(p) \/ FinishStarting(p) \/ PauseSlot(p)
  /\ UNCHANGED sessionVars

-----------------------------------------------------------------------------
Send(l) == WriteLetter(l) \/ DropLetter(l) \/ CommitLetter(l)
Recover == FindBacklog \/ ScanFails \/ RecoverFound

LoopStep(s) ==
  \/ Notified(s) \/ ReadMailbox(s) \/ ReadFails(s) \/ PeekNext(s) \/ NoteNext(s)
  \/ LeaveMail(s) \/ FindEmpty(s) \/ Claim(s)
  \/ Refused(s) \/ Prompt(s) \/ LateStart(s)
  \/ MarkRead(s) \/ TellLead(s) \/ WakeLead(s) \/ Complete(s) \/ GoRound(s)

StopStep(p) ==
  \/ ReadMail(p) \/ DiscardMail(p) \/ SweepBegins(p) \/ Notice(p) \/ StopKeepsMail(p)
  \/ MailFails(p) \/ PortFails(p) \/ DropStop(p)

SessionNext ==
  \/ Ask \/ Recover
  \/ \E l \in calls : Send(l)
  \/ \E s \in Loops : LoopStep(s)
  \/ \E p \in Stoppers : StopStep(p)

\* An event loop is a task of its own and goes on.  A stop request goes on until
\* its handler is dropped, which is one of its steps.  Nothing is assumed of the
\* recovery scan and of requests: whoever holds a lease may never come back.
SessionFairness ==
  /\ \A s \in Loops : WF_allVars(LoopStep(s))
  /\ \A p \in Stoppers : WF_allVars(stops[p].phase # "idle" /\ StopStep(p))

SessionSpec == SessionInit /\ [][SessionNext]_allVars /\ SessionFairness

-----------------------------------------------------------------------------
(* Properties.                                                             *)

\* A message leaves the unread mail only by being handed to an agent or by
\* being discarded with its run: what arrives during a turn stays unread
\* (compute_wake_input, mark_read_batch, mark_all_unread_for_agents_read).
NothingReadUnseen ==
  \A m \in written : (\E s \in Slots : m \in unread[s]) \/ m \in delivered \cup discarded

\* The messages the pending wakes of a slot name, while the run accepts work.
WakeNames(s) == IF IsActive(run) THEN {run.pending[s][i].msg : i \in DOMAIN run.pending[s]} ELSE {}

\* A loop that waits without a permit does not sleep on work: no pending wake
\* of its slot names a message that is still unread, in whatever order
\* requests write, commit and notify while the loop looks (session.rs:441,
\* event_loop.rs:145).  Left out is a loop that has passed unread mail by for the
\* wake of an intervention whose message an earlier turn had read.
NeverSleepsOnWork ==
  \A s \in Loops : At(s, "waiting") /\ ~permit[s] /\ faults = 0 /\ s \notin passed =>
    WakeNames(s) \cap unread[s] = {}

\* A message is handed to an agent once, unless its row could not be marked
\* read (event_loop.rs:368) or the port fails a turn it has started.
DeliveredOnce ==
  [][faults = 0 /\ ~MayFailStarted =>
       \A s \in Loops : turns[s].phase = "claimed" /\ turns'[s].phase \in {"running", "late"}
         => input[s] \cap delivered \cap Msgs = {}]_allVars

\* A pending wake whose message is unread is not kept for ever: the message is
\* handed over, or the wake goes.
WakeServed ==
  \A s \in Loops, m \in Msgs :
    m \in WakeNames(s) \cap unread[s] ~> (faults > 0 \/ s \in passed \/ m \notin WakeNames(s) \cap unread[s])

\* A session that is being cancelled is never left to nobody: somebody is still
\* on the way to look whether the run can end - the request that began it, a
\* loop whose reservation is marked, a loop whose turn started too late -
\* whichever of them looked before in vain (team_run.rs:1516, 1330, 1803).  The
\* exceptions are those of CancelEnds below: a request that is dropped or fails
\* leaves its sweep to nobody.
CancelHasFinisher ==
  run.status = "Cancelling" /\ run.id = 1 /\ faults = 0 =>
    \/ run.leases # {} \/ \E s \in Slots : Retained(run.gate[s])
    \/ \E p \in Stoppers : stops[p].phase \in {"cancelBegun", "sweeping"}
    \/ \E s \in Slots : run.starting[s] # "none" \/ turns[s].phase \in {"late", "swept"}

\* The run of a session that is being cancelled ends, unless the stop request was
\* dropped with its connection or the mailbox failed it (routes.rs:224,
\* session.rs:1032), a lease was outstanding, or a late pause has armed its gate
\* (team_run.rs:1803, 1666).  Only for the first run: a loop that still has the id of
\* an earlier one can keep a later run cancelling (team_run.rs:1300).
CancelEnds ==
  run.status = "Cancelling" /\ run.id = 1
    ~> (faults > 0 \/ run.id # 1 \/ run.leases # {} \/ \E s \in Slots : Retained(run.gate[s]))

\* "The message is delivered to their mailbox and they will be woken up to
\* process it" (team-prompts.md).
AcceptedIsDelivered ==
  \A m \in Msgs : m \in accepted ~>
    (faults > 0 \/ m \in delivered \cup discarded \/ \E i \in DOMAIN ended : ended[i] \in {"Failed", "Cancelled"})

=============================================================================
