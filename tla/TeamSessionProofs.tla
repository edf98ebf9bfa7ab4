------------------------- MODULE TeamSessionProofs -------------------------
(***************************************************************************)
(* Proofs about TeamSession, for every team, every set of messages and     *)
(* every bound: its steps are steps of TeamRun, and its mail is well kept. *)
(***************************************************************************)
EXTENDS TeamSession, TeamRunSafety

-----------------------------------------------------------------------------
(* Types, and the steps of the run manager.                                *)

\* The recovery scan looks at slots that have an event loop.
SessionTyped == SessionTypeOK /\ scan.left \subseteq Loops /\ scan.found \subseteq Loops

LEMMA InitSessionTyped == SessionInit => SessionTyped
<1> SUFFICES ASSUME SessionInit PROVE SessionTyped
  OBVIOUS
<1>1. PICK owner \in [Backlog -> Slots], left \in SUBSET Backlog :
        unread = [s \in Slots |-> {m \in left : owner[m] = s}] /\ written = left
  BY DEF SessionInit
<1>2. left \subseteq Msgs /\ left \subseteq Mail
  BY SessionAssumption DEF Mail
<1>3. unread \in [Slots -> SUBSET Mail] /\ written \subseteq Msgs
  BY <1>1, <1>2
<1>4. 0 \in 0..MaxFaults /\ Loops \subseteq Slots
  BY SessionAssumption, SlotsAssumption
<1> QED
  BY <1>3, <1>4 DEF SessionInit, SessionTyped, SessionTypeOK, NoScan, Scan, NoDrain, Drain, Place

LEMMA AskTyped == ASSUME SessionTyped, Ask PROVE SessionTyped' /\ Next
<1>1. Request
  BY DEF Ask, Request
<1>2. UNCHANGED sessionVars
  BY DEF Ask
<1> QED
  BY <1>1, <1>2 DEF Next, sessionVars, mailVars, loopVars, asideVars, history, SessionTyped, SessionTypeOK

LEMMA SendTyped ==
  ASSUME SessionTyped, NEW l \in calls, Send(l)
  PROVE  SessionTyped' /\ [Next]_vars
<1> USE DEF SessionTyped, SessionTypeOK, mailVars, loopVars, asideVars, history
<1>1. CASE WriteLetter(l)
  <2> DEFINE m == CHOOSE n \in Msgs \ written : TRUE
  <2>1. m \in Msgs
    BY <1>1 DEF WriteLetter
  <2> HIDE DEF m
  <2>2. /\ unread' = [unread EXCEPT ![l.slot] = @ \cup {m}]
        /\ written' = written \cup {m}
        /\ letters' = [letters EXCEPT ![l.id] = m]
        /\ UNCHANGED <<vars, loopVars, asideVars, faults, history>>
    BY <1>1 DEF WriteLetter, m
  <2>3. unread' \in [Slots -> SUBSET Mail]
    BY <2>1, <2>2 DEF Mail
  <2> QED
    BY <2>1, <2>2, <2>3
<1>2. CASE DropLetter(l)
  <2>1. Request
    BY <1>2 DEF DropLetter, Request
  <2>2. faults' \in 0..MaxFaults
    BY <1>2, SessionAssumption DEF DropLetter, Fault
  <2> QED
    BY <1>2, <2>1, <2>2 DEF DropLetter, Next
<1>3. CASE CommitLetter(l)
  <2>1. letters[l.id] \in Msgs
    BY <1>3 DEF CommitLetter
  <2>2. Request
    BY <1>3, <2>1 DEF CommitLetter, Request
  <2>3. permit' \in [Slots -> BOOLEAN] /\ accepted' \subseteq Msgs
    BY <1>3, <2>1 DEF CommitLetter, Notify
  <2>4. letters' \in [LeaseIds -> Msgs \cup {NoMsg}]
    BY <1>3 DEF CommitLetter
  <2> QED
    BY <1>3, <2>2, <2>3, <2>4 DEF CommitLetter, Next
<1> QED
  BY <1>1, <1>2, <1>3 DEF Send

LEMMA RecoverTyped == ASSUME SessionTyped, Recover PROVE SessionTyped' /\ [Next]_vars
<1> USE DEF SessionTyped, SessionTypeOK, mailVars, loopVars, asideVars, history
<1>1. CASE FindBacklog
  <2>1. PICK s \in scan.left :
          scan' = [left |-> scan.left \ {s},
                   found |-> IF unread[s] = {} THEN scan.found ELSE scan.found \cup {s}]
    BY <1>1 DEF FindBacklog
  <2>2. scan' \in Scan /\ scan'.left \subseteq Loops /\ scan'.found \subseteq Loops
    BY <2>1, SlotsAssumption DEF Scan
  <2> QED
    BY <1>1, <2>2 DEF FindBacklog
<1>3. CASE ScanFails
  <2>1. faults' \in 0..MaxFaults
    BY <1>3, SessionAssumption DEF ScanFails, Fault
  <2> QED
    BY <1>3, <2>1 DEF ScanFails, NoScan, Scan
<1>2. CASE RecoverFound
  <2>1. [Request]_vars
    BY <1>2 DEF RecoverFound, Request
  <2>2. permit' \in [Slots -> BOOLEAN]
    BY <1>2 DEF RecoverFound, Notify
  <2>3. scan' = NoScan /\ UNCHANGED <<mailVars, place, input, drain, faults, history>>
    BY <1>2 DEF RecoverFound
  <2> QED
    BY <2>1, <2>2, <2>3 DEF Next, NoScan, Scan
<1> QED
  BY <1>1, <1>2, <1>3 DEF Recover

\* One look of a loop at its mailbox and its wakes.
LookStep(s) ==
  Notified(s) \/ ReadMailbox(s) \/ ReadFails(s) \/ PeekNext(s) \/ NoteNext(s)
    \/ LeaveMail(s) \/ FindEmpty(s) \/ Claim(s)

LEMMA LookStepTyped ==
  ASSUME SessionTyped, NEW s \in Loops, LookStep(s)
  PROVE  SessionTyped' /\ [Next]_vars
<1> USE DEF SessionTyped, SessionTypeOK, mailVars, loopVars, asideVars, history, sessionVars
<1>0. s \in Slots
  BY SlotsAssumption
<1>1. \A p \in Place : Goes(s, p) => place' \in [Slots -> Place]
  BY <1>0 DEF Goes
<1>2. {"waiting", "looking", "read", "turn"} \subseteq Place
  BY DEF Place
<1>3. \A m \in SUBSET Mail : input' = [input EXCEPT ![s] = m] => input' \in [Slots -> SUBSET Mail]
  BY <1>0
<1>4. CASE Notified(s)
  BY <1>1, <1>2, <1>4 DEF Notified
<1>5. CASE ReadMailbox(s)
  BY <1>0, <1>1, <1>2, <1>3, <1>5 DEF ReadMailbox
<1>6. CASE ReadFails(s)
  <2>1. faults' \in 0..MaxFaults
    BY <1>6, SessionAssumption DEF ReadFails, Fault
  <2> QED
    BY <1>1, <1>2, <1>6, <2>1 DEF ReadFails
<1>7. CASE PeekNext(s)
  <2>1. Look(s)
    BY <1>7 DEF PeekNext, Look
  <2>2. input' \in [Slots -> SUBSET Mail] /\ passed' \subseteq Slots
    BY <1>0, <1>7 DEF PeekNext
  <2> QED
    BY <1>7, <2>1, <2>2 DEF PeekNext, Next
<1>8. CASE NoteNext(s)
  BY <1>8 DEF NoteNext, Look, Next
<1>9. CASE LeaveMail(s)
  BY <1>1, <1>2, <1>3, <1>9 DEF LeaveMail, Look, Next
<1>10. CASE FindEmpty(s)
  BY <1>1, <1>2, <1>10 DEF FindEmpty, Look, Next
<1>11. CASE Claim(s)
  BY <1>1, <1>2, <1>3, <1>11 DEF Claim, Look, Next
<1> QED
  BY <1>4, <1>5, <1>6, <1>7, <1>8, <1>9, <1>10, <1>11 DEF LookStep

\* The turn, from the claim to the next round.
TurnStep(s) ==
  Refused(s) \/ Prompt(s) \/ LateStart(s) \/ MarkRead(s) \/ TellLead(s) \/ WakeLead(s)
    \/ Complete(s) \/ GoRound(s)

LEMMA TurnStepTyped ==
  ASSUME SessionTyped, NEW s \in Loops, TurnStep(s)
  PROVE  SessionTyped' /\ [Next]_vars
<1> USE DEF SessionTyped, SessionTypeOK, mailVars, loopVars, asideVars, history, sessionVars
<1>0. s \in Slots
  BY SlotsAssumption
<1>1. \A p \in Place : Goes(s, p) => place' \in [Slots -> Place]
  BY <1>0 DEF Goes
<1>2. {"looking", "marked", "told"} \subseteq Place
  BY DEF Place
<1>3. Fault => faults' \in 0..MaxFaults
  BY SessionAssumption DEF Fault
<1>4. CASE Refused(s)
  BY <1>4 DEF Refused, Execute, Next
<1>5. CASE Prompt(s)
  BY <1>0, <1>5 DEF Prompt, Execute, Next
<1>6. CASE LateStart(s)
  BY <1>6 DEF LateStart, Execute, Next
<1>7. CASE MarkRead(s)
  <2>1. unread' \in [Slots -> SUBSET Mail]
    BY <1>7 DEF MarkRead
  <2>2. faults' \in 0..MaxFaults
    BY <1>3, <1>7 DEF MarkRead
  <2> QED
    BY <1>1, <1>2, <1>7, <2>1, <2>2 DEF MarkRead
<1>8. CASE TellLead(s)
  <2>1. unread' \in [Slots -> SUBSET Mail]
    BY <1>8, SlotsAssumption DEF TellLead, Mail
  <2>2. faults' \in 0..MaxFaults
    BY <1>3, <1>8 DEF TellLead
  <2> QED
    BY <1>1, <1>2, <1>8, <2>1, <2>2 DEF TellLead
<1>9. CASE WakeLead(s)
  <2>1. Finalize(s)
    BY <1>9 DEF WakeLead, Finalize
  <2>2. permit' \in [Slots -> BOOLEAN]
    BY <1>9 DEF WakeLead, Notify
  <2> QED
    BY <1>9, <2>1, <2>2 DEF WakeLead, Next
<1>10. CASE Complete(s)
  BY <1>10 DEF Complete, Finalize, Next
<1>11. CASE GoRound(s)
  <2>1. Finalize(s)
    BY <1>11 DEF GoRound, Finalize
  <2>2. permit' \in [Slots -> BOOLEAN]
    BY <1>11 DEF GoRound, Notify
  <2>3. input' \in [Slots -> SUBSET Mail]
    BY <1>0, <1>11 DEF GoRound
  <2> QED
    BY <1>1, <1>2, <1>11, <2>1, <2>2, <2>3 DEF GoRound, Next
<1> QED
  BY <1>4, <1>5, <1>6, <1>7, <1>8, <1>9, <1>10, <1>11 DEF TurnStep

LEMMA StopStepTyped ==
  ASSUME SessionTyped, NEW p \in Stoppers, StopStep(p)
  PROVE  SessionTyped' /\ [Next]_vars
<1> USE DEF SessionTyped, SessionTypeOK, mailVars, loopVars, asideVars, history, sessionVars
<1>0. NoDrain \in Drain /\ drain[p] \in Drain
      /\ \A d \in Drain : [drain EXCEPT ![p] = d] \in [Stoppers -> Drain]
  BY DEF NoDrain, Drain
<1>1. CASE ReadMail(p)
  <2>1. PICK s \in Slots :
          drain' = [drain EXCEPT ![p].read = @ \cup {s}, ![p].mail = @ \cup unread[s]]
    BY <1>1 DEF ReadMail
  <2>2. drain' \in [Stoppers -> Drain]
    BY <1>0, <2>1 DEF Drain
  <2> QED
    BY <1>1, <2>2 DEF ReadMail
<1>2. CASE DiscardMail(p)
  <2>1. drain' \in [Stoppers -> Drain]
    BY <1>0, <1>2 DEF DiscardMail, Drain
  <2>2. drain[p].mail \subseteq Mail
    BY <1>0 DEF Drain
  <2>3. unread' \in [Slots -> SUBSET Mail] /\ discarded' \subseteq Mail
    BY <1>2, <2>2 DEF DiscardMail
  <2> QED
    BY <1>2, <2>1, <2>3 DEF DiscardMail
<1>3. CASE SweepBegins(p)
  BY <1>0, <1>3 DEF SweepBegins, CancelRun, Next
<1>4. CASE MailFails(p) \/ DropStop(p)
  <2>1. faults' \in 0..MaxFaults
    BY <1>4, SessionAssumption DEF MailFails, DropStop, Fault
  <2> QED
    BY <1>0, <1>4, <2>1 DEF MailFails, DropStop, Next
<1>5. CASE PortFails(p)
  BY <1>5 DEF PortFails, Next
<1>6. CASE Notice(p)
  <2>1. unread' \in [Slots -> SUBSET Mail]
    BY <1>6, SlotsAssumption DEF Notice, Mail
  <2> QED
    BY <1>6, <2>1 DEF Notice, CancelChild, Next
<1>7. CASE StopKeepsMail(p)
  <2>1. CancelRun(p) \/ CancelChild(p) \/ PauseSlot(p)
    BY <1>7 DEF StopKeepsMail, CancelRun, CancelChild
  <2> QED
    BY <1>7, <2>1 DEF StopKeepsMail, Next
<1> QED
  BY <1>1, <1>2, <1>3, <1>4, <1>5, <1>6, <1>7 DEF StopStep

LEMMA SessionStepTyped ==
  ASSUME SessionTyped, [SessionNext]_allVars
  PROVE  SessionTyped' /\ [Next]_vars
<1>1. CASE UNCHANGED allVars
  BY <1>1 DEF allVars, sessionVars, mailVars, loopVars, asideVars, history, SessionTyped, SessionTypeOK
<1>2. ASSUME NEW s \in Loops, LoopStep(s) PROVE LookStep(s) \/ TurnStep(s)
  BY <1>2 DEF LoopStep, LookStep, TurnStep
<1> QED
  BY <1>1, <1>2, AskTyped, SendTyped, RecoverTyped, LookStepTyped, TurnStepTyped, StopStepTyped
  DEF SessionNext

\* Every reachable state of a session is well typed (mailbox.rs, event_loop.rs,
\* session.rs).
THEOREM SessionTypeCorrect == SessionSpec => []SessionTypeOK
<1>1. SessionSpec => []SessionTyped
  BY InitSessionTyped, SessionStepTyped, PTL DEF SessionSpec
<1>2. SessionTyped => SessionTypeOK
  BY DEF SessionTyped
<1> QED
  BY <1>1, <1>2, PTL

\* A session uses the run manager only through its methods: mailboxes, permits
\* and recovery only decide when a method is called (team_run.rs).  So every
\* safety theorem about TeamRun is one about sessions.
THEOREM SessionRefinesRun == SessionSpec => Spec
<1>1. SessionInit => Init
  BY DEF SessionInit
<1>2. SessionSpec => []SessionTyped
  BY InitSessionTyped, SessionStepTyped, PTL DEF SessionSpec
<1> QED
  BY <1>1, <1>2, SessionStepTyped, PTL DEF SessionSpec, Spec

-----------------------------------------------------------------------------
(* The messages pending wakes name.  Only a commit adds one to them.       *)

Named(r, s) == IF IsActive(r) THEN {r.pending[s][i].msg : i \in DOMAIN r.pending[s]} ELSE {}
NoNewNames(r) == \A s \in Slots : Named(r, s) \subseteq Named(run, s) \cup {NoMsg}

LEMMA NoRunNames == \A s \in Slots : Named(NoRun, s) = {}
  BY DEF Named, NoRun, IsActive

LEMMA ReplaceNames ==
  ASSUME NEW r, NoNewNames(r),
         \/ Keep(r) \/ Fail(r) \/ MaybeComplete(r) \/ MaybeCancelled(r)
  PROVE  NoNewNames(run')
<1>1. run' = r \/ run' = NoRun
  BY DEF Keep, Fail, MaybeComplete, MaybeCancelled, CloseOrKeep
<1> QED
  BY <1>1, NoRunNames DEF NoNewNames

LEMMA SameQueueNames ==
  ASSUME NEW r, r.pending = run.pending, IsActive(r) => IsActive(run)
  PROVE  NoNewNames(r)
  BY DEF NoNewNames, Named

\* A queue that gets shorter names less.
LEMMA ShorterQueueNames ==
  ASSUME Safe, NEW s \in Slots, NEW r,
         r.pending = [run.pending EXCEPT ![s] = Tail(@)], run.pending[s] # <<>>,
         IsActive(r) => IsActive(run)
  PROVE  NoNewNames(r)
<1> DEFINE queue == run.pending[s]
<1>1. queue \in Seq(Wake) /\ run.pending \in [Slots -> Seq(Wake)]
  BY DEF Safe, Typed, TypeOK, RunRecord
<1>2. \A i \in DOMAIN Tail(queue) : i + 1 \in DOMAIN queue /\ Tail(queue)[i] = queue[i + 1]
  BY <1>1
<1>3. r.pending[s] = Tail(queue) /\ \A t \in Slots : t # s => r.pending[t] = run.pending[t]
  BY <1>1
<1> QED
  BY <1>2, <1>3 DEF NoNewNames, Named

\* A push adds the name of the pushed wake.
LEMMA PushedNames ==
  ASSUME NEW r \in RunRecord, NEW s \in Slots, NEW source, NEW msg, NEW t \in Slots
  PROVE  Named(PushPending(r, s, source, msg), t)
           \subseteq Named(r, t) \cup (IF t = s THEN {msg} ELSE {})
<1> DEFINE q == r.pending[s]
           wake == [source |-> source, msg |-> msg]
           new == PushPending(r, s, source, msg)
<1>1. q \in Seq(Wake) /\ r.pending \in [Slots -> Seq(Wake)]
  BY DEF RunRecord
<1>2. /\ new.status = r.status /\ new.pending[s] = PushWake(q, wake)
      /\ t # s => new.pending[t] = r.pending[t]
  BY <1>1 DEF PushPending, RunRecord
<1>3. \A i \in DOMAIN PushWake(q, wake) :
        PushWake(q, wake)[i] = wake \/ \E j \in DOMAIN q : PushWake(q, wake)[i] = q[j]
  <2>1. CASE ~IsForegroundWake(wake.source)
    BY <1>1, <2>1 DEF PushWake
  <2>2. CASE IsForegroundWake(wake.source)
    <3>1. PushWake(q, wake) = [i \in 1..Len(q) + 1 |->
            IF AllForeground(q, i) THEN q[i]
            ELSE IF AllForeground(q, i - 1) THEN wake ELSE q[i - 1]]
      BY <2>2 DEF PushWake
    <3> SUFFICES ASSUME NEW i \in 1..Len(q) + 1
                 PROVE  PushWake(q, wake)[i] = wake \/ \E j \in DOMAIN q : PushWake(q, wake)[i] = q[j]
      BY <3>1
    <3>2. AllForeground(q, i) => i \in DOMAIN q
      BY <1>1 DEF AllForeground
    <3>3. ~AllForeground(q, i - 1) => i - 1 \in DOMAIN q
      BY <1>1 DEF AllForeground
    <3> QED
      BY <3>1, <3>2, <3>3
  <2> QED
    BY <2>1, <2>2
<1>4. wake.msg = msg
  OBVIOUS
<1> HIDE DEF q, wake, new
<1>5. t = s => Named(new, t) \subseteq Named(r, t) \cup {msg}
  <2>1. SUFFICES ASSUME t = s, IsActive(new), NEW i \in DOMAIN new.pending[s]
                 PROVE  new.pending[s][i].msg \in Named(r, t) \cup {msg}
    BY DEF Named
  <2>2. IsActive(r)
    BY <1>2, <2>1 DEF IsActive
  <2>3. new.pending[s][i] = wake \/ \E j \in DOMAIN r.pending[s] : new.pending[s][i] = r.pending[s][j]
    BY <1>2, <1>3, <2>1 DEF q
  <2> QED
    BY <1>4, <2>1, <2>2, <2>3 DEF Named
<1>6. t # s => Named(new, t) = Named(r, t)
  BY <1>2 DEF Named, IsActive
<1> QED
  BY <1>5, <1>6 DEF new

LEMMA PushedNoMsg ==
  ASSUME NEW r \in RunRecord, NoNewNames(r), NEW s \in Slots, NEW source
  PROVE  NoNewNames(PushPending(r, s, source, NoMsg))
  BY PushedNames DEF NoNewNames

LEMMA PausedNames ==
  ASSUME Safe, NEW s \in Slots, NEW r, IsActive(r) => IsActive(run),
         r.pending = [run.pending EXCEPT ![s] = <<>>]
  PROVE  NoNewNames(r)
<1>1. run.pending \in [Slots -> Seq(Wake)]
  BY DEF Safe, Typed, TypeOK, RunRecord
<1> QED
  BY <1>1 DEF NoNewNames, Named

LEMMA RecordHere == ASSUME Safe PROVE run \in RunRecord /\ run.status \in RunStatus
  BY DEF Safe, Typed, TypeOK, RunRecord

LEMMA AskNames == ASSUME Safe, Ask PROVE NoNewNames(run')
<1> PICK s \in Slots, id \in LeaseIds :
       \/ AcquireIntervention(s, id) \/ AcquireNewRun(s, id)
       \/ \E source \in Sources : AcquireScoped(s, source, id)
  BY DEF Ask
<1>1. CASE AcquireIntervention(s, id)
  <2>1. PICK lease : Keep([GateWake(run, s, "UserIntervention") EXCEPT !.leases = @ \cup {lease}])
    BY <1>1 DEF AcquireIntervention
  <2> QED
    BY <2>1, RecordHere, ReplaceNames, SameQueueNames DEF GateWake, RunRecord, IsActive
<1>2. CASE AcquireNewRun(s, id)
  <2>1. PICK lease : run' = [NewRun(lastRun + 1, s) EXCEPT !.leases = {lease}]
    BY <1>2 DEF AcquireNewRun, StartRun
  <2>2. \A t \in Slots : run'.pending[t] = <<>>
    BY <2>1 DEF NewRun, NoRun
  <2> QED
    BY <2>2 DEF NoNewNames, Named
<1>3. ASSUME NEW source \in Sources, AcquireScoped(s, source, id) PROVE NoNewNames(run')
  <2>1. \/ Keep(GateWake(run, s, source))
        \/ \E lease : Keep([GateWake(run, s, source) EXCEPT !.leases = @ \cup {lease}])
    BY <1>3 DEF AcquireScoped
  <2> QED
    BY <2>1, RecordHere, ReplaceNames, SameQueueNames DEF GateWake, RunRecord, IsActive
<1> QED
  BY <1>1, <1>2, <1>3

LEMMA AbortNames == ASSUME Safe, NEW l, AbortLease(l) PROVE NoNewNames(run')
<1>1. Keep(run) \/ Keep([run EXCEPT !.leases = @ \ {l}])
  BY DEF AbortLease
<1> QED
  BY <1>1, RecordHere, ReplaceNames, SameQueueNames DEF RunRecord, IsActive

LEMMA CommitNames ==
  ASSUME Safe, NEW l, NEW msg, CommitLease(l, msg)
  PROVE  \/ NoNewNames(run')
         \/ /\ IsActive(run) /\ l \in run.leases
            /\ \A t \in Slots : Named(run', t) \subseteq Named(run, t) \cup (IF t = l.slot THEN {msg} ELSE {})
<1>1. CASE IsActive(run) /\ l \in run.leases
  <2> DEFINE pushed == PushPending(run, l.slot, l.source, msg)
  <2>1. l.slot \in Slots
    BY <1>1, RecordHere DEF RunRecord, Lease
  <2>2. Keep([pushed EXCEPT !.leases = @ \ {l}])
    BY <1>1 DEF CommitLease
  <2>3. run' = [pushed EXCEPT !.leases = @ \ {l}]
    BY <2>2 DEF Keep, CloseOrKeep
  <2>4. run'.pending = pushed.pending /\ run'.status = pushed.status
    BY <2>3, RecordHere DEF PushPending, RunRecord
  <2>5. \A t \in Slots : Named(run', t) = Named(pushed, t)
    BY <2>4 DEF Named, IsActive
  <2> QED
    BY <1>1, <2>1, <2>5, RecordHere, PushedNames
<1>2. CASE ~(IsActive(run) /\ l \in run.leases)
  <2>1. Keep(run)
    BY <1>2 DEF CommitLease
  <2> QED
    BY <2>1, ReplaceNames, SameQueueNames
<1> QED
  BY <1>1, <1>2

LEMMA RecoverNames ==
  ASSUME Safe, NEW candidates \in SUBSET Slots, NEW first \in Loops, RecoverBacklog(candidates, first)
  PROVE  NoNewNames(run')
<1> DEFINE wake == [source |-> "RecoveryDrain", msg |-> NoMsg]
           woken(r, targets) ==
             [r EXCEPT !.pending = [s \in Slots |-> IF s \in targets THEN Append(r.pending[s], wake)
                                                    ELSE r.pending[s]]]
<1>1. ASSUME NEW r \in RunRecord, NEW targets, NEW s \in Slots
      PROVE  Named(woken(r, targets), s) \subseteq Named(r, s) \cup {NoMsg}
  <2>1. r.pending[s] \in Seq(Wake)
    BY DEF RunRecord
  <2>2. \A i \in DOMAIN Append(r.pending[s], wake) :
          Append(r.pending[s], wake)[i] = wake \/
            (i \in DOMAIN r.pending[s] /\ Append(r.pending[s], wake)[i] = r.pending[s][i])
    BY <2>1
  <2>3. woken(r, targets).status = r.status
        /\ woken(r, targets).pending[s] = IF s \in targets THEN Append(r.pending[s], wake) ELSE r.pending[s]
    BY DEF RunRecord
  <2>4. wake.msg = NoMsg
    OBVIOUS
  <2> HIDE DEF woken, wake
  <2> QED
    BY <2>2, <2>3, <2>4 DEF Named, IsActive
<1>2. CASE run.status = "None" /\ StartRun(woken(NewRun(lastRun + 1, first), candidates))
  <2>1. lastRun + 1 \in Nat /\ first \in Slots
    BY SlotsAssumption DEF Safe, Typed, TypeOK
  <2>2. NewRun(lastRun + 1, first) \in RunRecord
    BY <2>1, NewRunType
  <2>3. \A s \in Slots : Named(NewRun(lastRun + 1, first), s) = {}
    BY DEF Named, NewRun, NoRun
  <2>4. run' = woken(NewRun(lastRun + 1, first), candidates)
    BY <1>2 DEF StartRun
  <2> HIDE DEF woken
  <2> QED
    BY <1>1, <2>2, <2>3, <2>4 DEF NoNewNames
<1>3. ASSUME NEW targets, Keep(woken(run, targets)) PROVE NoNewNames(run')
  <2>1. run' = woken(run, targets)
    BY <1>3 DEF Keep, CloseOrKeep
  <2> HIDE DEF woken
  <2> QED
    BY <1>1, <2>1, RecordHere DEF NoNewNames
<1> QED
  BY <1>2, <1>3 DEF RecoverBacklog

LEMMA LookNames == ASSUME Safe, NEW s \in Slots, Look(s) PROVE NoNewNames(run')
<1>1. CASE UNCHANGED run
  BY <1>1 DEF NoNewNames
<1>2. CASE ObserveEmptyWake(s)
  <2>1. CASE run.pending[s] = <<>>
    BY <1>2, <2>1, ReplaceNames, SameQueueNames DEF ObserveEmptyWake
  <2>2. CASE run.pending[s] # <<>>
    <3> DEFINE popped == [run EXCEPT !.pending[s] = Tail(@)]
    <3>1. MaybeComplete(popped)
      BY <1>2, <2>2 DEF ObserveEmptyWake
    <3>2. popped.pending = [run.pending EXCEPT ![s] = Tail(@)] /\ popped.status = run.status
      BY RecordHere DEF RunRecord
    <3>3. NoNewNames(popped)
      BY <2>2, <3>2, ShorterQueueNames DEF IsActive
    <3> QED
      BY <3>1, <3>3, ReplaceNames
  <2> QED
    BY <2>1, <2>2
<1>3. CASE ClaimWake(s)
  <2>1. CASE ~(IsActive(run) /\ run.pending[s] # <<>>)
    BY <1>3, <2>1, ReplaceNames, SameQueueNames DEF ClaimWake
  <2>2. CASE IsActive(run) /\ run.pending[s] # <<>>
    <3> DEFINE claimed == [run EXCEPT !.pending[s] = Tail(@), !.starting[s] = "starting"]
    <3>1. Keep(claimed)
      BY <1>3, <2>2 DEF ClaimWake
    <3>2. claimed.pending = [run.pending EXCEPT ![s] = Tail(@)]
      BY RecordHere DEF RunRecord
    <3>3. NoNewNames(claimed)
      BY <2>2, <3>2, ShorterQueueNames
    <3> QED
      BY <3>1, <3>3, ReplaceNames
  <2> QED
    BY <2>1, <2>2
<1> QED
  BY <1>1, <1>2, <1>3 DEF Look, PeekWake, NoteRun, LeaveBacklog

LEMMA RemoveChildNames == ASSUME Safe, NEW s \in Slots, RemoveChild(s) PROVE NoNewNames(run')
<1> DEFINE removed == [run EXCEPT !.active[s] = NoTurn]
<1>1. MaybeCancelled(removed) \/ Keep(removed)
  BY DEF RemoveChild
<1>2. NoNewNames(removed)
  BY RecordHere, SameQueueNames DEF RunRecord, IsActive
<1> HIDE DEF removed
<1> QED
  BY <1>1, <1>2, ReplaceNames

LEMMA ExecuteNames ==
  ASSUME Safe, NEW s \in Slots,
         \/ StartFails(s) \/ (\E t \in TurnIds : StartTurn(s, t))
         \/ CancelLateStart(s) \/ FinishLateStart(s) \/ FailStarted(s)
  PROVE  NoNewNames(run')
<1> DEFINE released == [run EXCEPT !.starting[s] = "none"]
<1>1. NoNewNames(released) /\ NoNewNames(run)
  BY RecordHere, SameQueueNames DEF RunRecord, IsActive
<1>2. CASE StartFails(s)
  <2>1. Keep(run) \/ MaybeCancelled(released) \/ Fail(released)
    BY <1>2 DEF StartFails
  <2> HIDE DEF released
  <2> QED
    BY <1>1, <2>1, ReplaceNames
<1>3. ASSUME NEW t \in TurnIds, StartTurn(s, t) PROVE NoNewNames(run')
  <2> DEFINE mustCancel == run.status = "Cancelling" \/ run.starting[s] = "cancelling"
             begun == [released EXCEPT !.started = TRUE, !.active[s] = t,
                                       !.status = IF mustCancel THEN @ ELSE "Running"]
  <2>1. Keep(run) \/ Keep(released) \/ (Keep(begun) /\ run.starting[s] # "none")
    BY <1>3 DEF StartTurn
  <2>2. ASSUME run.starting[s] # "none" PROVE NoNewNames(begun)
    <3>1. run.status # "None"
      <4>1. run.status = "None" => run.starting[s] = "none"
        BY DEF Safe, RunShape, NoRun
      <4> QED
        BY <2>2, <4>1
    <3>2. begun.pending = run.pending
      BY RecordHere DEF RunRecord
    <3>3. begun.status = IF mustCancel THEN run.status ELSE "Running"
      BY RecordHere DEF RunRecord
    <3>4. IsActive(begun) => IsActive(run)
      BY <3>1, <3>3, RecordHere DEF IsActive, RunStatus
    <3> HIDE DEF begun
    <3> QED
      BY <3>2, <3>4, SameQueueNames
  <2> HIDE DEF begun, released
  <2> QED
    BY <1>1, <2>1, <2>2, ReplaceNames
<1>4. CASE CancelLateStart(s)
  BY <1>4, RemoveChildNames DEF CancelLateStart
<1>5. CASE FinishLateStart(s) \/ FailStarted(s)
  BY <1>1, <1>5, ReplaceNames DEF FinishLateStart, FailStarted
<1> QED
  BY <1>2, <1>3, <1>4, <1>5

LEMMA FinalizeNames ==
  ASSUME Safe, NEW s \in Slots, Finalize(s)
  PROVE  NoNewNames(run')
<1>1. CASE AcquireWakeLead(s)
  <2> DEFINE gated == GateWake(run, Lead, "IdleNotification")
  <2>1. Keep(gated) \/ \E lease : Keep([gated EXCEPT !.leases = @ \cup {lease}])
    BY <1>1 DEF AcquireWakeLead
  <2> QED
    BY <2>1, RecordHere, ReplaceNames, SameQueueNames DEF GateWake, RunRecord, IsActive
<1>2. ASSUME NEW l \in calls, CommitWakeLead(s, l) PROVE NoNewNames(run')
  <2>1. CASE IsActive(run) /\ l \in run.leases
    <3> DEFINE pushed == PushPending(run, l.slot, l.source, NoMsg)
               r == [pushed EXCEPT !.leases = @ \ {l}]
    <3>1. l.slot \in Slots
      BY <2>1, RecordHere DEF RunRecord, Lease
    <3>2. NoNewNames(pushed)
      BY <3>1, RecordHere, SameQueueNames, PushedNoMsg
    <3>3. r.pending = pushed.pending /\ r.status = pushed.status
      BY RecordHere DEF PushPending, RunRecord
    <3>4. NoNewNames(r)
      BY <3>2, <3>3 DEF NoNewNames, Named, IsActive
    <3>5. Keep(r)
      BY <1>2, <2>1 DEF CommitWakeLead
    <3> HIDE DEF r
    <3> QED
      BY <3>4, <3>5, ReplaceNames
  <2>2. CASE ~(IsActive(run) /\ l \in run.leases)
    BY <1>2, <2>2, ReplaceNames, SameQueueNames DEF CommitWakeLead
  <2> QED
    BY <2>1, <2>2
<1>3. ASSUME NEW ok \in BOOLEAN, CompleteChild(s, ok) PROVE NoNewNames(run')
  <2> DEFINE removed == [run EXCEPT !.active[s] = NoTurn]
  <2>1. Keep(run) \/ MaybeComplete(removed) \/ Fail(removed)
    BY <1>3 DEF CompleteChild
  <2>2. NoNewNames(removed) /\ NoNewNames(run)
    BY RecordHere, SameQueueNames DEF RunRecord, IsActive
  <2> HIDE DEF removed
  <2> QED
    BY <2>1, <2>2, ReplaceNames
<1>4. CASE MaybeCompleteRun(s)
  BY <1>4, ReplaceNames, SameQueueNames DEF MaybeCompleteRun
<1>5. CASE ReleaseSuppressed(s)
  <2> DEFINE pushed == PushPending(run, s, run.gate[s].held, NoMsg)
             r == [pushed EXCEPT !.gate[s] = NoEntry]
  <2>1. NoNewNames(pushed)
    BY RecordHere, SameQueueNames, PushedNoMsg
  <2>2. r.pending = pushed.pending /\ r.status = pushed.status
    BY RecordHere DEF PushPending, RunRecord
  <2>3. NoNewNames(r)
    BY <2>1, <2>2 DEF NoNewNames, Named, IsActive
  <2>4. Keep(run) \/ Keep(r)
    BY <1>5 DEF ReleaseSuppressed
  <2> HIDE DEF r
  <2> QED
    BY <2>3, <2>4, ReplaceNames, SameQueueNames
<1> QED
  BY <1>1, <1>2, <1>3, <1>4, <1>5 DEF Finalize

LEMMA StopNames == ASSUME Safe, NEW p \in Stoppers, StopStep(p) PROVE NoNewNames(run')
<1>0. NoNewNames(run)
  BY DEF NoNewNames
<1>1. CASE UNCHANGED run
  BY <1>0, <1>1
<1>2. CASE BeginCancel(p)
  <2> DEFINE r == [run EXCEPT
                !.status = "Cancelling",
                !.pending = [s \in Slots |-> <<>>],
                !.gate = [s \in Slots |-> NoEntry],
                !.starting = [s \in Slots |-> IF run.starting[s] = "none" THEN "none" ELSE "cancelling"]]
  <2>1. Keep(r) \/ Keep(run)
    BY <1>2 DEF BeginCancel
  <2>2. r.pending = [s \in Slots |-> <<>>]
    BY RecordHere DEF RunRecord
  <2>3. NoNewNames(r)
    BY <2>2 DEF NoNewNames, Named
  <2> HIDE DEF r
  <2> QED
    BY <1>0, <2>1, <2>3, ReplaceNames
<1>3. ASSUME NEW c \in stops[p].todo, SweepChild(p, c) PROVE NoNewNames(run')
  <2>1. stops[p] \in Stop
    BY DEF Safe, Typed, TypeOK
  <2>2. c[1] \in Slots
    BY <2>1 DEF Stop
  <2> QED
    BY <1>3, <2>2, RemoveChildNames DEF SweepChild
<1>4. CASE FinishSweep(p) \/ FinishLead(p) \/ FinishStarting(p)
  BY <1>0, <1>4, ReplaceNames DEF FinishSweep, FinishLead, FinishStarting
<1>5. CASE \E s \in Slots : BeginCancelChild(p, s)
  <2>1. PICK s \in Slots : Keep(run) \/ Keep([run EXCEPT !.starting[s] = "cancelling"])
    BY <1>5 DEF BeginCancelChild
  <2> QED
    BY <1>0, <2>1, RecordHere, ReplaceNames, SameQueueNames DEF RunRecord, IsActive
<1>6. CASE FinishCancelChild(p)
  <2>1. stops[p].slot \in Slots
    BY DEF Safe, Typed, TypeOK, Stop
  <2> QED
    BY <1>6, <2>1, RemoveChildNames DEF FinishCancelChild
<1>7. CASE NotifyLead(p)
  <2>1. Keep(GateWake(run, Lead, "InterruptedNotification")) \/ Keep(run)
    BY <1>7 DEF NotifyLead
  <2> QED
    BY <1>0, <2>1, RecordHere, ReplaceNames, SameQueueNames DEF GateWake, RunRecord, IsActive
<1>8. ASSUME NEW s \in Slots, NEW r \in {[PausePending(run, s) EXCEPT !.starting[s] = "none"],
                                        [PausePending(run, s) EXCEPT !.active[s] = NoTurn]}
      PROVE  NoNewNames(r)
  <2>1. r.pending = [run.pending EXCEPT ![s] = <<>>] /\ r.status = run.status
    BY <1>8, RecordHere DEF PausePending, RunRecord
  <2> QED
    BY <2>1, PausedNames DEF IsActive
<1>9. CASE BeginPause(p) \/ FinishPause(p)
  <2> DEFINE s == stops[p].slot
  <2>1. s \in Slots
    BY DEF Safe, Typed, TypeOK, Stop
  <2>2. \/ Keep(run) \/ Keep([PausePending(run, s) EXCEPT !.starting[s] = "none"])
        \/ Keep([PausePending(run, s) EXCEPT !.active[s] = NoTurn])
    BY <1>9 DEF BeginPause, FinishPause
  <2> QED
    BY <1>0, <1>8, <2>1, <2>2, ReplaceNames
<1>10. CASE ReadMail(p) \/ DiscardMail(p) \/ SweepBegins(p) \/ Notice(p)
  BY <1>1, <1>10 DEF ReadMail, DiscardMail, SweepBegins, ListChildren, Notice, WriteNotice, vars
<1>11. CASE MailFails(p) \/ PortFails(p) \/ DropStop(p)
  BY <1>1, <1>11 DEF MailFails, PortFails, DropStop, EndStop
<1>12. CASE StopKeepsMail(p)
  BY <1>1, <1>2, <1>3, <1>4, <1>5, <1>6, <1>7, <1>9, <1>12
  DEF StopKeepsMail, CheckCancel, PauseSlot, CheckPause
<1> QED
  BY <1>10, <1>11, <1>12 DEF StopStep

-----------------------------------------------------------------------------
(* A loop between two turns has none in hand, and what an agent was given  *)
(* is what its loop will mark read.                                        *)

BetweenTurns ==
  \A s \in Loops :
    /\ place[s] \in {"waiting", "looking"} => turns[s].phase = "idle"
    /\ place[s] = "read" => turns[s].phase \in {"idle", "peeked", "noted"}

Heard ==
  \A s \in Loops : turns[s].phase \in {"late", "swept", "running"} /\ place[s] = "turn"
                     => input[s] \subseteq delivered

LEMMA OtherLoops ==
  ASSUME BetweenTurns, Heard, NEW s \in Loops,
         \A t \in Loops : t # s => /\ turns'[t] = turns[t] /\ place'[t] = place[t]
                                   /\ input'[t] = input[t],
         delivered \subseteq delivered',
         place'[s] \in {"waiting", "looking"} => turns'[s].phase = "idle",
         place'[s] = "read" => turns'[s].phase \in {"idle", "peeked", "noted"},
         turns'[s].phase \in {"late", "swept", "running"} /\ place'[s] = "turn"
           => input'[s] \subseteq delivered'
  PROVE  BetweenTurns' /\ Heard'
  BY DEF BetweenTurns, Heard

\* Only a step of the loop itself moves what it has in hand.
LEMMA HandsApart ==
  ASSUME Safe, NEW s \in Slots, NEW t, HoldTurn(s, t)
  PROVE  turns'[s] = t /\ \A u \in Slots : u # s => turns'[u] = turns[u]
  BY DEF HoldTurn, Safe, Typed, TypeOK

LEMMA PlacesApart ==
  ASSUME SessionTyped, NEW s \in Slots, NEW p, Goes(s, p)
  PROVE  place'[s] = p /\ \A u \in Slots : u # s => place'[u] = place[u]
  BY DEF Goes, SessionTyped, SessionTypeOK

-----------------------------------------------------------------------------
(* What a loop knows of the mail its pending wakes name.  If nobody has    *)
(* notified it since it last took its permit, every such message was in    *)
(* the mailbox when it looked.                                             *)

NamedMail(s) == Named(run, s) \cap unread[s]

Attends(s) ==
  /\ place[s] = "waiting" => NamedMail(s) = {}
  /\ place[s] = "read" /\ turns[s].phase = "idle" => NamedMail(s) \subseteq input[s]
  /\ place[s] = "read" /\ turns[s].phase \in {"peeked", "noted"} /\ NamedMail(s) # {} =>
       /\ turns[s].seen # NoWake
       /\ NamedMail(s) \subseteq input[s] \/ (turns[s].seen.source = "UserIntervention" /\ input[s] # {})
  /\ place[s] = "read" /\ turns[s].phase = "noted" /\ NamedMail(s) # {} => turns[s].run # 0

AwakeAt(s) == faults = 0 /\ s \notin passed /\ ~permit[s] => Attends(s)
Awake == \A s \in Loops : AwakeAt(s)

\* What wakes and leases name has been written.
KnownNames ==
  /\ \A s \in Slots : Named(run, s) \subseteq written \cup {NoMsg}
  /\ \A id \in LeaseIds : letters[id] \in written \cup {NoMsg}

MailKept == BetweenTurns /\ Heard /\ NothingReadUnseen /\ KnownNames /\ Awake

LEMMA LessMail ==
  ASSUME SessionTyped, KnownNames, NoNewNames(run'), NEW s \in Slots,
         unread'[s] \subseteq unread[s] \cup {Note}
  PROVE  NamedMail(s)' \subseteq NamedMail(s)
<1>1. Note \notin Msgs \cup {NoMsg} /\ NoMsg \notin Msgs /\ written \subseteq Msgs
  BY SessionAssumption, IdsAssumption DEF SessionTyped, SessionTypeOK
<1>2. unread[s] \subseteq Msgs \cup {Note}
  BY DEF SessionTyped, SessionTypeOK, Mail
<1>3. Named(run', s) \subseteq Named(run, s) \cup {NoMsg} /\ Named(run, s) \subseteq written \cup {NoMsg}
  BY DEF NoNewNames, KnownNames
<1>4. NamedMail(s)' = Named(run', s) \cap unread'[s]
  BY DEF NamedMail, Named
<1> QED
  BY <1>1, <1>2, <1>3, <1>4 DEF NamedMail

LEMMA KeepsAwake ==
  ASSUME NEW s, AwakeAt(s), NamedMail(s)' \subseteq NamedMail(s), permit[s] => permit'[s],
         place'[s] = place[s], turns'[s] = turns[s], input'[s] = input[s],
         faults' = 0 => faults = 0, passed \subseteq passed'
  PROVE  AwakeAt(s)'
<1>1. SUFFICES ASSUME faults' = 0, s \notin passed', ~permit'[s] PROVE Attends(s)'
  BY DEF AwakeAt
<1>2. Attends(s)
  BY <1>1 DEF AwakeAt
<1> QED
  BY <1>2 DEF Attends

LEMMA StillKnown ==
  ASSUME KnownNames, NoNewNames(run'), written \subseteq written', UNCHANGED letters
  PROVE  KnownNames'
<1>1. \A s \in Slots : Named(run, s)' = Named(run', s)
  BY DEF Named
<1> QED
  BY <1>1 DEF KnownNames, NoNewNames

\* A step of somebody else.
LEMMA AsideKeeps ==
  ASSUME SessionTyped, MailKept, NoNewNames(run'), UNCHANGED <<turns, place, input, written, letters, passed>>,
         \A s \in Slots : unread'[s] \subseteq unread[s] \cup {Note},
         \A s \in Slots : permit[s] => permit'[s],
         faults' = 0 => faults = 0, delivered \subseteq delivered', NothingReadUnseen'
  PROVE  MailKept'
<1>1. BetweenTurns' /\ Heard'
  BY DEF MailKept, BetweenTurns, Heard
<1>2. KnownNames'
  BY StillKnown DEF MailKept
<1>3. ASSUME NEW s \in Loops PROVE AwakeAt(s)'
  <2>1. s \in Slots /\ AwakeAt(s)
    BY SlotsAssumption DEF MailKept, Awake
  <2>2. NamedMail(s)' \subseteq NamedMail(s)
    BY <2>1, LessMail DEF MailKept
  <2> QED
    BY <2>1, <2>2, KeepsAwake
<1> QED
  BY <1>1, <1>2, <1>3 DEF MailKept, Awake

\* A step of the loop of s: what has to be shown of s itself.
LEMMA LoopKeeps ==
  ASSUME SessionTyped, MailKept, NEW s \in Loops, NoNewNames(run'), UNCHANGED <<written, letters>>,
         \A t \in Loops : t # s => /\ turns'[t] = turns[t] /\ place'[t] = place[t]
                                   /\ input'[t] = input[t] /\ (permit[t] => permit'[t]),
         \A t \in Slots : unread'[t] \subseteq unread[t] \cup {Note},
         faults' = 0 => faults = 0, passed \subseteq passed', delivered \subseteq delivered',
         place'[s] \in {"waiting", "looking"} => turns'[s].phase = "idle",
         place'[s] = "read" => turns'[s].phase \in {"idle", "peeked", "noted"},
         turns'[s].phase \in {"late", "swept", "running"} /\ place'[s] = "turn"
           => input'[s] \subseteq delivered',
         NothingReadUnseen', AwakeAt(s)'
  PROVE  MailKept'
<1>1. BetweenTurns' /\ Heard'
  BY OtherLoops DEF MailKept
<1>2. KnownNames'
  BY StillKnown DEF MailKept
<1>3. ASSUME NEW t \in Loops, t # s PROVE AwakeAt(t)'
  <2>1. t \in Slots /\ AwakeAt(t)
    BY SlotsAssumption DEF MailKept, Awake
  <2>2. NamedMail(t)' \subseteq NamedMail(t)
    BY <2>1, LessMail DEF MailKept
  <2> QED
    BY <1>3, <2>1, <2>2, KeepsAwake
<1> QED
  BY <1>1, <1>2, <1>3 DEF MailKept, Awake

LEMMA SameMailSeen ==
  ASSUME NothingReadUnseen, UNCHANGED <<unread, written>>, delivered \subseteq delivered', discarded \subseteq discarded'
  PROVE  NothingReadUnseen'
  BY DEF NothingReadUnseen

-----------------------------------------------------------------------------
(* The steps of requesters, of the recovery scan and of stop requests.     *)

LEMMA SessionInitKept == SessionInit => MailKept
<1> SUFFICES ASSUME SessionInit PROVE MailKept
  OBVIOUS
<1>1. PICK owner \in [Backlog -> Slots], left \in SUBSET Backlog :
        unread = [s \in Slots |-> {m \in left : owner[m] = s}] /\ written = left
  BY DEF SessionInit
<1>2. \A s \in Slots : Named(run, s) = {}
  BY NoRunNames DEF SessionInit, Init
<1>3. KnownNames
  BY <1>2 DEF SessionInit, KnownNames
<1>4. NothingReadUnseen
  <2> SUFFICES ASSUME NEW m \in left PROVE \E s \in Slots : m \in unread[s]
    BY <1>1 DEF NothingReadUnseen
  <2>1. owner[m] \in Slots /\ m \in unread[owner[m]]
    BY <1>1
  <2> QED
    BY <2>1
<1>5. Awake
  BY <1>2, SlotsAssumption DEF Awake, AwakeAt, Attends, NamedMail, SessionInit
<1>6. BetweenTurns /\ Heard
  BY SlotsAssumption DEF BetweenTurns, Heard, SessionInit, Init, NoTurnInHand
<1> QED
  BY <1>3, <1>4, <1>5, <1>6 DEF MailKept

LEMMA AskKeeps == ASSUME Safe, SessionTyped, MailKept, Ask PROVE MailKept'
<1>1. UNCHANGED <<turns, sessionVars>>
  BY DEF Ask, AcquireIntervention, AcquireNewRun, AcquireScoped
<1>2. NothingReadUnseen'
  BY <1>1, SameMailSeen DEF MailKept, sessionVars, mailVars, asideVars, history
<1> QED
  BY <1>1, <1>2, AskNames, AsideKeeps DEF sessionVars, mailVars, loopVars, asideVars, history

LEMMA WriteKeeps ==
  ASSUME Safe, SessionTyped, MailKept, NEW l \in calls, WriteLetter(l)
  PROVE  MailKept'
<1> DEFINE m == CHOOSE n \in Msgs \ written : TRUE
<1>1. m \in Msgs /\ m \notin written
  BY DEF WriteLetter, SessionTyped, SessionTypeOK
<1>2. l.slot \in Slots
  BY DEF Safe, Typed, TypeOK, Lease
<1> HIDE DEF m
<1>3. /\ unread' = [unread EXCEPT ![l.slot] = @ \cup {m}]
      /\ written' = written \cup {m}
      /\ letters' = [letters EXCEPT ![l.id] = m]
      /\ UNCHANGED <<vars, loopVars, asideVars, faults, history>>
  BY DEF WriteLetter, m
<1>4. unread \in [Slots -> SUBSET Mail]
  BY DEF SessionTyped, SessionTypeOK
<1>5. BetweenTurns' /\ Heard'
  BY <1>3 DEF MailKept, BetweenTurns, Heard, vars, loopVars, asideVars, history
<1>6. \A s \in Slots : Named(run, s)' = Named(run, s)
  BY <1>3 DEF Named, vars
<1>7. KnownNames'
  <2>1. letters' \in [LeaseIds -> written' \cup {NoMsg}]
    BY <1>3 DEF MailKept, KnownNames, SessionTyped, SessionTypeOK
  <2> QED
    BY <1>3, <1>6, <2>1 DEF MailKept, KnownNames
<1>8. NothingReadUnseen'
  BY <1>2, <1>3, <1>4 DEF MailKept, NothingReadUnseen, asideVars, history
<1>9. ASSUME NEW s \in Loops PROVE AwakeAt(s)'
  <2>1. s \in Slots /\ AwakeAt(s)
    BY SlotsAssumption DEF MailKept, Awake
  <2>2. m \notin Named(run, s)
    BY <1>1, <2>1, IdsAssumption DEF MailKept, KnownNames
  <2>3. NamedMail(s)' \subseteq NamedMail(s)
    BY <1>3, <1>4, <1>6, <2>1, <2>2 DEF NamedMail
  <2> QED
    BY <1>3, <2>1, <2>3, KeepsAwake DEF vars, loopVars, asideVars, history
<1> QED
  BY <1>5, <1>7, <1>8, <1>9 DEF MailKept, Awake

LEMMA CommitKeeps ==
  ASSUME Safe, SessionTyped, MailKept, NEW l \in calls, CommitLetter(l)
  PROVE  MailKept'
<1> DEFINE m == letters[l.id]
<1>1. /\ CommitLease(l, m) /\ m # NoMsg /\ l.id \in LeaseIds
      /\ letters' = [letters EXCEPT ![l.id] = NoMsg]
      /\ UNCHANGED <<turns, unread, written, place, input, asideVars, faults, delivered, discarded, passed>>
  BY DEF CommitLetter, CommitLease
<1>2. m \in written
  BY <1>1 DEF MailKept, KnownNames
<1>3. BetweenTurns' /\ Heard'
  BY <1>1 DEF MailKept, BetweenTurns, Heard
<1>4. NothingReadUnseen'
  BY <1>1 DEF MailKept, NothingReadUnseen
<1>5. permit' \in [Slots -> BOOLEAN] /\ \A s \in Slots : permit[s] => permit'[s]
  BY DEF CommitLetter, Notify, SessionTyped, SessionTypeOK
<1>6. letters' \in [LeaseIds -> written \cup {NoMsg}]
  BY <1>1 DEF MailKept, KnownNames, SessionTyped, SessionTypeOK
<1>7. \A s \in Slots : Named(run, s)' = Named(run', s)
  BY DEF Named
<1>8. CASE NoNewNames(run')
  <2>1. KnownNames'
    BY <1>1, <1>6, <1>7, <1>8 DEF MailKept, KnownNames, NoNewNames
  <2>2. ASSUME NEW s \in Loops PROVE AwakeAt(s)'
    <3>1. s \in Slots /\ AwakeAt(s)
      BY SlotsAssumption DEF MailKept, Awake
    <3>2. NamedMail(s)' \subseteq NamedMail(s)
      BY <1>1, <1>8, <3>1, LessMail DEF MailKept
    <3> QED
      BY <1>1, <1>5, <3>1, <3>2, KeepsAwake
  <2> QED
    BY <1>3, <1>4, <2>1, <2>2 DEF MailKept, Awake
<1>9. CASE /\ IsActive(run) /\ l \in run.leases
           /\ \A t \in Slots : Named(run', t) \subseteq Named(run, t) \cup (IF t = l.slot THEN {m} ELSE {})
  <2>1. KnownNames'
    BY <1>1, <1>2, <1>6, <1>7, <1>9 DEF MailKept, KnownNames
  <2>2. \A s \in Loops : s = l.slot => permit'[s]
    BY <1>9, SlotsAssumption DEF CommitLetter, Notify
  <2>3. ASSUME NEW s \in Loops PROVE AwakeAt(s)'
    <3>1. CASE s = l.slot
      BY <2>2, <3>1 DEF AwakeAt
    <3>2. CASE s # l.slot
      <4>1. s \in Slots /\ AwakeAt(s)
        BY SlotsAssumption DEF MailKept, Awake
      <4>2. NamedMail(s)' \subseteq NamedMail(s)
        BY <1>1, <1>7, <1>9, <3>2, <4>1 DEF NamedMail
      <4> QED
        BY <1>1, <1>5, <4>1, <4>2, KeepsAwake
    <3> QED
      BY <3>1, <3>2
  <2> QED
    BY <1>3, <1>4, <2>1, <2>3 DEF MailKept, Awake
<1> QED
  BY <1>1, <1>8, <1>9, CommitNames

LEMMA SendKeeps ==
  ASSUME Safe, SessionTyped, MailKept, NEW l \in calls, Send(l)
  PROVE  MailKept'
<1>1. CASE DropLetter(l)
  <2>1. /\ UNCHANGED <<turns, mailVars, loopVars, asideVars, history>> /\ AbortLease(l)
        /\ faults' = 0 => faults = 0
    BY <1>1 DEF DropLetter, AbortLease, Fault, SessionTyped, SessionTypeOK
  <2>2. NothingReadUnseen'
    BY <2>1, SameMailSeen DEF MailKept, mailVars, asideVars, history
  <2> QED
    BY <2>1, <2>2, AbortNames, AsideKeeps DEF mailVars, loopVars, asideVars, history
<1> QED
  BY <1>1, WriteKeeps, CommitKeeps DEF Send

LEMMA RecoverKeeps == ASSUME Safe, SessionTyped, MailKept, Recover PROVE MailKept'
<1>1. UNCHANGED <<turns, mailVars, place, input, history>>
  BY DEF Recover, FindBacklog, ScanFails, RecoverFound, RecoverBacklog, loopVars, vars
<1>2. NothingReadUnseen'
  BY <1>1, SameMailSeen DEF MailKept, mailVars, history
<1>3. (\A s \in Slots : permit[s] => permit'[s]) /\ (faults' = 0 => faults = 0)
  BY DEF Recover, FindBacklog, ScanFails, RecoverFound, Notify, loopVars, Fault, SessionTyped, SessionTypeOK
<1>4. NoNewNames(run')
  <2>1. CASE UNCHANGED run
    BY <2>1 DEF NoNewNames
  <2>2. ASSUME NEW first \in Loops, RecoverBacklog(scan.found, first) PROVE NoNewNames(run')
    <3>1. scan.found \in SUBSET Slots
      BY SlotsAssumption DEF SessionTyped
    <3> QED
      BY <2>2, <3>1, RecoverNames
  <2> QED
    BY <2>1, <2>2 DEF Recover, FindBacklog, ScanFails, RecoverFound, vars
<1> QED
  BY <1>1, <1>2, <1>3, <1>4, AsideKeeps DEF mailVars, history

\* What a stop request leaves alone; it adds no mail but an idle notification.
LEMMA StopLeaves ==
  ASSUME SessionTyped, NEW p \in Stoppers, StopStep(p)
  PROVE  /\ UNCHANGED <<turns, written, letters, loopVars, delivered, passed>>
         /\ faults' = 0 => faults = 0
         /\ \A s \in Slots : unread'[s] \subseteq unread[s] \cup {Note}
<1>1. CASE ReadMail(p) \/ DiscardMail(p) \/ SweepBegins(p) \/ Notice(p)
  <2>1. UNCHANGED <<turns, written, letters, loopVars, faults, delivered, passed>>
    BY <1>1 DEF ReadMail, DiscardMail, SweepBegins, ListChildren, Notice, WriteNotice, vars, mailVars, history
  <2>2. \A s \in Slots : unread'[s] \subseteq unread[s] \cup {Note}
    BY <1>1 DEF ReadMail, DiscardMail, SweepBegins, Notice, mailVars, SessionTyped, SessionTypeOK
  <2> QED
    BY <2>1, <2>2
<1>2. CASE MailFails(p) \/ PortFails(p) \/ DropStop(p)
  <2>1. UNCHANGED <<turns, written, letters, loopVars, unread, delivered, passed>>
    BY <1>2 DEF MailFails, PortFails, DropStop, EndStop, sessionVars, mailVars, history
  <2>2. faults' = 0 => faults = 0
    BY <1>2 DEF MailFails, PortFails, DropStop, Fault, sessionVars, SessionTyped, SessionTypeOK
  <2> QED
    BY <2>1, <2>2
<1>3. CASE StopKeepsMail(p)
  <2>1. UNCHANGED sessionVars
    BY <1>3 DEF StopKeepsMail
  <2>2. UNCHANGED turns
    BY <1>3 DEF StopKeepsMail, CheckCancel, BeginCancel, SweepChild, FinishSweep, BeginCancelChild, FinishCancelChild,
         FinishLead, NotifyLead, FinishStarting, PauseSlot, CheckPause, BeginPause, FinishPause
  <2> QED
    BY <2>1, <2>2 DEF sessionVars, mailVars, history
<1> QED
  BY <1>1, <1>2, <1>3 DEF StopStep

LEMMA StopKeeps ==
  ASSUME Safe, SessionTyped, MailKept, NEW p \in Stoppers, StopStep(p)
  PROVE  MailKept'
<1>1. UNCHANGED <<turns, written, letters, loopVars, delivered, passed>>
  BY StopLeaves
<1>2. (faults' = 0 => faults = 0) /\ \A s \in Slots : unread'[s] \subseteq unread[s] \cup {Note}
  BY StopLeaves
<1>3. NothingReadUnseen'
  <2>1. CASE DiscardMail(p)
    <3>1. \A s \in Slots : unread'[s] = unread[s] \ drain[p].mail
      BY <2>1 DEF DiscardMail
    <3>2. discarded' = discarded \cup drain[p].mail
      BY <2>1 DEF DiscardMail
    <3> QED
      BY <1>1, <3>1, <3>2 DEF MailKept, NothingReadUnseen
  <2>2. CASE Notice(p)
    <3>1. UNCHANGED discarded /\ \A s \in Slots : unread[s] \subseteq unread'[s]
      BY <2>2 DEF Notice, history, SessionTyped, SessionTypeOK
    <3> QED
      BY <1>1, <3>1 DEF MailKept, NothingReadUnseen
  <2>3. CASE ReadMail(p) \/ SweepBegins(p) \/ MailFails(p) \/ PortFails(p) \/ DropStop(p) \/ StopKeepsMail(p)
    <3>1. UNCHANGED <<unread, discarded>>
      BY <2>3 DEF ReadMail, SweepBegins, MailFails, PortFails, DropStop, StopKeepsMail, sessionVars, mailVars, history
    <3> QED
      BY <1>1, <3>1, SameMailSeen DEF MailKept
  <2> QED
    BY <2>1, <2>2, <2>3 DEF StopStep
<1> QED
  BY <1>1, <1>2, <1>3, StopNames, AsideKeeps DEF loopVars

-----------------------------------------------------------------------------
(* The steps of an event loop.                                             *)

LEMMA LoopHere ==
  ASSUME Safe, SessionTyped, MailKept, NEW s \in Loops
  PROVE  /\ s \in Slots /\ AwakeAt(s) /\ turns[s] \in Turn
         /\ unread \in [Slots -> SUBSET Mail] /\ input \in [Slots -> SUBSET Mail]
         /\ permit \in [Slots -> BOOLEAN] /\ faults \in Nat
  BY SlotsAssumption DEF MailKept, Awake, Safe, Typed, TypeOK, SessionTyped, SessionTypeOK

\* A named wake means that there is a run, with an id, and a wake to peek.
LEMMA NamedFront ==
  ASSUME Safe, NEW s \in Slots, NamedMail(s) # {}
  PROVE  IsActive(run) /\ run.id # 0 /\ run.pending[s] # <<>> /\ Head(run.pending[s]) # NoWake
<1>1. IsActive(run) /\ DOMAIN run.pending[s] # {}
  BY DEF NamedMail, Named
<1>2. run.pending[s] # <<>>
  BY <1>1
<1>3. run.id # 0
  BY <1>1 DEF Safe, RunShape, IsActive, Typed, TypeOK
<1>4. Head(run.pending[s]) \in Wake /\ NoWake \notin Wake
  BY <1>2, FrontWakeType, NothingInHandType DEF Safe, Typed
<1> QED
  BY <1>1, <1>2, <1>3, <1>4

LEMMA LookKeeps ==
  ASSUME Safe, SessionTyped, MailKept, NEW s \in Loops, LookStep(s)
  PROVE  MailKept'
<1> USE LoopHere
<1> DEFINE Others == \A t \in Loops : t # s => /\ turns'[t] = turns[t] /\ place'[t] = place[t]
                                              /\ input'[t] = input[t] /\ (permit[t] => permit'[t])
<1>1. ASSUME NEW p, Goes(s, p) PROVE place'[s] = p /\ \A t \in Loops : t # s => place'[t] = place[t]
  BY <1>1, PlacesApart, SlotsAssumption
<1>2. ASSUME NEW h, HoldTurn(s, h) PROVE turns'[s] = h /\ \A t \in Loops : t # s => turns'[t] = turns[t]
  BY <1>2, HandsApart, SlotsAssumption
<1>3. ASSUME UNCHANGED <<mailVars, delivered, discarded>> PROVE NothingReadUnseen'
  BY <1>3, SameMailSeen DEF MailKept, mailVars
<1>4. NoNewNames(run) /\ (Look(s) => NoNewNames(run'))
  BY LookNames DEF NoNewNames
<1>5. ASSUME NEW r, run' = r, NoNewNames(r), unread' = unread PROVE NamedMail(s)' \subseteq NamedMail(s)
  BY <1>5, LessMail DEF MailKept
<1>6. CASE Notified(s)
  <2>1. /\ turns[s].phase = "idle" /\ Goes(s, "looking") /\ permit' = [permit EXCEPT ![s] = FALSE]
        /\ UNCHANGED <<vars, mailVars, input, asideVars, faults, history>>
    BY <1>6 DEF Notified, At, MailKept, BetweenTurns
  <2>2. AwakeAt(s)'
    BY <1>1, <2>1 DEF AwakeAt, Attends
  <2>3. Others
    BY <1>1, <2>1, SlotsAssumption DEF vars
  <2>4. NothingReadUnseen' /\ UNCHANGED turns /\ NoNewNames(run')
    BY <1>3, <1>4, <2>1 DEF vars, asideVars, history
  <2> QED
    BY <1>1, <2>1, <2>2, <2>3, <2>4, LoopKeeps DEF mailVars, asideVars, history
<1>7. CASE ReadMailbox(s)
  <2>1. /\ turns[s].phase = "idle" /\ Goes(s, "read") /\ input' = [input EXCEPT ![s] = unread[s]]
        /\ UNCHANGED <<vars, mailVars, permit, asideVars, faults, history>>
    BY <1>7 DEF ReadMailbox, At, MailKept, BetweenTurns
  <2>2. UNCHANGED <<turns, run, unread>> /\ input'[s] = unread[s]
    BY <2>1 DEF vars, mailVars
  <2>3. AwakeAt(s)'
    BY <1>1, <2>1, <2>2 DEF AwakeAt, Attends, NamedMail
  <2>4. Others
    BY <1>1, <2>1, <2>2, SlotsAssumption
  <2>5. NothingReadUnseen' /\ NoNewNames(run')
    BY <1>3, <1>4, <2>1, <2>2 DEF asideVars, history
  <2> QED
    BY <1>1, <2>1, <2>2, <2>3, <2>4, <2>5, LoopKeeps DEF mailVars, asideVars, history
<1>8. CASE ReadFails(s)
  <2>1. /\ turns[s].phase = "idle" /\ Goes(s, "waiting") /\ Fault
        /\ UNCHANGED <<vars, mailVars, permit, input, asideVars, history>>
    BY <1>8 DEF ReadFails, At, MailKept, BetweenTurns
  <2>2. AwakeAt(s)' /\ faults' # 0
    BY <2>1 DEF AwakeAt, Fault
  <2>3. Others /\ UNCHANGED turns
    BY <1>1, <2>1 DEF vars
  <2>4. NothingReadUnseen' /\ NoNewNames(run')
    BY <1>3, <1>4, <2>1 DEF vars, asideVars, history
  <2> QED
    BY <1>1, <2>1, <2>2, <2>3, <2>4, LoopKeeps DEF mailVars, asideVars, history
<1>9. CASE PeekNext(s)
  <2> DEFINE front == IF IsActive(run) /\ run.pending[s] # <<>> THEN Head(run.pending[s]) ELSE NoWake
             taken == IF front.source = "UserIntervention" THEN input[s] \cap {front.msg} ELSE input[s]
  <2>1. /\ place[s] = "read" /\ turns[s].phase = "idle" /\ UNCHANGED <<run, lastRun, ended, calls, stops>>
        /\ HoldTurn(s, [NoTurnInHand EXCEPT !.phase = "peeked", !.seen = front])
    BY <1>9 DEF PeekNext, PeekWake, At
  <2> HIDE DEF front
  <2>2. turns'[s].phase = "peeked" /\ turns'[s].seen = front
    <3>1. turns'[s] = [NoTurnInHand EXCEPT !.phase = "peeked", !.seen = front]
      BY <1>2, <2>1
    <3> QED
      BY <3>1, NothingInHandType DEF Turn
  <2>3. /\ input' = [input EXCEPT ![s] = taken]
        /\ passed' = IF input[s] # {} /\ input'[s] = {} THEN passed \cup {s} ELSE passed
        /\ UNCHANGED <<mailVars, place, permit, faults, delivered, discarded>>
    <3>1. /\ input' = [input EXCEPT ![s] = IF turns'[s].seen.source = "UserIntervention"
                                          THEN input[s] \cap {turns'[s].seen.msg} ELSE input[s]]
          /\ passed' = IF input[s] # {} /\ input'[s] = {} THEN passed \cup {s} ELSE passed
          /\ UNCHANGED <<mailVars, place, permit, faults, delivered, discarded>>
      BY <1>9 DEF PeekNext
    <3> QED
      BY <2>2, <3>1
  <2>4. NamedMail(s)' = NamedMail(s)
    BY <2>1, <2>3 DEF NamedMail, mailVars, Named
  <2>5. NamedMail(s) # {} => front # NoWake
    BY NamedFront DEF front
  <2>6. input'[s] = taken
    BY <2>3
  <2>7. AwakeAt(s)'
    <3>1. SUFFICES ASSUME faults' = 0, s \notin passed', ~permit'[s] PROVE Attends(s)'
      BY DEF AwakeAt
    <3>2. Attends(s)
      BY <2>3, <3>1 DEF AwakeAt
    <3>3. NamedMail(s) \subseteq input[s] /\ ~(input[s] # {} /\ taken = {})
      BY <2>1, <2>3, <2>6, <3>1, <3>2 DEF Attends
    <3>4. NamedMail(s) # {} => NamedMail(s) \subseteq taken \/ (front.source = "UserIntervention" /\ taken # {})
      BY <3>3
    <3> HIDE DEF taken
    <3> QED
      BY <2>1, <2>2, <2>3, <2>4, <2>5, <2>6, <3>4 DEF Attends
  <2>8. Others
    BY <1>2, <2>1, <2>3, SlotsAssumption
  <2>9. NothingReadUnseen' /\ NoNewNames(run')
    BY <1>3, <1>4, <2>1, <2>3
  <2> QED
    BY <2>1, <2>2, <2>3, <2>7, <2>8, <2>9, LoopKeeps DEF mailVars
<1>10. CASE NoteNext(s)
  <2> DEFINE noted == [turns[s] EXCEPT !.phase = "noted", !.run = IF IsActive(run) THEN run.id ELSE 0]
  <2>1. /\ place[s] = "read" /\ turns[s].phase = "peeked" /\ UNCHANGED <<run, lastRun, ended, calls, stops>>
        /\ HoldTurn(s, noted) /\ UNCHANGED sessionVars
    BY <1>10 DEF NoteNext, NoteRun, At
  <2>2. turns'[s] = noted
    BY <1>2, <2>1
  <2>3. /\ turns'[s].phase = "noted" /\ turns'[s].seen = turns[s].seen
        /\ turns'[s].run = IF IsActive(run) THEN run.id ELSE 0
    BY <2>2 DEF Turn
  <2>4. NamedMail(s)' = NamedMail(s) /\ UNCHANGED <<place, input, permit, faults, history, mailVars>>
    BY <2>1 DEF NamedMail, Named, sessionVars, mailVars, loopVars
  <2>5. AwakeAt(s)'
    <3>1. SUFFICES ASSUME faults' = 0, s \notin passed', ~permit'[s] PROVE Attends(s)'
      BY DEF AwakeAt
    <3>2. Attends(s)
      BY <2>4, <3>1 DEF AwakeAt, asideVars, history
    <3>3. NamedMail(s) # {} => IsActive(run) /\ run.id # 0
      BY NamedFront
    <3> QED
      BY <2>1, <2>3, <2>4, <3>2, <3>3 DEF Attends
  <2>6. Others
    BY <1>2, <2>1, <2>4
  <2>7. NothingReadUnseen' /\ NoNewNames(run')
    BY <1>3, <1>4, <2>1, <2>4 DEF asideVars, history
  <2> QED
    BY <2>1, <2>3, <2>4, <2>5, <2>6, <2>7, LoopKeeps DEF mailVars, asideVars, history
<1>11. CASE LeaveMail(s)
  <2>1. /\ place[s] = "read" /\ turns[s].phase = "noted"
        /\ turns[s].run = 0 \/ turns[s].seen = NoWake
        /\ HoldTurn(s, NoTurnInHand) /\ UNCHANGED <<run, lastRun, ended, calls, stops>>
        /\ Goes(s, "waiting") /\ input' = [input EXCEPT ![s] = {}]
        /\ UNCHANGED <<mailVars, permit, asideVars, faults, history>>
    BY <1>11 DEF LeaveMail, LeaveBacklog, At
  <2>2. turns'[s].phase = "idle" /\ place'[s] = "waiting"
    BY <1>1, <1>2, <2>1, NothingInHandType
  <2>3. NamedMail(s)' = NamedMail(s)
    BY <2>1 DEF NamedMail, Named, mailVars
  <2>4. AwakeAt(s)'
    <3>1. SUFFICES ASSUME faults' = 0, s \notin passed', ~permit'[s] PROVE Attends(s)'
      BY DEF AwakeAt
    <3>2. Attends(s)
      BY <2>1, <3>1 DEF AwakeAt, asideVars, history
    <3> QED
      BY <2>1, <2>2, <2>3, <3>2 DEF Attends
  <2>5. Others
    BY <1>1, <1>2, <2>1, SlotsAssumption
  <2>6. NothingReadUnseen' /\ NoNewNames(run')
    BY <1>3, <1>4, <2>1 DEF asideVars, history
  <2> QED
    BY <2>1, <2>2, <2>4, <2>5, <2>6, LoopKeeps DEF mailVars, asideVars, history
<1>12. CASE FindEmpty(s)
  <2>1. /\ place[s] = "read" /\ turns[s].phase = "noted" /\ input[s] = {}
        /\ HoldTurn(s, NoTurnInHand) /\ Look(s) /\ Goes(s, "waiting")
        /\ UNCHANGED <<mailVars, permit, input, faults, history>>
    BY <1>12 DEF FindEmpty, ObserveEmptyWake, Look, At
  <2>2. turns'[s].phase = "idle" /\ place'[s] = "waiting" /\ NoNewNames(run')
    BY <1>1, <1>2, <1>4, <2>1, NothingInHandType
  <2>3. NamedMail(s)' \subseteq NamedMail(s) /\ NamedMail(s) \subseteq unread[s]
    BY <1>5, <2>1, <2>2 DEF mailVars, NamedMail
  <2>4. AwakeAt(s)'
    <3>1. SUFFICES ASSUME faults' = 0, s \notin passed', ~permit'[s] PROVE Attends(s)'
      BY DEF AwakeAt
    <3>2. Attends(s)
      BY <2>1, <3>1 DEF AwakeAt, history
    <3>3. NamedMail(s) = {}
      BY <2>1, <3>2 DEF Attends
    <3> QED
      BY <2>2, <2>3, <3>3 DEF Attends
  <2>5. Others
    BY <1>1, <1>2, <2>1
  <2>6. NothingReadUnseen'
    BY <1>3, <2>1 DEF history
  <2> QED
    BY <2>1, <2>2, <2>4, <2>5, <2>6, LoopKeeps DEF mailVars, history
<1>13. CASE Claim(s)
  <2>1. /\ turns[s].phase = "noted" /\ Look(s) /\ ClaimWake(s)
        /\ UNCHANGED <<mailVars, permit, asideVars, faults, history>>
        /\ IF turns'[s].phase = "claimed" THEN Goes(s, "turn") /\ UNCHANGED input
           ELSE Goes(s, "waiting") /\ input' = [input EXCEPT ![s] = {}]
    BY <1>13 DEF Claim, ClaimWake, Look
  <2>2. \/ /\ IsActive(run) /\ run.pending[s] # <<>>
           /\ HoldTurn(s, [turns[s] EXCEPT !.phase = "claimed", !.wake = Head(run.pending[s])])
        \/ /\ ~(IsActive(run) /\ run.pending[s] # <<>>)
           /\ Keep(run) /\ HoldTurn(s, NoTurnInHand)
    BY <2>1 DEF ClaimWake
  <2>3. \/ turns'[s].phase = "claimed" /\ place'[s] = "turn"
        \/ turns'[s].phase = "idle" /\ place'[s] = "waiting" /\ NamedMail(s) = {}
    <3>1. CASE IsActive(run) /\ run.pending[s] # <<>>
      <4>1. turns'[s] = [turns[s] EXCEPT !.phase = "claimed", !.wake = Head(run.pending[s])]
        BY <1>2, <2>2, <3>1
      <4>2. turns'[s].phase = "claimed"
        BY <4>1 DEF Turn
      <4> QED
        BY <1>1, <2>1, <4>2
    <3>2. CASE ~(IsActive(run) /\ run.pending[s] # <<>>)
      <4>1. turns'[s].phase = "idle"
        BY <1>2, <2>2, <3>2, NothingInHandType
      <4>2. NamedMail(s) = {}
        BY <3>2, NamedFront
      <4> QED
        BY <1>1, <2>1, <4>1, <4>2
    <3> QED
      BY <3>1, <3>2
  <2>4. NoNewNames(run') /\ NamedMail(s)' \subseteq NamedMail(s)
    BY <1>4, <1>5, <2>1 DEF mailVars
  <2>5. AwakeAt(s)'
    BY <2>3, <2>4 DEF AwakeAt, Attends
  <2>6. Others
    BY <1>1, <1>2, <2>1, <2>2, SlotsAssumption
  <2>7. NothingReadUnseen'
    BY <1>3, <2>1 DEF asideVars, history
  <2> QED
    BY <2>1, <2>3, <2>4, <2>5, <2>6, <2>7, LoopKeeps DEF mailVars, asideVars, history
<1> QED
  BY <1>6, <1>7, <1>8, <1>9, <1>10, <1>11, <1>12, <1>13 DEF LookStep

\* The rest of a turn happens away from the mailbox: no promise about what the
\* loop knows of it has to be kept.
LEMMA AwayKeeps ==
  ASSUME Safe, SessionTyped, MailKept, NEW s \in Loops, Execute(s) \/ Finalize(s) \/ UNCHANGED vars,
         NoNewNames(run'), UNCHANGED <<written, letters, passed>>,
         \A t \in Loops : t # s => /\ turns'[t] = turns[t] /\ place'[t] = place[t]
                                   /\ input'[t] = input[t] /\ (permit[t] => permit'[t]),
         \A t \in Slots : unread'[t] \subseteq unread[t] \cup {Note},
         faults' = 0 => faults = 0, delivered \subseteq delivered',
         place'[s] \notin {"waiting", "read"}, place'[s] = "looking" => turns'[s].phase = "idle",
         turns'[s].phase \in {"late", "swept", "running"} /\ place'[s] = "turn"
           => input'[s] \subseteq delivered',
         NothingReadUnseen'
  PROVE  MailKept'
<1>1. AwakeAt(s)'
  BY DEF AwakeAt, Attends
<1> QED
  BY <1>1, LoopKeeps

\* A loop with a turn in hand is not between two turns.
LEMMA InTurn ==
  ASSUME MailKept, NEW s \in Loops, turns[s].phase \notin {"idle", "peeked", "noted"}
  PROVE  place[s] \notin {"waiting", "looking", "read"}
  BY DEF MailKept, BetweenTurns

LEMMA TurnKeeps ==
  ASSUME Safe, SessionTyped, MailKept, NEW s \in Loops, TurnStep(s)
  PROVE  MailKept'
<1> USE LoopHere
<1>1. ASSUME NEW p, Goes(s, p) PROVE place'[s] = p /\ \A t \in Loops : t # s => place'[t] = place[t]
  BY <1>1, PlacesApart, SlotsAssumption
<1>2. ASSUME NEW h, HoldTurn(s, h) PROVE turns'[s] = h /\ \A t \in Loops : t # s => turns'[t] = turns[t]
  BY <1>2, HandsApart, SlotsAssumption
<1>3. ASSUME UNCHANGED <<mailVars, discarded>>, delivered \subseteq delivered' PROVE NothingReadUnseen'
  BY <1>3, SameMailSeen DEF MailKept, mailVars
<1>4. NoNewNames(run)
  BY DEF NoNewNames
<1>5. CASE Refused(s)
  <2>1. /\ StartFails(s) /\ turns[s].phase = "claimed" /\ UNCHANGED sessionVars
        /\ HoldTurn(s, [turns[s] EXCEPT !.phase = "failed", !.wake = NoWake])
    BY <1>5 DEF Refused, StartFails
  <2>2. turns'[s].phase = "failed" /\ \A t \in Loops : t # s => turns'[t] = turns[t]
    <3>1. [turns[s] EXCEPT !.phase = "failed", !.wake = NoWake].phase = "failed"
      BY DEF Turn
    <3> QED
      BY <1>2, <2>1, <3>1
  <2>3. UNCHANGED <<mailVars, place, permit, input, faults, accepted, delivered, discarded, passed>>
    BY <2>1 DEF sessionVars, loopVars, asideVars, history
  <2>4. NoNewNames(run') /\ NothingReadUnseen'
    BY <1>3, <2>1, <2>3, ExecuteNames
  <2> QED
    BY <2>1, <2>2, <2>3, <2>4, InTurn, AwayKeeps DEF mailVars, Execute
<1>6. CASE Prompt(s)
  <2>1. PICK turn \in TurnIds : StartTurn(s, turn)
    BY <1>6 DEF Prompt
  <2>2. PICK phase : turns[s].phase = "claimed" /\
          HoldTurn(s, [turns[s] EXCEPT !.phase = phase, !.wake = NoWake, !.turn = turn])
    BY <2>1 DEF StartTurn
  <2>3. \A t \in Loops : t # s => turns'[t] = turns[t]
    BY <1>2, <2>2
  <2>4. /\ UNCHANGED <<mailVars, place, permit, input, faults, passed, discarded>>
        /\ delivered' = delivered \cup input[s]
    BY <1>6 DEF Prompt, loopVars
  <2>5. NoNewNames(run') /\ NothingReadUnseen'
    BY <1>3, <2>1, <2>4, ExecuteNames
  <2> QED
    BY <2>1, <2>2, <2>3, <2>4, <2>5, InTurn, AwayKeeps DEF mailVars, Execute
<1>7. CASE LateStart(s)
  <2>1. PICK t : /\ HoldTurn(s, t) /\ turns[s].phase \in {"late", "swept", "running"}
                 /\ t.phase \in {"swept", "running", "failed"}
    <3>1. \A phase \in TurnPhase : [turns[s] EXCEPT !.phase = phase].phase = phase
                                   /\ [turns[s] EXCEPT !.phase = phase, !.turn = NoTurn].phase = phase
      BY DEF Turn
    <3>2. {"swept", "running", "failed"} \subseteq TurnPhase
      BY DEF TurnPhase
    <3> QED
      BY <1>7, <3>1, <3>2 DEF LateStart, CancelLateStart, FinishLateStart, FailStarted
  <2>2. turns'[s] = t /\ \A u \in Loops : u # s => turns'[u] = turns[u]
    BY <1>2, <2>1
  <2>3. UNCHANGED <<mailVars, place, permit, input, faults, accepted, delivered, discarded, passed>>
    BY <1>7 DEF LateStart, sessionVars, loopVars, asideVars, history
  <2>4. NoNewNames(run') /\ NothingReadUnseen' /\ Execute(s)
    BY <1>3, <1>7, <2>3, ExecuteNames DEF LateStart, Execute
  <2>5. place[s] = "turn" => input[s] \subseteq delivered
    BY <2>1 DEF MailKept, Heard
  <2>6. place[s] \notin {"waiting", "looking", "read"}
    BY <2>1, InTurn
  <2> QED
    BY <2>1, <2>2, <2>3, <2>4, <2>5, <2>6, AwayKeeps DEF mailVars
<1>8. CASE MarkRead(s)
  <2>1. /\ place[s] = "turn" /\ turns[s].phase = "running" /\ Goes(s, "marked")
        /\ unread' = [t \in Slots |-> unread[t] \ input[s]] \/ unread' = unread
        /\ UNCHANGED <<vars, written, letters, permit, input, asideVars, history>>
    BY <1>8 DEF MarkRead, At
  <2>2. input[s] \subseteq delivered
    BY <2>1 DEF MailKept, Heard
  <2>3. NothingReadUnseen'
    BY <2>1, <2>2 DEF MailKept, NothingReadUnseen, asideVars, history
  <2>4. faults' = 0 => faults = 0
    BY <1>8 DEF MarkRead, Fault
  <2>5. NoNewNames(run') /\ UNCHANGED turns
    BY <1>4, <2>1 DEF vars
  <2> QED
    BY <1>1, <2>1, <2>3, <2>4, <2>5, AwayKeeps DEF asideVars, history
<1>9. CASE TellLead(s)
  <2>1. /\ Goes(s, "told")
        /\ unread' = [unread EXCEPT ![Lead] = IF s = Lead THEN @ ELSE @ \cup {Note}] \/ unread' = unread
        /\ UNCHANGED <<vars, written, letters, permit, input, asideVars, history>>
    BY <1>9 DEF TellLead
  <2>2. \A t \in Slots : unread[t] \subseteq unread'[t] /\ unread'[t] \subseteq unread[t] \cup {Note}
    BY <2>1
  <2>3. NothingReadUnseen'
    BY <2>1, <2>2 DEF MailKept, NothingReadUnseen, asideVars, history
  <2>4. faults' = 0 => faults = 0
    BY <1>9 DEF TellLead, Fault
  <2>5. NoNewNames(run') /\ UNCHANGED turns
    BY <1>4, <2>1 DEF vars
  <2> QED
    BY <1>1, <2>1, <2>2, <2>3, <2>4, <2>5, AwayKeeps DEF asideVars, history
<1>10. CASE WakeLead(s)
  <2>1. /\ place[s] = "told" /\ Finalize(s)
        /\ UNCHANGED <<mailVars, place, input, asideVars, faults, history>>
    BY <1>10 DEF WakeLead, Finalize, At
  <2>2. PICK t : HoldTurn(s, t)
    BY <1>10 DEF WakeLead, AcquireWakeLead, CommitWakeLead
  <2>3. \A u \in Loops : permit[u] => permit'[u]
    BY <1>10, SlotsAssumption DEF WakeLead, Notify
  <2>4. NoNewNames(run') /\ NothingReadUnseen'
    BY <1>3, <2>1, FinalizeNames DEF asideVars, history
  <2> QED
    BY <1>2, <2>1, <2>2, <2>3, <2>4, AwayKeeps DEF mailVars, asideVars, history
<1>11. CASE Complete(s)
  <2>1. place[s] = "told" /\ Finalize(s) /\ UNCHANGED sessionVars
    BY <1>11 DEF Complete, Finalize, At
  <2>2. PICK t : HoldTurn(s, t)
    BY <1>11 DEF Complete, CompleteChild, MaybeCompleteRun
  <2>3. UNCHANGED <<mailVars, place, permit, input, faults, accepted, delivered, discarded, passed>>
    BY <2>1 DEF sessionVars, loopVars, asideVars, history
  <2>4. NoNewNames(run') /\ NothingReadUnseen'
    BY <1>3, <2>1, <2>3, FinalizeNames
  <2> QED
    BY <1>2, <2>1, <2>2, <2>3, <2>4, AwayKeeps DEF mailVars
<1>12. CASE GoRound(s)
  <2>1. /\ Finalize(s) /\ HoldTurn(s, NoTurnInHand) /\ Goes(s, "looking")
        /\ input' = [input EXCEPT ![s] = {}] /\ UNCHANGED <<mailVars, asideVars, faults, history>>
    BY <1>12 DEF GoRound, ReleaseSuppressed, Finalize
  <2>2. \A u \in Loops : permit[u] => permit'[u]
    BY <1>12, SlotsAssumption DEF GoRound, Notify
  <2>3. turns'[s].phase = "idle" /\ \A t \in Loops : t # s => turns'[t] = turns[t]
    BY <1>2, <2>1, NothingInHandType
  <2>4. NoNewNames(run') /\ NothingReadUnseen'
    BY <1>3, <2>1, FinalizeNames DEF asideVars, history
  <2> QED
    BY <1>1, <2>1, <2>2, <2>3, <2>4, SlotsAssumption, AwayKeeps DEF mailVars, asideVars, history
<1> QED
  BY <1>5, <1>6, <1>7, <1>8, <1>9, <1>10, <1>11, <1>12 DEF TurnStep

-----------------------------------------------------------------------------
(* The theorems.                                                           *)

SessionSafe == Safe /\ SessionTyped /\ MailKept

LEMMA SessionStepKeeps == ASSUME SessionSafe, [SessionNext]_allVars PROVE SessionSafe'
<1> USE DEF SessionSafe
<1>1. SessionTyped' /\ [Next]_vars
  BY SessionStepTyped
<1>2. Safe'
  BY <1>1, NextSafe
<1>3. MailKept'
  <2>1. CASE UNCHANGED allVars
    <3>1. NoNewNames(run') /\ UNCHANGED <<turns, place, input, permit, unread, written, letters, faults, delivered, discarded, passed>>
      BY <2>1 DEF NoNewNames, allVars, vars, sessionVars, mailVars, loopVars, asideVars, history
    <3>2. NothingReadUnseen'
      BY <3>1, SameMailSeen DEF MailKept
    <3> QED
      BY <3>1, <3>2, AsideKeeps
  <2>2. ASSUME NEW s \in Loops, LoopStep(s) PROVE LookStep(s) \/ TurnStep(s)
    BY <2>2 DEF LoopStep, LookStep, TurnStep
  <2> QED
    BY <2>1, <2>2, AskKeeps, SendKeeps, RecoverKeeps, LookKeeps, TurnKeeps, StopKeeps DEF SessionNext
<1> QED
  BY <1>1, <1>2, <1>3

LEMMA SessionAlwaysSafe == SessionSpec => []SessionSafe
<1>1. SessionInit => SessionSafe
  BY InitSessionTyped, SessionInitKept, InitSafe DEF SessionInit, SessionSafe
<1>2. SessionSafe /\ [SessionNext]_allVars => SessionSafe'
  BY SessionStepKeeps
<1> QED
  BY <1>1, <1>2, PTL DEF SessionSpec

\* A message leaves the unread mail only by being handed to an agent or by being
\* discarded with its run (mark_read_batch, mark_all_unread_for_agents_read).
THEOREM NothingIsReadUnseen == SessionSpec => []NothingReadUnseen
<1>1. SessionSafe => NothingReadUnseen
  BY DEF SessionSafe, MailKept
<1> QED
  BY <1>1, SessionAlwaysSafe, PTL

\* A loop that waits without a permit does not sleep on mail a pending wake of
\* its slot names, in whatever order senders write, commit and notify while it
\* looks (event_loop.rs:145, session.rs:441).
THEOREM NoSleepOnWork == SessionSpec => []NeverSleepsOnWork
<1>1. SessionSafe => NeverSleepsOnWork
  <2> SUFFICES ASSUME SessionSafe, NEW s \in Loops, At(s, "waiting"), ~permit[s], faults = 0, s \notin passed
               PROVE  WakeNames(s) \cap unread[s] = {}
    BY DEF NeverSleepsOnWork
  <2>1. Attends(s)
    BY DEF SessionSafe, MailKept, Awake, AwakeAt
  <2>2. WakeNames(s) \cap unread[s] = NamedMail(s)
    BY DEF WakeNames, NamedMail, Named
  <2> QED
    BY <2>1, <2>2 DEF Attends, At
<1> QED
  BY <1>1, SessionAlwaysSafe, PTL

\* In a session too, a sender that holds a lease keeps its run from completing
\* under it (team_run.rs:732).
THEOREM SessionKeepsLeases == SessionSpec => []LeaseKeepsRunOpen
  BY SessionRefinesRun, LeaseKeepsOpen, PTL

\* In a session too, reservations and children belong to the loops that work on
\* them, runs follow TeamRunLifecycle and a cancelled run takes on nothing new
\* (team_run.rs).
THEOREM SessionRunsAreSafe == SessionSpec => []WorkOwned /\ ImplementsLifecycle /\ WindsDown
  BY SessionRefinesRun, WorkIsOwned, LifecycleImplemented, CancelOnlyWindsDown, PTL

\* What holds of the order of wakes in TeamRun holds in the session: the user is
\* served first, but for a wake whose start was refused (team_run.rs:383, 1237).
THEOREM SessionServesUserFirst == SessionSpec => []ForegroundFirst
  BY UserStaysFirst, SessionRefinesRun, PTL

-----------------------------------------------------------------------------
(* Once.  As long as no call of the mailbox and no started turn fails, a   *)
(* message an agent has been given is unread only until the turn it was    *)
(* given to is over.                                                       *)

Holds(s) == (unread[s] \cup input[s]) \cap Msgs

\* A message is in the mailbox of one slot, and in the hands of its loop.
OwnMail ==
  /\ \A s \in Slots : Holds(s) \subseteq written
  /\ \A s, t \in Slots : s # t => Holds(s) \cap Holds(t) = {}
  /\ delivered \cap Msgs \subseteq written

TurnIsOver ==
  \A s \in Loops : place[s] \in {"marked", "told"} => turns[s].phase \notin {"claimed", "late", "swept"}

OnceAt(s) ==
  /\ \A m \in Msgs \cap delivered \cap unread[s] :
       /\ place[s] = "turn" /\ turns[s].phase \in {"late", "swept", "running"}
       /\ m \in input[s]
  /\ place[s] = "read" \/ turns[s].phase = "claimed" => input[s] \cap delivered \cap Msgs = {}

AtMostOnce ==
  faults = 0 =>
    /\ \A s \in Loops : OnceAt(s)
    /\ \A s \in Slots \ Loops : Msgs \cap delivered \cap unread[s] = {}

OnceKept == OwnMail /\ TurnIsOver /\ AtMostOnce

LEMMA SessionInitOnce == SessionInit => OnceKept
<1> SUFFICES ASSUME SessionInit PROVE OnceKept
  OBVIOUS
<1>1. PICK owner \in [Backlog -> Slots], left \in SUBSET Backlog :
        unread = [s \in Slots |-> {m \in left : owner[m] = s}] /\ written = left
  BY DEF SessionInit
<1>2. OwnMail
  BY <1>1 DEF SessionInit, OwnMail, Holds
<1>3. \A s \in Loops : place[s] = "waiting" /\ turns[s].phase = "idle"
  BY SlotsAssumption DEF SessionInit, Init, NoTurnInHand
<1> QED
  BY <1>2, <1>3 DEF SessionInit, OnceKept, TurnIsOver, AtMostOnce, OnceAt

\* A step of somebody else.
LEMMA AsideOnce ==
  ASSUME OnceKept, UNCHANGED <<turns, place, input, delivered>>, written \subseteq written',
         \A s \in Slots : unread'[s] \subseteq unread[s] \cup {Note}, faults' = 0 => faults = 0
  PROVE  OnceKept'
<1>1. \A s \in Slots : unread'[s] \cap Msgs \subseteq unread[s]
  BY SessionAssumption
<1>2. \A s \in Slots : Holds(s)' \subseteq Holds(s)
  BY <1>1 DEF Holds
<1>3. OwnMail' /\ TurnIsOver'
  BY <1>2 DEF OnceKept, OwnMail, TurnIsOver
<1>4. AtMostOnce'
  BY <1>1, SlotsAssumption DEF OnceKept, AtMostOnce, OnceAt
<1> QED
  BY <1>3, <1>4 DEF OnceKept

\* What is written is new.
LEMMA WriteOnce ==
  ASSUME Safe, SessionTyped, OnceKept, NEW l \in calls, WriteLetter(l)
  PROVE  OnceKept'
<1> DEFINE m == CHOOSE n \in Msgs \ written : TRUE
<1>1. m \in Msgs /\ m \notin written
  BY DEF WriteLetter, SessionTyped, SessionTypeOK
<1>2. l.slot \in Slots
  BY DEF Safe, Typed, TypeOK, Lease
<1> HIDE DEF m
<1>3. /\ unread' = [unread EXCEPT ![l.slot] = @ \cup {m}] /\ written' = written \cup {m}
      /\ UNCHANGED <<vars, loopVars, asideVars, faults, history>>
  BY DEF WriteLetter, m
<1>4. /\ unread \in [Slots -> SUBSET Mail]
      /\ UNCHANGED <<turns, place, input, faults, delivered>>
  BY <1>3 DEF SessionTyped, SessionTypeOK, vars, loopVars, asideVars, history
<1>5. \A s \in Slots : Holds(s)' = IF s = l.slot THEN Holds(s) \cup {m} ELSE Holds(s)
  BY <1>1, <1>2, <1>3, <1>4 DEF Holds
<1>6. \A s \in Slots : m \notin Holds(s)
  BY <1>1 DEF OnceKept, OwnMail
<1>7. OwnMail'
  BY <1>3, <1>4, <1>5, <1>6 DEF OnceKept, OwnMail
<1>8. \A s \in Slots : delivered \cap unread'[s] \cap Msgs = delivered \cap unread[s] \cap Msgs
  BY <1>1, <1>2, <1>3, <1>4 DEF OnceKept, OwnMail
<1>9. TurnIsOver' /\ AtMostOnce'
  BY <1>4, <1>8, SlotsAssumption DEF OnceKept, TurnIsOver, AtMostOnce, OnceAt
<1> QED
  BY <1>7, <1>9 DEF OnceKept

\* A step of the loop of s that hands nothing over.
LEMMA LoopOnce ==
  ASSUME OnceKept, NEW s \in Loops, UNCHANGED <<written, delivered>>,
         \A t \in Slots : t # s => input'[t] = input[t],
         \A t \in Loops : t # s => turns'[t] = turns[t] /\ place'[t] = place[t],
         \A t \in Slots : unread'[t] \subseteq unread[t] \cup {Note},
         input'[s] \cap Msgs \subseteq Holds(s), faults' = 0 => faults = 0,
         place'[s] \in {"marked", "told"} => turns'[s].phase \notin {"claimed", "late", "swept"},
         faults' = 0 => OnceAt(s)'
  PROVE  OnceKept'
<1>0. Note \notin Msgs /\ s \in Slots
  BY SessionAssumption, SlotsAssumption
<1>1. \A t \in Slots : Holds(t)' \subseteq Holds(t)
  BY <1>0 DEF Holds
<1>2. OwnMail' /\ TurnIsOver'
  BY <1>1 DEF OnceKept, OwnMail, TurnIsOver
<1>3. \A t \in Slots : delivered' \cap unread'[t] \cap Msgs \subseteq delivered \cap unread[t] \cap Msgs
  BY <1>0
<1>4. ASSUME faults' = 0, NEW t \in Loops, t # s PROVE OnceAt(t)'
  BY <1>3, <1>4, SlotsAssumption DEF OnceKept, AtMostOnce, OnceAt
<1>5. AtMostOnce'
  BY <1>3, <1>4 DEF OnceKept, AtMostOnce
<1> QED
  BY <1>2, <1>5 DEF OnceKept

-----------------------------------------------------------------------------
\* A loop whose turn is over, or has not begun, has no mail it handed over.
LEMMA NothingLeft ==
  ASSUME OnceKept, faults = 0, NEW s \in Loops,
         place[s] # "turn" \/ turns[s].phase \notin {"late", "swept", "running"}
  PROVE  Msgs \cap delivered \cap unread[s] = {}
  BY DEF OnceKept, AtMostOnce, OnceAt

LEMMA StillNothing ==
  ASSUME NEW s \in Loops, Msgs \cap delivered \cap unread[s] = {}, UNCHANGED delivered,
         unread'[s] \subseteq unread[s] \cup {Note},
         place'[s] = "read" \/ turns'[s].phase = "claimed" => input'[s] \cap delivered \cap Msgs = {}
  PROVE  OnceAt(s)'
<1>1. Note \notin Msgs
  BY SessionAssumption
<1>2. Msgs \cap delivered' \cap unread'[s] = {}
  BY <1>1
<1> QED
  BY <1>2 DEF OnceAt

\* A turn that has been claimed and is not over is at its place.
LEMMA ClaimedHere ==
  ASSUME SessionTyped, MailKept, OnceKept, NEW s \in Loops, turns[s].phase \in {"claimed", "late", "swept"}
  PROVE  place[s] = "turn"
<1>1. place[s] \in Place
  BY SlotsAssumption DEF SessionTyped, SessionTypeOK
<1>2. place[s] \notin {"waiting", "looking", "read"}
  BY InTurn
<1>3. place[s] \notin {"marked", "told"}
  BY DEF OnceKept, TurnIsOver
<1> QED
  BY <1>1, <1>2, <1>3 DEF Place

\* What a loop does before it claims a wake leaves the mail alone; what it has
\* in hand is what was unread when it looked, or less.
LEMMA LookHands ==
  ASSUME Safe, SessionTyped, MailKept, NEW s \in Loops, LookStep(s)
  PROVE  /\ UNCHANGED <<mailVars, delivered>> /\ (faults' = 0 => faults = 0)
         /\ \A t \in Slots : t # s => input'[t] = input[t]
         /\ \A t \in Loops : t # s => turns'[t] = turns[t] /\ place'[t] = place[t]
         /\ place[s] \in {"waiting", "looking", "read"} /\ place'[s] \notin {"marked", "told"}
         /\ \/ input'[s] = unread[s]
            \/ place[s] = "read" /\ input'[s] \subseteq input[s]
            \/ /\ input'[s] = input[s]
               /\ place'[s] # "read" /\ turns'[s].phase # "claimed"
<1> USE LoopHere
<1>1. ASSUME NEW p, Goes(s, p) PROVE place'[s] = p /\ \A t \in Loops : t # s => place'[t] = place[t]
  BY <1>1, PlacesApart, SlotsAssumption
<1>2. ASSUME NEW h, HoldTurn(s, h) PROVE \A t \in Loops : t # s => turns'[t] = turns[t]
  BY <1>2, HandsApart, SlotsAssumption
<1>3. CASE Notified(s) \/ ReadFails(s)
  <2>1. /\ turns[s].phase = "idle"
        /\ Goes(s, "looking") \/ Goes(s, "waiting")
        /\ place[s] \in {"waiting", "looking"} /\ (faults' = 0 => faults = 0)
        /\ UNCHANGED <<vars, mailVars, input, history>>
    BY <1>3 DEF Notified, ReadFails, Fault, At, MailKept, BetweenTurns
  <2> QED
    BY <1>1, <2>1 DEF vars, asideVars, history
<1>4. CASE ReadMailbox(s)
  <2>1. /\ Goes(s, "read") /\ place[s] = "looking" /\ input' = [input EXCEPT ![s] = unread[s]]
        /\ UNCHANGED <<vars, mailVars, faults, history>>
    BY <1>4 DEF ReadMailbox, At
  <2> QED
    BY <1>1, <2>1 DEF vars, asideVars, history
<1>5. CASE PeekNext(s) \/ NoteNext(s)
  <2>1. PICK h : HoldTurn(s, h)
    BY <1>5 DEF PeekNext, NoteNext, PeekWake, NoteRun
  <2>2. place[s] = "read" /\ UNCHANGED <<mailVars, place, faults, delivered>>
    BY <1>5 DEF PeekNext, NoteNext, At, sessionVars, loopVars, history
  <2>3. input'[s] \subseteq input[s] /\ \A t \in Slots : t # s => input'[t] = input[t]
    BY <1>5 DEF PeekNext, NoteNext, sessionVars, loopVars
  <2> QED
    BY <1>2, <2>1, <2>2, <2>3
<1>6. CASE LeaveMail(s) \/ FindEmpty(s) \/ Claim(s)
  <2>1. PICK h : HoldTurn(s, h)
    BY <1>6 DEF LeaveMail, FindEmpty, Claim, LeaveBacklog, ObserveEmptyWake, ClaimWake
  <2>2. PICK p : Goes(s, p) /\ p \in {"waiting", "turn"}
    BY <1>6 DEF LeaveMail, FindEmpty, Claim
  <2>3. place[s] = "read" /\ UNCHANGED <<mailVars, faults, delivered>>
    BY <1>6 DEF LeaveMail, FindEmpty, Claim, At, asideVars, history
  <2>4. input' = [input EXCEPT ![s] = {}] \/ input' = input
    BY <1>6 DEF LeaveMail, FindEmpty, Claim
  <2> QED
    BY <1>1, <1>2, <2>1, <2>2, <2>3, <2>4
<1> QED
  BY <1>3, <1>4, <1>5, <1>6 DEF LookStep

LEMMA LookOnce ==
  ASSUME Safe, SessionTyped, MailKept, OnceKept, NEW s \in Loops, LookStep(s)
  PROVE  OnceKept'
<1>1. s \in Slots
  BY SlotsAssumption
<1>2. UNCHANGED <<unread, written, delivered>>
  BY LookHands DEF mailVars
<1>3. input'[s] \cap Msgs \subseteq Holds(s)
  BY LookHands DEF Holds
<1>4. ASSUME faults' = 0 PROVE OnceAt(s)'
  <2>1. faults = 0 /\ Msgs \cap delivered \cap unread[s] = {}
    BY <1>4, LookHands, NothingLeft
  <2>2. place[s] = "read" => input[s] \cap delivered \cap Msgs = {}
    BY <2>1 DEF OnceKept, AtMostOnce, OnceAt
  <2>3. place'[s] = "read" \/ turns'[s].phase = "claimed" => input'[s] \cap delivered \cap Msgs = {}
    BY <2>1, <2>2, LookHands
  <2> QED
    BY <1>2, <2>1, <2>3, StillNothing
<1> QED
  BY <1>1, <1>2, <1>3, <1>4, LookHands, LoopOnce

\* A prompt hands over what the loop has in hand, which nobody else has.
LEMMA PromptOnce ==
  ASSUME Safe, SessionTyped, MailKept, OnceKept, NEW s \in Loops, Prompt(s)
  PROVE  OnceKept'
<1> USE LoopHere
<1>1. PICK turn \in TurnIds : StartTurn(s, turn)
  BY DEF Prompt
<1>2. PICK phase \in {"late", "running"} : turns[s].phase = "claimed" /\
        HoldTurn(s, [turns[s] EXCEPT !.phase = phase, !.wake = NoWake, !.turn = turn])
  BY <1>1 DEF StartTurn
<1>3. \A t \in Loops : t # s => turns'[t] = turns[t]
  BY <1>2, HandsApart, SlotsAssumption
<1>4. turns'[s].phase \in {"late", "running"}
  <2>1. turns'[s] = [turns[s] EXCEPT !.phase = phase, !.wake = NoWake, !.turn = turn]
    BY <1>2, HandsApart
  <2> QED
    BY <2>1 DEF Turn
<1>5. UNCHANGED <<unread, written, place, input, faults>> /\ delivered' = delivered \cup input[s]
  BY DEF Prompt, mailVars, loopVars
<1>6. place[s] = "turn"
  BY <1>2, ClaimedHere
<1>7. \A t \in Slots : Holds(t)' = Holds(t)
  BY <1>5 DEF Holds
<1>8. OwnMail'
  <2>1. input[s] \cap Msgs \subseteq written
    BY DEF OnceKept, OwnMail, Holds
  <2> QED
    BY <1>5, <1>7, <2>1 DEF OnceKept, OwnMail
<1>9. TurnIsOver'
  BY <1>3, <1>5, <1>6 DEF OnceKept, TurnIsOver
<1>10. \A t \in Slots : t # s => input[s] \cap Msgs \cap (unread[t] \cup input[t]) = {}
  BY DEF OnceKept, OwnMail, Holds
<1>11. ASSUME faults' = 0 PROVE OnceAt(s)'
  <2>1. Msgs \cap delivered \cap unread[s] = {}
    BY <1>2, <1>5, <1>11, NothingLeft
  <2> QED
    BY <1>4, <1>5, <1>6, <2>1 DEF OnceAt
<1>12. ASSUME faults' = 0, NEW t \in Loops, t # s PROVE OnceAt(t)'
  <2>1. OnceAt(t) /\ t \in Slots
    BY <1>5, <1>12, SlotsAssumption DEF OnceKept, AtMostOnce
  <2> QED
    BY <1>3, <1>5, <1>10, <1>12, <2>1 DEF OnceAt
<1>13. ASSUME faults' = 0, NEW t \in Slots \ Loops PROVE Msgs \cap delivered' \cap unread'[t] = {}
  BY <1>5, <1>10, <1>13 DEF OnceKept, AtMostOnce
<1> QED
  BY <1>8, <1>9, <1>11, <1>12, <1>13 DEF OnceKept, AtMostOnce

\* The rest of a turn, up to the marking and from there on.
LEMMA TurnOnce ==
  ASSUME Safe, SessionTyped, MailKept, OnceKept, ~MayFailStarted, NEW s \in Loops, TurnStep(s)
  PROVE  OnceKept'
<1> USE LoopHere
<1>1. ASSUME NEW p, Goes(s, p) PROVE place'[s] = p /\ \A t \in Loops : t # s => place'[t] = place[t]
  BY <1>1, PlacesApart, SlotsAssumption
<1>2. ASSUME NEW h, HoldTurn(s, h) PROVE turns'[s] = h /\ \A t \in Loops : t # s => turns'[t] = turns[t]
  BY <1>2, HandsApart, SlotsAssumption
<1>3. input[s] \cap Msgs \subseteq Holds(s)
  BY DEF Holds
<1>4. ASSUME NEW phase \in TurnPhase, NEW t, NEW w,
             \/ HoldTurn(s, [turns[s] EXCEPT !.phase = phase])
             \/ HoldTurn(s, [turns[s] EXCEPT !.phase = phase, !.turn = t])
             \/ HoldTurn(s, [turns[s] EXCEPT !.phase = phase, !.wake = w])
      PROVE  turns'[s].phase = phase /\ \A u \in Loops : u # s => turns'[u] = turns[u]
  <2>1. /\ [turns[s] EXCEPT !.phase = phase].phase = phase
        /\ [turns[s] EXCEPT !.phase = phase, !.turn = t].phase = phase
        /\ [turns[s] EXCEPT !.phase = phase, !.wake = w].phase = phase
    BY DEF Turn
  <2> QED
    BY <1>2, <1>4, <2>1
<1>5. CASE Refused(s)
  <2>1. /\ turns[s].phase = "claimed" /\ UNCHANGED sessionVars
        /\ HoldTurn(s, [turns[s] EXCEPT !.phase = "failed", !.wake = NoWake])
    BY <1>5 DEF Refused, StartFails
  <2>2. turns'[s].phase = "failed" /\ \A t \in Loops : t # s => turns'[t] = turns[t]
    BY <1>4, <2>1 DEF TurnPhase
  <2>3. UNCHANGED <<unread, written, place, input, faults, delivered>>
    BY <2>1 DEF sessionVars, mailVars, loopVars, asideVars, history
  <2>4. ASSUME faults' = 0 PROVE OnceAt(s)'
    <3>1. Msgs \cap delivered \cap unread[s] = {} /\ place[s] # "read"
      BY <2>1, <2>3, <2>4, NothingLeft, ClaimedHere
    <3> QED
      BY <2>2, <2>3, <3>1, StillNothing
  <2> QED
    BY <1>3, <2>2, <2>3, <2>4, LoopOnce
<1>6. CASE LateStart(s)
  <2>1. PICK phase \in {"swept", "running"} : /\ HoldTurn(s, [turns[s] EXCEPT !.phase = phase])
                                              /\ turns[s].phase \in {"late", "swept"}
    BY <1>6 DEF LateStart, CancelLateStart, FinishLateStart, FailStarted
  <2>2. turns'[s].phase \in {"swept", "running"} /\ \A t \in Loops : t # s => turns'[t] = turns[t]
    BY <1>4, <2>1 DEF TurnPhase
  <2>3. UNCHANGED <<unread, written, place, input, faults, delivered>>
    BY <1>6 DEF LateStart, sessionVars, mailVars, loopVars, asideVars, history
  <2>4. place[s] = "turn"
    BY <2>1, ClaimedHere
  <2>5. ASSUME faults' = 0 PROVE OnceAt(s)'
    <3>1. OnceAt(s)
      BY <2>3, <2>5 DEF OnceKept, AtMostOnce
    <3> QED
      BY <2>2, <2>3, <2>4, <3>1 DEF OnceAt
  <2> QED
    BY <1>3, <2>2, <2>3, <2>4, <2>5, LoopOnce
<1>7. CASE MarkRead(s)
  <2>1. /\ place[s] = "turn" /\ turns[s].phase = "running" /\ Goes(s, "marked")
        /\ unread' = [t \in Slots |-> unread[t] \ input[s]] \/ unread' = unread
        /\ UNCHANGED <<vars, written, input, delivered>>
    BY <1>7 DEF MarkRead, At, asideVars, history
  <2>2. faults' = 0 => faults = 0 /\ unread' = [t \in Slots |-> unread[t] \ input[s]]
    BY <1>7 DEF MarkRead, Fault
  <2>3. UNCHANGED turns /\ \A t \in Slots : unread'[t] \subseteq unread[t]
    BY <2>1 DEF vars
  <2>4. ASSUME faults' = 0 PROVE OnceAt(s)'
    <3>1. OnceAt(s)
      BY <2>2, <2>4 DEF OnceKept, AtMostOnce
    <3>2. Msgs \cap delivered' \cap unread'[s] = {}
      BY <2>1, <2>2, <2>4, <3>1 DEF OnceAt
    <3> QED
      BY <1>1, <2>1, <2>3, <3>2 DEF OnceAt
  <2> QED
    BY <1>1, <1>3, <2>1, <2>2, <2>3, <2>4, LoopOnce
<1>8. CASE TellLead(s)
  <2>1. /\ place[s] = "marked" \/ (place[s] = "turn" /\ turns[s].phase = "failed")
        /\ Goes(s, "told") /\ (faults' = 0 => faults = 0)
        /\ \/ unread' = [unread EXCEPT ![Lead] = IF s = Lead THEN @ ELSE @ \cup {Note}]
           \/ unread' = unread
        /\ UNCHANGED <<turns, written, input, delivered>>
    BY <1>8 DEF TellLead, At, Fault, vars, asideVars, history
  <2>2. \A t \in Slots : unread'[t] \subseteq unread[t] \cup {Note}
    BY <2>1
  <2>3. turns'[s].phase \notin {"claimed", "late", "swept"}
    BY <2>1 DEF OnceKept, TurnIsOver
  <2>4. ASSUME faults' = 0 PROVE OnceAt(s)'
    <3>1. Msgs \cap delivered \cap unread[s] = {}
      BY <2>1, <2>4, NothingLeft
    <3> QED
      BY <1>1, <2>1, <2>2, <2>3, <3>1, StillNothing
  <2> QED
    BY <1>1, <1>3, <2>1, <2>2, <2>3, <2>4, LoopOnce
<1>9. CASE WakeLead(s) \/ Complete(s)
  <2>1. PICK phase \in {"waking", "releasing", "settling", "completing"}, t \in TurnIds \cup {NoTurn} :
          \/ HoldTurn(s, [turns[s] EXCEPT !.phase = phase])
          \/ HoldTurn(s, [turns[s] EXCEPT !.phase = phase, !.turn = t])
    BY <1>9 DEF WakeLead, Complete, AcquireWakeLead, CommitWakeLead, CompleteChild, MaybeCompleteRun, AfterWaking
  <2>2. turns'[s].phase \in {"waking", "releasing", "settling", "completing"}
        /\ \A u \in Loops : u # s => turns'[u] = turns[u]
    BY <1>4, <2>1 DEF TurnPhase
  <2>3. place[s] = "told" /\ UNCHANGED <<unread, written, place, input, faults, delivered>>
    BY <1>9 DEF WakeLead, Complete, At, sessionVars, mailVars, loopVars, asideVars, history
  <2>4. ASSUME faults' = 0 PROVE OnceAt(s)'
    <3>1. Msgs \cap delivered \cap unread[s] = {}
      BY <2>3, <2>4, NothingLeft
    <3> QED
      BY <2>2, <2>3, <3>1, StillNothing
  <2> QED
    BY <1>3, <2>2, <2>3, <2>4, LoopOnce
<1>10. CASE GoRound(s)
  <2>1. /\ place[s] = "told" /\ HoldTurn(s, NoTurnInHand) /\ Goes(s, "looking")
        /\ input' = [input EXCEPT ![s] = {}] /\ UNCHANGED <<unread, written, faults, delivered>>
    BY <1>10 DEF GoRound, ReleaseSuppressed, At, mailVars, asideVars, history
  <2>2. turns'[s].phase = "idle" /\ \A t \in Loops : t # s => turns'[t] = turns[t]
    BY <1>2, <2>1, NothingInHandType
  <2>3. place'[s] = "looking" /\ \A t \in Loops : t # s => place'[t] = place[t]
    BY <1>1, <2>1
  <2>4. input'[s] = {} /\ \A t \in Slots : t # s => input'[t] = input[t]
    BY <2>1
  <2>5. ASSUME faults' = 0 PROVE OnceAt(s)'
    <3>1. Msgs \cap delivered \cap unread[s] = {}
      BY <2>1, <2>5, NothingLeft
    <3> QED
      BY <2>1, <2>2, <2>3, <3>1, StillNothing
  <2> QED
    BY <2>1, <2>2, <2>3, <2>4, <2>5, LoopOnce
<1> QED
  BY <1>5, <1>6, <1>7, <1>8, <1>9, <1>10, PromptOnce DEF TurnStep

LEMMA StepOnce ==
  ASSUME SessionSafe, OnceKept, ~MayFailStarted, [SessionNext]_allVars
  PROVE  OnceKept'
<1> USE DEF SessionSafe
<1>1. CASE Ask \/ Recover \/ UNCHANGED allVars
  <2>1. CASE Ask
    <3>1. UNCHANGED <<turns, sessionVars>>
      BY <2>1 DEF Ask, AcquireIntervention, AcquireNewRun, AcquireScoped
    <3> QED
      BY <3>1, AsideOnce DEF sessionVars, mailVars, loopVars, asideVars, history
  <2>2. CASE Recover
    <3>1. UNCHANGED <<turns, mailVars, place, input, history>>
      BY <2>2 DEF Recover, FindBacklog, ScanFails, RecoverFound, RecoverBacklog, loopVars, vars
    <3>2. faults' = 0 => faults = 0
      BY <2>2 DEF Recover, FindBacklog, ScanFails, RecoverFound, Fault, SessionTyped, SessionTypeOK
    <3> QED
      BY <3>1, <3>2, AsideOnce DEF mailVars, history
  <2>3. CASE UNCHANGED allVars
    BY <2>3, AsideOnce DEF allVars, vars, sessionVars, mailVars, loopVars, asideVars, history
  <2> QED
    BY <1>1, <2>1, <2>2, <2>3
<1>2. ASSUME NEW l \in calls, Send(l) PROVE OnceKept'
  <2>1. CASE DropLetter(l) \/ CommitLetter(l)
    <3>1. /\ UNCHANGED <<turns, unread, written, place, input, delivered>>
          /\ (faults' = 0 => faults = 0)
      BY <2>1 DEF DropLetter, CommitLetter, AbortLease, CommitLease, Fault, mailVars, loopVars, asideVars, history,
           SessionTyped, SessionTypeOK
    <3> QED
      BY <3>1, AsideOnce
  <2> QED
    BY <1>2, <2>1, WriteOnce DEF Send
<1>3. ASSUME NEW s \in Loops, LoopStep(s) PROVE OnceKept'
  <2>1. LookStep(s) \/ TurnStep(s)
    BY <1>3 DEF LoopStep, LookStep, TurnStep
  <2> QED
    BY <2>1, LookOnce, TurnOnce
<1>4. ASSUME NEW p \in Stoppers, StopStep(p) PROVE OnceKept'
  BY <1>4, StopLeaves, AsideOnce DEF loopVars
<1> QED
  BY <1>1, <1>2, <1>3, <1>4 DEF SessionNext

\* A message is handed to an agent once, unless its row could not be marked
\* read or the port fails a turn it has started (event_loop.rs:368).
THEOREM HandedOverOnce == SessionSpec => DeliveredOnce
<1>1. ASSUME OnceKept PROVE [faults = 0 /\ ~MayFailStarted =>
                              \A s \in Loops : turns[s].phase = "claimed" /\ turns'[s].phase \in {"running", "late"}
                                => input[s] \cap delivered \cap Msgs = {}]_allVars
  BY <1>1 DEF OnceKept, AtMostOnce, OnceAt
<1>2. CASE MayFailStarted
  <2>1. [faults = 0 /\ ~MayFailStarted =>
          \A s \in Loops : turns[s].phase = "claimed" /\ turns'[s].phase \in {"running", "late"}
            => input[s] \cap delivered \cap Msgs = {}]_allVars
    BY <1>2
  <2> QED
    BY <2>1, PTL DEF DeliveredOnce
<1>3. CASE ~MayFailStarted
  <2>1. SessionInit => OnceKept
    BY SessionInitOnce
  <2>2. SessionSafe /\ OnceKept /\ [SessionNext]_allVars => OnceKept'
    BY <1>3, StepOnce
  <2> QED
    BY <1>1, <2>1, <2>2, SessionAlwaysSafe, PTL DEF SessionSpec, DeliveredOnce
<1> QED
  BY <1>2, <1>3

-----------------------------------------------------------------------------
(* A cancelling run is never left to nobody.                               *)

\* The run is the last one begun, and a loop that has claimed a wake has noted
\* a run.
Numbers ==
  /\ run.status # "None" => run.id = lastRun
  /\ \A s \in Slots : /\ turns[s].run <= lastRun
                      /\ turns[s].phase = "claimed" => turns[s].run # 0

\* Every child is a late turn its loop cancels, or will be swept.
ToSweep(r, hands, reqs) ==
  \A s \in Slots : r.active[s] # NoTurn =>
    \/ hands[s].phase = "late"
    \/ \E p \in Stoppers : \/ reqs[p].phase = "cancelBegun"
                           \/ reqs[p].phase = "sweeping" /\ <<s, r.active[s]>> \in reqs[p].todo

Watched(r, hands, reqs) ==
  \/ r.leases # {} \/ \E s \in Slots : Retained(r.gate[s])
  \/ \E p \in Stoppers : reqs[p].phase \in {"cancelBegun", "sweeping"}
  \/ \E s \in Slots : r.starting[s] # "none" \/ hands[s].phase \in {"late", "swept"}

Attended(r, hands, reqs) ==
  r.status = "Cancelling" /\ r.id = 1 => ToSweep(r, hands, reqs) /\ Watched(r, hands, reqs)

AttendedNext == Attended(run', turns', stops')
Sound == Safe /\ Drained(run) /\ Numbers /\ Attended(run, turns, stops)

\* A step that takes nothing from a cancelling run but children.
Slims ==
  run'.status = "Cancelling" =>
    /\ run.status = "Cancelling" /\ run'.id = run.id /\ run'.leases = run.leases
    /\ run'.starting = run.starting
    /\ \A s \in Slots : /\ run'.active[s] \in {NoTurn, run.active[s]}
                        /\ Retained(run.gate[s]) => Retained(run'.gate[s])

LEMMA SlimAttends ==
  ASSUME Attended(run, turns, stops), Slims,
         \A s \in Slots : turns[s].phase \in {"late", "swept"} => turns'[s].phase = turns[s].phase,
         \A p \in Stoppers : stops[p].phase \in {"cancelBegun", "sweeping"} => stops'[p] = stops[p]
  PROVE  AttendedNext
<1> SUFFICES ASSUME run'.status = "Cancelling", run'.id = 1
             PROVE  ToSweep(run', turns', stops') /\ Watched(run', turns', stops')
  BY DEF AttendedNext, Attended
<1>1. ToSweep(run, turns, stops) /\ Watched(run, turns, stops)
  BY DEF Attended, Slims
<1>2. ToSweep(run', turns', stops')
  BY <1>1 DEF ToSweep, Slims
<1>3. Watched(run', turns', stops')
  BY <1>1 DEF Watched, Slims
<1> QED
  BY <1>2, <1>3

\* Whoever looks whether a cancelling run can end either ends it or finds
\* somebody who will look again.
LEMMA LookAgain ==
  ASSUME NEW r, Drained(r), MaybeCancelled(r), ToSweep(r, turns', stops')
  PROVE  AttendedNext
<1> SUFFICES ASSUME run'.status = "Cancelling"
             PROVE  ToSweep(run', turns', stops') /\ Watched(run', turns', stops')
  BY DEF AttendedNext, Attended
<1>1. run' = r /\ HasWork(r)
  BY DEF MaybeCancelled, CloseOrKeep, NoRun
<1>2. PICK s \in Slots : \/ r.leases # {} \/ r.starting[s] # "none"
                         \/ r.active[s] # NoTurn \/ Retained(r.gate[s])
  BY <1>1, SlotsAssumption DEF HasWork, HasSlotWork, Drained
<1>3. r.active[s] # NoTurn => Watched(r, turns', stops')
  BY DEF ToSweep, Watched
<1>4. Watched(r, turns', stops')
  BY <1>2, <1>3 DEF Watched
<1> QED
  BY <1>1, <1>4

LEMMA HandsHere ==
  ASSUME Safe
  PROVE  run \in RunRecord /\ turns \in [Slots -> Turn] /\ stops \in [Stoppers -> Stop]
  BY DEF Safe, Typed, TypeOK

LEMMA ReplaceSlims ==
  ASSUME NEW r, Keep(r) \/ Fail(r) \/ MaybeComplete(r) \/ MaybeCancelled(r),
         r.status = "Cancelling" =>
           /\ run.status = "Cancelling" /\ r.id = run.id /\ r.leases = run.leases
           /\ r.starting = run.starting
           /\ \A s \in Slots : /\ r.active[s] \in {NoTurn, run.active[s]}
                               /\ Retained(run.gate[s]) => Retained(r.gate[s])
  PROVE  Slims
<1>1. run' = r \/ run' = NoRun
  BY DEF Keep, Fail, MaybeComplete, MaybeCancelled, CloseOrKeep
<1> QED
  BY <1>1 DEF Slims, NoRun

LEMMA SameSlims ==
  ASSUME Keep(run) \/ Fail(run) \/ MaybeComplete(run) \/ MaybeCancelled(run) \/ UNCHANGED run
  PROVE  Slims
<1>1. run' = run \/ run' = NoRun
  BY DEF Keep, Fail, MaybeComplete, MaybeCancelled, CloseOrKeep
<1> QED
  BY <1>1 DEF Slims, NoRun

\* A record that is not cancelling, put in the place of another.
LEMMA LiveSlims ==
  ASSUME NEW r, r.status # "Cancelling",
         Keep(r) \/ Fail(r) \/ MaybeComplete(r) \/ MaybeCancelled(r) \/ StartRun(r)
  PROVE  Slims
<1>1. run' = r \/ run' = NoRun
  BY DEF Keep, Fail, MaybeComplete, MaybeCancelled, CloseOrKeep, StartRun
<1> QED
  BY <1>1 DEF Slims, NoRun

LEMMA RemovedSlims ==
  ASSUME Safe, NEW s \in Slots, NEW r, r = [run EXCEPT !.active[s] = NoTurn],
         Keep(r) \/ Fail(r) \/ MaybeComplete(r) \/ MaybeCancelled(r)
  PROVE  Slims
<1>1. /\ r.status = run.status /\ r.id = run.id /\ r.leases = run.leases
      /\ r.starting = run.starting /\ r.gate = run.gate
      /\ \A other \in Slots : r.active[other] \in {NoTurn, run.active[other]}
  BY HandsHere DEF RunRecord
<1> QED
  BY <1>1, ReplaceSlims

LEMMA AskSlims == ASSUME Safe, Ask PROVE Slims /\ UNCHANGED <<turns, stops>>
<1>0. run \in RunRecord /\ (IsActive(run) => run.status # "Cancelling")
  BY HandsHere DEF IsActive
<1> PICK s \in Slots, id \in LeaseIds :
       \/ AcquireIntervention(s, id) \/ AcquireNewRun(s, id)
       \/ \E source \in Sources : AcquireScoped(s, source, id)
  BY DEF Ask
<1>1. CASE AcquireIntervention(s, id)
  <2>1. PICK lease : Keep([GateWake(run, s, "UserIntervention") EXCEPT !.leases = @ \cup {lease}])
    BY <1>1 DEF AcquireIntervention
  <2>2. IsActive(run) /\ UNCHANGED <<turns, stops>>
    BY <1>1 DEF AcquireIntervention
  <2>3. [GateWake(run, s, "UserIntervention") EXCEPT !.leases = @ \cup {lease}].status = run.status
    BY <1>0 DEF GateWake, RunRecord
  <2> QED
    BY <1>0, <2>1, <2>2, <2>3, LiveSlims
<1>2. CASE AcquireNewRun(s, id)
  <2>1. PICK lease : StartRun([NewRun(lastRun + 1, s) EXCEPT !.leases = {lease}])
    BY <1>2 DEF AcquireNewRun
  <2>2. [NewRun(lastRun + 1, s) EXCEPT !.leases = {lease}].status = "Accepted"
    BY DEF NewRun, NoRun
  <2>3. UNCHANGED <<turns, stops>>
    BY <1>2 DEF AcquireNewRun
  <2> QED
    BY <2>1, <2>2, <2>3, LiveSlims
<1>3. ASSUME NEW source \in Sources, AcquireScoped(s, source, id)
      PROVE  Slims /\ UNCHANGED <<turns, stops>>
  <2>1. \E r : Keep(r) /\ r.status = run.status
    <3>1. \/ Keep(GateWake(run, s, source))
          \/ \E lease : Keep([GateWake(run, s, source) EXCEPT !.leases = @ \cup {lease}])
      BY <1>3 DEF AcquireScoped
    <3>2. GateWake(run, s, source).status = run.status
      BY <1>0 DEF GateWake, RunRecord
    <3>3. \A lease : [GateWake(run, s, source) EXCEPT !.leases = @ \cup {lease}].status = run.status
      BY <1>0 DEF GateWake, RunRecord
    <3> QED
      BY <3>1, <3>2, <3>3
  <2>2. IsActive(run) /\ UNCHANGED <<turns, stops>>
    BY <1>3 DEF AcquireScoped
  <2> QED
    BY <1>0, <2>1, <2>2, LiveSlims
<1> QED
  BY <1>1, <1>2, <1>3

LEMMA LeaseSlims ==
  ASSUME Safe, NEW l, (\E msg : CommitLease(l, msg)) \/ AbortLease(l)
  PROVE  Slims /\ UNCHANGED <<turns, stops>>
<1>0. run \in RunRecord /\ (IsActive(run) => run.status # "Cancelling")
  BY HandsHere DEF IsActive
<1>1. CASE AbortLease(l)
  <2>1. Keep(run) \/ (IsActive(run) /\ Keep([run EXCEPT !.leases = @ \ {l}]))
    BY <1>1 DEF AbortLease
  <2>2. [run EXCEPT !.leases = @ \ {l}].status = run.status
    BY <1>0 DEF RunRecord
  <2>3. UNCHANGED <<turns, stops>>
    BY <1>1 DEF AbortLease
  <2> QED
    BY <1>0, <2>1, <2>2, <2>3, LiveSlims, SameSlims
<1>2. ASSUME NEW msg, CommitLease(l, msg) PROVE Slims /\ UNCHANGED <<turns, stops>>
  <2> DEFINE r == [PushPending(run, l.slot, l.source, msg) EXCEPT !.leases = @ \ {l}]
  <2>1. Keep(run) \/ (IsActive(run) /\ Keep(r))
    BY <1>2 DEF CommitLease
  <2>2. r.status = run.status
    BY <1>0 DEF PushPending, RunRecord
  <2>3. UNCHANGED <<turns, stops>>
    BY <1>2 DEF CommitLease
  <2> HIDE DEF r
  <2> QED
    BY <1>0, <2>1, <2>2, <2>3, LiveSlims, SameSlims
<1> QED
  BY <1>1, <1>2

LEMMA BacklogSlims ==
  ASSUME Safe, NEW candidates, NEW first, RecoverBacklog(candidates, first)
  PROVE  Slims /\ UNCHANGED <<turns, stops>>
<1>0. run \in RunRecord /\ (IsActive(run) => run.status # "Cancelling")
  BY HandsHere DEF IsActive
<1> DEFINE woken(r, targets) ==
        [r EXCEPT !.pending =
           [s \in Slots |-> IF s \in targets
                            THEN Append(r.pending[s], [source |-> "RecoveryDrain", msg |-> NoMsg])
                            ELSE r.pending[s]]]
<1>1. /\ UNCHANGED <<turns, stops>>
      /\ \/ StartRun(woken(NewRun(lastRun + 1, first), candidates))
         \/ IsActive(run) /\ Keep(woken(run, {s \in candidates : SlotRunState(run, s) = "Idle"}))
  BY DEF RecoverBacklog
<1>2. \A targets : woken(run, targets).status = run.status
  BY <1>0 DEF RunRecord
<1>3. \A targets : woken(NewRun(lastRun + 1, first), targets).status = "Accepted"
  BY DEF NewRun, NoRun
<1> HIDE DEF woken
<1> QED
  BY <1>0, <1>1, <1>2, <1>3, LiveSlims

\* The turns of a step that takes slot s from one phase to another.
LEMMA OtherTurns ==
  ASSUME Safe, NEW s \in Slots, NEW t, HoldTurn(s, t)
  PROVE  turns'[s] = t /\ \A other \in Slots : other # s => turns'[other] = turns[other]
BY HandsHere DEF HoldTurn

LEMMA LookAttends ==
  ASSUME Sound, NEW s \in Slots, Look(s)
  PROVE  AttendedNext
<1> USE DEF Sound
<1>0. run \in RunRecord /\ (IsActive(run) => run.status # "Cancelling")
  BY HandsHere DEF IsActive
<1>1. UNCHANGED stops /\ turns[s].phase \in {"idle", "peeked", "noted"} /\ \E t : HoldTurn(s, t)
  BY DEF Look, PeekWake, NoteRun, LeaveBacklog, ObserveEmptyWake, ClaimWake
<1>2. Slims
  <2>1. CASE PeekWake(s) \/ NoteRun(s) \/ LeaveBacklog(s)
    BY <2>1, SameSlims DEF PeekWake, NoteRun, LeaveBacklog
  <2>2. CASE ObserveEmptyWake(s)
    <3> DEFINE popped == [run EXCEPT !.pending[s] = Tail(@)]
    <3>1. MaybeComplete(run) \/ (run.pending[s] # <<>> /\ MaybeComplete(popped))
      BY <2>2 DEF ObserveEmptyWake
    <3>2. popped.status = run.status /\ (run.pending[s] # <<>> => run.status # "Cancelling")
      BY <1>0 DEF RunRecord, Drained
    <3> HIDE DEF popped
    <3> QED
      BY <3>1, <3>2, LiveSlims, SameSlims
  <2>3. CASE ClaimWake(s)
    <3> DEFINE r == [run EXCEPT !.pending[s] = Tail(@), !.starting[s] = "starting"]
    <3>1. Keep(run) \/ (IsActive(run) /\ Keep(r))
      BY <2>3 DEF ClaimWake
    <3>2. r.status = run.status
      BY <1>0 DEF RunRecord
    <3> HIDE DEF r
    <3> QED
      BY <1>0, <3>1, <3>2, LiveSlims, SameSlims
  <2> QED
    BY <2>1, <2>2, <2>3 DEF Look
<1>3. \A other \in Slots : turns[other].phase \in {"late", "swept"} => turns'[other].phase = turns[other].phase
  BY <1>1, OtherTurns
<1> QED
  BY <1>1, <1>2, <1>3, SlimAttends

LEMMA FinalizeAttends ==
  ASSUME Sound, NEW s \in Slots, Finalize(s)
  PROVE  AttendedNext
<1> USE DEF Sound
<1>0. run \in RunRecord /\ (IsActive(run) => run.status # "Cancelling")
  BY HandsHere DEF IsActive
<1>1. /\ UNCHANGED stops /\ \E t : HoldTurn(s, t)
      /\ turns[s].phase \notin {"late", "swept"}
  BY DEF Finalize, AcquireWakeLead, CommitWakeLead, CompleteChild, MaybeCompleteRun, ReleaseSuppressed
<1>2. Slims
  <2>1. CASE AcquireWakeLead(s)
    <3>1. IsActive(run) /\ \E r : Keep(r) /\ r.status = run.status
      <4> DEFINE gated == GateWake(run, Lead, "IdleNotification")
      <4>1. gated.status = run.status
        BY <1>0, StatusStays, SlotsAssumption
      <4>2. \A lease : [gated EXCEPT !.leases = @ \cup {lease}].status = run.status
        BY <1>0, <4>1 DEF GateWake, RunRecord
      <4>3. Keep(gated) \/ \E lease : Keep([gated EXCEPT !.leases = @ \cup {lease}])
        BY <2>1 DEF AcquireWakeLead
      <4>4. IsActive(run)
        BY <2>1 DEF AcquireWakeLead
      <4> HIDE DEF gated
      <4> QED
        BY <4>1, <4>2, <4>3, <4>4
    <3> QED
      BY <1>0, <3>1, LiveSlims
  <2>2. ASSUME NEW l \in calls, CommitWakeLead(s, l) PROVE Slims
    <3> DEFINE r == [PushPending(run, l.slot, l.source, NoMsg) EXCEPT !.leases = @ \ {l}]
    <3>1. Keep(run) \/ (IsActive(run) /\ Keep(r))
      BY <2>2 DEF CommitWakeLead
    <3>2. r.status = run.status
      BY <1>0 DEF PushPending, RunRecord
    <3> HIDE DEF r
    <3> QED
      BY <1>0, <3>1, <3>2, LiveSlims, SameSlims
  <2>3. ASSUME NEW ok \in BOOLEAN, CompleteChild(s, ok) PROVE Slims
    <3> DEFINE removed == [run EXCEPT !.active[s] = NoTurn]
    <3>1. Keep(run) \/ MaybeComplete(removed) \/ Fail(removed)
      BY <2>3 DEF CompleteChild
    <3> QED
      BY <3>1, RemovedSlims, SameSlims
  <2>4. CASE MaybeCompleteRun(s)
    BY <2>4, SameSlims DEF MaybeCompleteRun
  <2>5. CASE ReleaseSuppressed(s)
    <3> DEFINE r == [PushPending(run, s, run.gate[s].held, NoMsg) EXCEPT !.gate[s] = NoEntry]
    <3>1. Keep(run) \/ (IsActive(run) /\ Keep(r))
      BY <2>5 DEF ReleaseSuppressed
    <3>2. r.status = run.status
      BY <1>0 DEF PushPending, RunRecord
    <3> HIDE DEF r
    <3> QED
      BY <1>0, <3>1, <3>2, LiveSlims, SameSlims
  <2> QED
    BY <2>1, <2>2, <2>3, <2>4, <2>5 DEF Finalize
<1>3. \A other \in Slots : turns[other].phase \in {"late", "swept"} => turns'[other].phase = turns[other].phase
  BY <1>1, OtherTurns
<1> QED
  BY <1>1, <1>2, <1>3, SlimAttends

\* The start callback: a late turn is attended by its loop, and a loop that
\* starts a turn for a cancelling run has noted that run, so it takes its
\* reservation for its own.
LEMMA StartAttends ==
  ASSUME Sound, NEW s \in Slots, NEW t \in TurnIds, StartTurn(s, t)
  PROVE  AttendedNext
<1> USE DEF Sound
<1>0. run \in RunRecord /\ turns \in [Slots -> Turn]
  BY HandsHere
<1> DEFINE released == [run EXCEPT !.starting[s] = "none"]
           next(phase) == [turns[s] EXCEPT !.phase = phase, !.wake = NoWake, !.turn = t]
           mustCancel == run.status = "Cancelling" \/ run.starting[s] = "cancelling"
           r == [released EXCEPT !.started = TRUE, !.active[s] = t,
                                 !.status = IF mustCancel THEN @ ELSE "Running"]
<1>1. /\ UNCHANGED stops /\ turns[s].phase = "claimed" /\ \E x : HoldTurn(s, x)
      /\ \/ Keep(run)
         \/ Keep(released) /\ run.id # turns[s].run
         \/ Keep(r) /\ HoldTurn(s, next(IF mustCancel THEN "late" ELSE "running"))
  BY DEF StartTurn
<1>2. /\ released.status = run.status
      /\ r.status = (IF mustCancel THEN run.status ELSE "Running")
      /\ \A other \in Slots : other # s => r.active[other] = run.active[other]
  BY <1>0 DEF RunRecord
<1>3. next("late").phase = "late"
  BY <1>0 DEF Turn
<1> HIDE DEF released, next, r
<1>4. \A other \in Slots : other # s => turns'[other] = turns[other]
  BY <1>1, OtherTurns
<1>5. CASE Keep(run)
  BY <1>1, <1>4, <1>5, SlimAttends, SameSlims
<1>6. CASE Keep(released) /\ run.id # turns[s].run
  <2>1. run' = released
    BY <1>6 DEF Keep, CloseOrKeep
  <2>2. SUFFICES ASSUME run.status = "Cancelling", run'.id = 1 PROVE FALSE
    BY <1>2, <2>1 DEF AttendedNext, Attended
  <2>3. run.id = 1
    BY <1>0, <2>1, <2>2 DEF released, RunRecord
  <2>4. turns[s].run \in Nat /\ turns[s].run <= 1 /\ turns[s].run # 0
    BY <1>0, <1>1, <2>2, <2>3 DEF Numbers, Turn
  <2> QED
    BY <1>6, <2>3, <2>4
<1>7. CASE Keep(r) /\ HoldTurn(s, next(IF mustCancel THEN "late" ELSE "running"))
  <2>1. run' = r
    BY <1>7 DEF Keep, CloseOrKeep
  <2>2. SUFFICES ASSUME run'.status = "Cancelling", run'.id = 1
                 PROVE  ToSweep(run', turns', stops') /\ Watched(run', turns', stops')
    BY DEF AttendedNext, Attended
  <2>3. mustCancel /\ run.status = "Cancelling"
    BY <1>2, <2>1, <2>2
  <2>4. turns'[s].phase = "late"
    BY <1>3, <1>7, <2>3, OtherTurns
  <2>5. run.id = 1
    BY <1>0, <2>1, <2>2 DEF r, released, RunRecord
  <2>6. ToSweep(run, turns, stops)
    BY <2>3, <2>5 DEF Attended
  <2>7. ToSweep(run', turns', stops')
    BY <1>1, <1>2, <1>4, <2>1, <2>4, <2>6 DEF ToSweep
  <2>8. Watched(run', turns', stops')
    BY <2>4 DEF Watched
  <2> QED
    BY <2>7, <2>8
<1> QED
  BY <1>1, <1>5, <1>6, <1>7

LEMMA ExecuteAttends ==
  ASSUME Sound, NEW s \in Slots,
         StartFails(s) \/ CancelLateStart(s) \/ FinishLateStart(s) \/ FailStarted(s)
  PROVE  AttendedNext
<1> USE DEF Sound
<1>0. run \in RunRecord /\ turns \in [Slots -> Turn]
  BY HandsHere
<1>1. UNCHANGED stops /\ \E x : HoldTurn(s, x)
  BY DEF StartFails, CancelLateStart, FinishLateStart, FailStarted
<1>2. \A other \in Slots : other # s => turns'[other] = turns[other]
  BY <1>1, OtherTurns
<1>3. CASE FailStarted(s)
  BY <1>1, <1>2, <1>3, SlimAttends, SameSlims DEF FailStarted
<1>4. CASE StartFails(s)
  <2> DEFINE released == [run EXCEPT !.starting[s] = "none"]
  <2>1. /\ turns[s].phase = "claimed"
        /\ Keep(run) \/ MaybeCancelled(released) \/ Fail(released)
    BY <1>4 DEF StartFails
  <2>2. /\ released.status = run.status /\ released.id = run.id
        /\ released.active = run.active /\ released.pending = run.pending
        /\ \A other \in Slots : released.starting[other] \in {"none", run.starting[other]}
    BY <1>0 DEF RunRecord
  <2> HIDE DEF released
  <2>3. CASE Keep(run)
    BY <1>1, <1>2, <2>1, <2>3, SlimAttends, SameSlims
  <2>4. CASE Fail(released)
    <3>1. run'.status = "None"
      BY <2>4 DEF Fail, CloseOrKeep, NoRun
    <3> QED
      BY <3>1 DEF AttendedNext, Attended
  <2>5. CASE MaybeCancelled(released)
    <3>1. CASE run.status = "Cancelling" /\ run.id = 1
      <4>1. Drained(released)
        BY <2>2, <3>1 DEF Drained
      <4>2. ToSweep(run, turns, stops)
        BY <3>1 DEF Attended
      <4>3. ToSweep(released, turns', stops')
        BY <1>1, <1>2, <2>1, <2>2, <4>2 DEF ToSweep
      <4> QED
        BY <2>5, <4>1, <4>3, LookAgain
    <3>2. CASE ~(run.status = "Cancelling" /\ run.id = 1)
      <4>1. run' = released \/ run' = NoRun
        BY <2>5 DEF MaybeCancelled, CloseOrKeep
      <4> QED
        BY <2>2, <3>2, <4>1 DEF AttendedNext, Attended, NoRun
    <3> QED
      BY <3>1, <3>2
  <2> QED
    BY <2>1, <2>3, <2>4, <2>5
<1>5. CASE CancelLateStart(s)
  <2> DEFINE removed == [run EXCEPT !.active[s] = NoTurn]
  <2>1. HoldTurn(s, [turns[s] EXCEPT !.phase = "swept"])
    BY <1>5 DEF CancelLateStart
  <2>2. turns'[s].phase = "swept"
    BY <1>0, <2>1, OtherTurns DEF Turn
  <2>3. run' = removed \/ run' = NoRun
    BY <1>5 DEF CancelLateStart, RemoveChild, MaybeCancelled, Keep, CloseOrKeep
  <2>4. /\ removed.status = run.status /\ removed.id = run.id /\ removed.active[s] = NoTurn
        /\ \A other \in Slots : other # s => removed.active[other] = run.active[other]
    BY <1>0 DEF RunRecord
  <2> HIDE DEF removed
  <2>5. SUFFICES ASSUME run' = removed, run'.status = "Cancelling", run'.id = 1
                 PROVE  ToSweep(run', turns', stops') /\ Watched(run', turns', stops')
    BY <2>3 DEF AttendedNext, Attended, NoRun
  <2>6. ToSweep(run, turns, stops)
    BY <2>4, <2>5 DEF Attended
  <2>7. ToSweep(run', turns', stops')
    BY <1>1, <1>2, <2>4, <2>5, <2>6 DEF ToSweep
  <2> QED
    BY <2>2, <2>7 DEF Watched
<1>6. CASE FinishLateStart(s)
  <2>1. turns[s].phase = "swept" /\ MaybeCancelled(run)
    BY <1>6 DEF FinishLateStart
  <2>2. CASE run.status = "Cancelling" /\ run.id = 1
    <3>1. ToSweep(run, turns, stops)
      BY <2>2 DEF Attended
    <3>2. ToSweep(run, turns', stops')
      BY <1>1, <1>2, <2>1, <3>1 DEF ToSweep
    <3> QED
      BY <2>1, <3>2, LookAgain
  <2>3. CASE ~(run.status = "Cancelling" /\ run.id = 1)
    <3>1. run' = run \/ run' = NoRun
      BY <2>1 DEF MaybeCancelled, CloseOrKeep
    <3> QED
      BY <2>3, <3>1 DEF AttendedNext, Attended, NoRun
  <2> QED
    BY <2>2, <2>3
<1> QED
  BY <1>3, <1>4, <1>5, <1>6

LEMMA OtherStops ==
  ASSUME Safe, NEW p \in Stoppers, NEW stop, HoldStop(p, stop)
  PROVE  stops'[p] = stop /\ \A other \in Stoppers : other # p => stops'[other] = stops[other]
BY HandsHere DEF HoldStop

\* A stop request that is not in the middle of cancelling a run.
LEMMA AsideStopAttends ==
  ASSUME Sound, NEW p \in Stoppers, NEW stop, HoldStop(p, stop), UNCHANGED turns, Slims,
         stops[p].phase \notin {"cancelBegun", "sweeping"}
  PROVE  AttendedNext
BY SlimAttends, OtherStops DEF Sound

LEMMA CancelRunAttends ==
  ASSUME Sound, NEW p \in Stoppers,
         \/ CheckCancel(p) \/ BeginCancel(p) \/ ListChildren(p)
         \/ (\E c \in stops[p].todo : SweepChild(p, c)) \/ FinishSweep(p)
  PROVE  AttendedNext
<1> USE DEF Sound
<1>0. /\ run \in RunRecord /\ stops \in [Stoppers -> Stop] /\ stops[p] \in Stop
      /\ (IsActive(run) => run.status # "Cancelling")
  BY HandsHere DEF IsActive
<1>1. CASE CheckCancel(p)
  BY <1>1, AsideStopAttends, SameSlims DEF CheckCancel
<1>2. CASE BeginCancel(p)
  <2>1. CASE Keep(run)
    <3>1. UNCHANGED turns /\ stops[p].phase = "cancelChecked" /\ \E stop : HoldStop(p, stop)
      BY <1>2 DEF BeginCancel
    <3> QED
      BY <2>1, <3>1, AsideStopAttends, SameSlims
  <2>2. CASE HoldStop(p, [stops[p] EXCEPT !.phase = "cancelBegun"])
    <3>1. stops'[p].phase = "cancelBegun"
      BY <1>0, <2>2, OtherStops DEF Stop
    <3> QED
      BY <3>1 DEF AttendedNext, Attended, ToSweep, Watched
  <2> QED
    BY <1>2, <2>1, <2>2 DEF BeginCancel
<1>3. CASE ListChildren(p)
  <2> DEFINE todo == {c \in Slots \X TurnIds : run.active[c[1]] = c[2]}
             stop == [stops[p] EXCEPT !.phase = "sweeping", !.todo = todo]
  <2>1. HoldStop(p, stop) /\ UNCHANGED <<run, turns>>
    BY <1>3 DEF ListChildren
  <2>2. stop.phase = "sweeping" /\ stop.todo = todo
    BY <1>0 DEF Stop
  <2>3. \A s \in Slots : run.active[s] # NoTurn => <<s, run.active[s]>> \in todo
    BY <1>0 DEF RunRecord
  <2> HIDE DEF todo, stop
  <2>4. stops'[p] = stop
    BY <2>1, OtherStops
  <2> QED
    BY <2>1, <2>2, <2>3, <2>4 DEF AttendedNext, Attended, ToSweep, Watched
<1>4. ASSUME NEW c \in stops[p].todo, SweepChild(p, c) PROVE AttendedNext
  <2> DEFINE removed == [run EXCEPT !.active[c[1]] = NoTurn]
             stop == [stops[p] EXCEPT !.todo = @ \ {c}]
  <2>1. HoldStop(p, stop) /\ UNCHANGED turns /\ stops[p].phase = "sweeping" /\ c[1] \in Slots
    BY <1>0, <1>4 DEF SweepChild, Stop
  <2>2. stop.phase = "sweeping" /\ stop.todo = stops[p].todo \ {c}
    BY <1>0, <2>1 DEF Stop
  <2>3. run' = removed \/ run' = NoRun
    BY <1>4 DEF SweepChild, RemoveChild, MaybeCancelled, Keep, CloseOrKeep
  <2>4. /\ removed.status = run.status /\ removed.id = run.id /\ removed.active[c[1]] = NoTurn
        /\ \A other \in Slots : other # c[1] => removed.active[other] = run.active[other]
    BY <1>0, <2>1 DEF RunRecord
  <2> HIDE DEF removed, stop
  <2>5. stops'[p] = stop /\ \A other \in Stoppers : other # p => stops'[other] = stops[other]
    BY <2>1, OtherStops
  <2>6. SUFFICES ASSUME run' = removed, run'.status = "Cancelling", run'.id = 1
                 PROVE  ToSweep(run', turns', stops') /\ Watched(run', turns', stops')
    BY <2>3 DEF AttendedNext, Attended, NoRun
  <2>7. ToSweep(run, turns, stops)
    BY <2>4, <2>6 DEF Attended
  <2>8. ASSUME NEW s \in Slots, run'.active[s] # NoTurn
        PROVE  \/ turns'[s].phase = "late"
               \/ \E q \in Stoppers : \/ stops'[q].phase = "cancelBegun"
                                      \/ stops'[q].phase = "sweeping" /\ <<s, run'.active[s]>> \in stops'[q].todo
    <3>1. s # c[1] /\ run'.active[s] = run.active[s] /\ <<s, run.active[s]>> # c
      BY <2>4, <2>6, <2>8
    <3> QED
      BY <2>1, <2>2, <2>5, <2>7, <2>8, <3>1 DEF ToSweep
  <2>9. ToSweep(run', turns', stops')
    BY <2>8 DEF ToSweep
  <2> QED
    BY <2>2, <2>5, <2>9 DEF Watched
<1>5. CASE FinishSweep(p)
  <2>1. /\ MaybeCancelled(run) /\ UNCHANGED turns /\ HoldStop(p, NoStop)
        /\ stops[p].phase = "sweeping" /\ stops[p].todo = {}
    BY <1>5 DEF FinishSweep
  <2>2. \A other \in Stoppers : other # p => stops'[other] = stops[other]
    BY <2>1, OtherStops
  <2>3. CASE run.status = "Cancelling" /\ run.id = 1
    <3>1. ToSweep(run, turns, stops)
      BY <2>3 DEF Attended
    <3>2. ToSweep(run, turns', stops')
      BY <2>1, <2>2, <3>1 DEF ToSweep
    <3> QED
      BY <2>1, <3>2, LookAgain
  <2>4. CASE ~(run.status = "Cancelling" /\ run.id = 1)
    <3>1. run' = run \/ run' = NoRun
      BY <2>1 DEF MaybeCancelled, CloseOrKeep
    <3> QED
      BY <2>4, <3>1 DEF AttendedNext, Attended, NoRun
  <2> QED
    BY <2>3, <2>4
<1> QED
  BY <1>1, <1>2, <1>3, <1>4, <1>5

LEMMA OtherStopAttends ==
  ASSUME Sound, NEW p \in Stoppers, CancelChild(p) \/ PauseSlot(p)
  PROVE  AttendedNext
<1> USE DEF Sound
<1>0. /\ run \in RunRecord /\ stops[p].slot \in Slots
      /\ (IsActive(run) => run.status # "Cancelling")
  BY HandsHere DEF IsActive, Stop
<1>1. /\ UNCHANGED turns /\ \E stop : HoldStop(p, stop)
      /\ stops[p].phase \notin {"cancelBegun", "sweeping"}
  BY DEF CancelChild, PauseSlot, BeginCancelChild, FinishCancelChild,
     FinishLead, WriteNotice, NotifyLead, FinishStarting, CheckPause, BeginPause, FinishPause
<1>2. SUFFICES ASSUME TRUE PROVE Slims
  BY <1>1, AsideStopAttends
<1>3. ASSUME NEW s \in Slots, BeginCancelChild(p, s) PROVE Slims
  <2> DEFINE r == [run EXCEPT !.starting[s] = "cancelling"]
  <2>1. Keep(run) \/ (IsActive(run) /\ Keep(r))
    BY <1>3 DEF BeginCancelChild
  <2>2. r.status = run.status
    BY <1>0 DEF RunRecord
  <2> HIDE DEF r
  <2> QED
    BY <1>0, <2>1, <2>2, LiveSlims, SameSlims
<1>4. CASE FinishCancelChild(p)
  <2> DEFINE removed == [run EXCEPT !.active[stops[p].slot] = NoTurn]
  <2>1. Keep(removed) \/ MaybeCancelled(removed)
    BY <1>4 DEF FinishCancelChild, RemoveChild
  <2> QED
    BY <1>0, <2>1, RemovedSlims
<1>5. CASE NotifyLead(p)
  <2> DEFINE r == GateWake(run, Lead, "InterruptedNotification")
  <2>1. Keep(run) \/ (IsActive(run) /\ Keep(r))
    BY <1>5 DEF NotifyLead
  <2>2. r.status = run.status
    BY <1>0, StatusStays, SlotsAssumption
  <2> HIDE DEF r
  <2> QED
    BY <1>0, <2>1, <2>2, LiveSlims, SameSlims
<1>6. CASE WriteNotice(p) \/ FinishLead(p) \/ FinishStarting(p) \/ \E s \in Slots : CheckPause(p, s)
  BY <1>6, SameSlims DEF WriteNotice, FinishLead, FinishStarting, CheckPause
<1> DEFINE s == stops[p].slot
           quiet == PausePending(run, s)
<1>7. CASE BeginPause(p)
  <2> DEFINE r == [quiet EXCEPT !.starting[s] = "none"]
  <2>1. Keep(run) \/ (IsActive(run) /\ Keep(r))
    BY <1>7 DEF BeginPause
  <2>2. r.status = run.status
    BY <1>0 DEF PausePending, RunRecord
  <2> HIDE DEF r
  <2> QED
    BY <1>0, <2>1, <2>2, LiveSlims, SameSlims
<1>8. CASE FinishPause(p)
  <2> DEFINE r == [quiet EXCEPT !.active[s] = NoTurn]
  <2>1. Keep(run) \/ Keep(r)
    BY <1>8 DEF FinishPause
  <2>2. /\ r.status = run.status /\ r.id = run.id /\ r.leases = run.leases
        /\ r.starting = run.starting
        /\ \A other \in Slots : r.active[other] \in {NoTurn, run.active[other]}
    BY <1>0 DEF PausePending, RunRecord
  <2>3. \A other \in Slots : Retained(run.gate[other]) => Retained(r.gate[other])
    <3>1. \A other \in Slots : other # s => r.gate[other] = run.gate[other]
      BY <1>0 DEF PausePending, RunRecord
    <3>2. r.gate[s] = AddSuppressed(PauseEntry(run.gate[s]), run.pending[s] # <<>>)
      BY <1>0 DEF PausePending, RunRecord
    <3> DEFINE entry == PauseEntry(run.gate[s])
    <3>3. entry \in GateEntry /\ entry.mode = "paused"
      <4>1. run.gate[s] \in GateEntry
        BY <1>0 DEF RunRecord
      <4> QED
        BY <4>1 DEF PauseEntry, GateEntry, GateMode
    <3>4. r.gate[s].mode = "paused"
      BY <3>2, <3>3 DEF AddSuppressed, GateEntry
    <3> QED
      BY <3>1, <3>4 DEF Retained, Paused
  <2> HIDE DEF r
  <2> QED
    BY <2>1, <2>2, <2>3, ReplaceSlims, SameSlims
<1> QED
  BY <1>3, <1>4, <1>5, <1>6, <1>7, <1>8 DEF CancelChild, PauseSlot

\* What a step does to the run id its loop has noted.
LEMMA NotedRuns ==
  ASSUME Safe, NEW s \in Slots, Look(s) \/ Execute(s) \/ Finalize(s)
  PROVE  /\ \A other \in Slots : other # s => turns'[other] = turns[other]
         /\ \/ turns'[s].run \in {turns[s].run, 0}
            \/ turns'[s].run = run.id /\ run.status # "None"
         /\ turns'[s].phase = "claimed" => turns'[s].run # 0
<1> DEFINE noted == turns'[s].run \in {turns[s].run, 0} \/ (turns'[s].run = run.id /\ run.status # "None")
           kept == turns'[s].phase = "claimed" => turns'[s].run # 0
<1>0. turns \in [Slots -> Turn] /\ turns[s] \in Turn
  BY HandsHere
<1>1. \E t : HoldTurn(s, t)
  BY DEF Look, Execute, Finalize, PeekWake, NoteRun, LeaveBacklog, ObserveEmptyWake, ClaimWake,
     StartFails, RetryStartLater, StartTurn, CancelLateStart, FinishLateStart, FailStarted,
     AcquireWakeLead, CommitWakeLead, CompleteChild, MaybeCompleteRun, ReleaseSuppressed
<1>2. \A other \in Slots : other # s => turns'[other] = turns[other]
  BY <1>0, <1>1 DEF HoldTurn
<1> SUFFICES noted /\ kept
  BY <1>2
<1>3. HoldTurn(s, NoTurnInHand) => noted /\ kept
  BY <1>0 DEF HoldTurn, NoTurnInHand
<1>4. CASE PeekWake(s)
  BY <1>0, <1>4 DEF PeekWake, HoldTurn, NoTurnInHand
<1>5. CASE NoteRun(s)
  BY <1>0, <1>5 DEF NoteRun, HoldTurn, Turn, IsActive
<1>6. CASE ClaimWake(s)
  <2>1. CASE HoldTurn(s, NoTurnInHand)
    BY <1>3, <2>1
  <2>2. CASE HoldTurn(s, [turns[s] EXCEPT !.phase = "claimed", !.wake = Head(run.pending[s])])
    <3>1. turns[s].run # 0
      BY <1>6 DEF ClaimWake
    <3> QED
      BY <1>0, <2>2, <3>1 DEF HoldTurn, Turn
  <2> QED
    BY <1>6, <2>1, <2>2 DEF ClaimWake
<1>7. CASE LeaveBacklog(s) \/ ObserveEmptyWake(s) \/ RetryStartLater(s) \/ ReleaseSuppressed(s)
  BY <1>3, <1>7 DEF LeaveBacklog, ObserveEmptyWake, RetryStartLater, ReleaseSuppressed
<1>8. CASE \/ StartFails(s) \/ CancelLateStart(s) \/ FinishLateStart(s) \/ FailStarted(s)
           \/ MaybeCompleteRun(s) \/ \E ok \in BOOLEAN : CompleteChild(s, ok)
  <2>1. turns'[s].run = turns[s].run /\ turns'[s].phase # "claimed"
    <3>1. CASE StartFails(s)
      BY <1>0, <3>1 DEF StartFails, HoldTurn, Turn
    <3>2. CASE CancelLateStart(s)
      BY <1>0, <3>2 DEF CancelLateStart, HoldTurn, Turn
    <3>3. CASE FinishLateStart(s)
      BY <1>0, <3>3 DEF FinishLateStart, HoldTurn, Turn
    <3>4. CASE FailStarted(s)
      BY <1>0, <3>4 DEF FailStarted, HoldTurn, Turn
    <3>5. CASE MaybeCompleteRun(s)
      BY <1>0, <3>5 DEF MaybeCompleteRun, HoldTurn, Turn
    <3>6. CASE \E ok \in BOOLEAN : CompleteChild(s, ok)
      BY <1>0, <3>6 DEF CompleteChild, HoldTurn, Turn
    <3> QED
      BY <1>8, <3>1, <3>2, <3>3, <3>4, <3>5, <3>6
  <2> QED
    BY <2>1
<1>9. CASE AcquireWakeLead(s) \/ \E l \in calls : CommitWakeLead(s, l)
  <2>1. \E phase \in {"waking", "releasing", "settling"} : HoldTurn(s, [turns[s] EXCEPT !.phase = phase])
    BY <1>9 DEF AcquireWakeLead, CommitWakeLead, AfterWaking
  <2> QED
    BY <1>0, <2>1 DEF HoldTurn, Turn
<1>10. CASE \E t \in TurnIds : StartTurn(s, t)
  <2>1. \E phase \in {"running", "late"}, t \in TurnIds :
          HoldTurn(s, [turns[s] EXCEPT !.phase = phase, !.wake = NoWake, !.turn = t])
    BY <1>10 DEF StartTurn
  <2> QED
    BY <1>0, <2>1 DEF HoldTurn, Turn
<1> QED
  BY <1>2, <1>4, <1>5, <1>6, <1>7, <1>8, <1>9, <1>10 DEF Look, Execute, Finalize

LEMMA NumbersStep ==
  ASSUME Safe, Numbers, [Next]_vars
  PROVE  Numbers'
<1>0. turns \in [Slots -> Turn] /\ run \in RunRecord /\ lastRun \in Nat /\ run.id \in Nat
      /\ \A s \in Slots : turns[s].run \in Nat
  BY HandsHere DEF Safe, Typed, TypeOK, RunRecord, Turn
<1>1. Safe' /\ RunMoves
  BY NextSafe
<1>2. lastRun' \in Nat /\ lastRun <= lastRun'
  BY <1>0, <1>1 DEF RunMoves, Stays, Starts, Closes
<1>3. run'.status # "None" => run'.id = lastRun'
  <2>1. CASE Stays
    <3>1. run'.status # "None" => run.status # "None"
      BY <2>1 DEF Stays, IsActive
    <3>2. run'.status # "None" => run'.id = run.id
      BY <1>1, <2>1, <3>1 DEF Stays, Safe, RunShape
    <3> QED
      BY <2>1, <3>1, <3>2 DEF Stays, Numbers
  <2>2. CASE Starts
    BY <2>2 DEF Starts
  <2>3. CASE \E outcome \in Outcome : Closes(outcome)
    BY <2>3 DEF Closes, NoRun
  <2> QED
    BY <1>1, <2>1, <2>2, <2>3 DEF RunMoves
<1>4. ASSUME NEW s \in Loops, Look(s) \/ Execute(s) \/ Finalize(s) PROVE Numbers'
  <2>1. s \in Slots
    BY SlotsAssumption
  <2>2. /\ \A other \in Slots : other # s => turns'[other] = turns[other]
        /\ \/ turns'[s].run \in {turns[s].run, 0}
           \/ turns'[s].run = run.id /\ run.status # "None"
        /\ turns'[s].phase = "claimed" => turns'[s].run # 0
    BY <1>4, <2>1, NotedRuns
  <2>3. turns'[s].run <= lastRun'
    BY <1>0, <1>2, <2>1, <2>2 DEF Numbers
  <2>4. \A other \in Slots : other # s => turns'[other].run <= lastRun'
    BY <1>0, <1>2, <2>2 DEF Numbers
  <2> QED
    BY <1>3, <2>2, <2>3, <2>4 DEF Numbers
<1>5. CASE UNCHANGED turns
  BY <1>0, <1>2, <1>3, <1>5 DEF Numbers
<1>6. Request \/ (\E p \in Stoppers : CancelRun(p) \/ CancelChild(p) \/ PauseSlot(p) \/ EndStop(p)) \/ UNCHANGED vars
        => UNCHANGED turns
  BY DEF Request, AcquireIntervention, AcquireNewRun, AcquireScoped, CommitLease, AbortLease,
     RecordOrSuppressWake, RecoverBacklog, CancelRun, CheckCancel, BeginCancel, EndStop,
     ListChildren, SweepChild, FinishSweep, CancelChild, PauseSlot, BeginCancelChild,
     FinishCancelChild, FinishLead, WriteNotice, NotifyLead, FinishStarting, CheckPause,
     BeginPause, FinishPause, vars
<1> QED
  BY <1>4, <1>5, <1>6 DEF Next

\* A failing call of the mailbox and a stop request that is dropped count as a
\* fault each; nothing else does.
LEMMA FaultsCount ==
  ASSUME SessionTyped, [SessionNext]_allVars, faults' = 0
  PROVE  faults = 0 /\ ~Fault
<1>0. faults \in Nat
  BY SessionAssumption DEF SessionTyped, SessionTypeOK
<1>1. ~Fault
  BY <1>0 DEF Fault
<1>2. CASE UNCHANGED faults
  BY <1>1, <1>2
<1>3. UNCHANGED sessionVars => UNCHANGED faults
  BY DEF sessionVars
<1>4. UNCHANGED allVars => UNCHANGED faults
  BY <1>3 DEF allVars
<1>5. Ask => UNCHANGED faults
  BY <1>3 DEF Ask
<1>6. ASSUME NEW l \in calls, Send(l) PROVE UNCHANGED faults
  BY <1>1, <1>6 DEF Send, WriteLetter, DropLetter, CommitLetter
<1>7. Recover => UNCHANGED faults
  BY <1>1 DEF Recover, FindBacklog, ScanFails, RecoverFound
<1>8. ASSUME NEW s \in Loops, LoopStep(s) PROVE UNCHANGED faults
  BY <1>1, <1>3, <1>8 DEF LoopStep, Notified, ReadMailbox, ReadFails, PeekNext, NoteNext,
     LeaveMail, FindEmpty, Claim, Refused, Prompt, LateStart, MarkRead, TellLead, WakeLead,
     Complete, GoRound
<1>9. ASSUME NEW p \in Stoppers, StopStep(p) PROVE UNCHANGED faults
  BY <1>1, <1>3, <1>9 DEF StopStep, ReadMail, DiscardMail, SweepBegins, Notice, StopKeepsMail,
     MailFails, PortFails, DropStop
<1> QED
  BY <1>2, <1>4, <1>5, <1>6, <1>7, <1>8, <1>9 DEF SessionNext

\* A step of the session without a fault.
LEMMA SessionAttends ==
  ASSUME Sound, SessionTyped, [SessionNext]_allVars, faults' = 0
  PROVE  AttendedNext
<1>0. faults = 0 /\ ~Fault
  BY FaultsCount
<1>1. \A s \in Loops : s \in Slots
  BY SlotsAssumption
<1>2. CASE UNCHANGED vars
  BY <1>2, SlimAttends, SameSlims DEF vars, Sound
<1>3. CASE Ask
  BY <1>3, AskSlims, SlimAttends DEF Sound
<1>4. ASSUME NEW l \in calls, Send(l) PROVE AttendedNext
  <2>1. UNCHANGED vars \/ (\E msg : CommitLease(l, msg)) \/ AbortLease(l)
    BY <1>4 DEF Send, WriteLetter, DropLetter, CommitLetter
  <2> QED
    BY <1>2, <2>1, LeaseSlims, SlimAttends DEF Sound
<1>5. CASE Recover
  <2>1. UNCHANGED vars \/ \E first : RecoverBacklog(scan.found, first)
    BY <1>0, <1>5 DEF Recover, FindBacklog, ScanFails, RecoverFound
  <2> QED
    BY <1>2, <2>1, BacklogSlims, SlimAttends DEF Sound
<1>6. ASSUME NEW s \in Loops, LoopStep(s) PROVE AttendedNext
  <2>1. CASE UNCHANGED vars
    BY <1>2, <2>1
  <2>2. CASE PeekNext(s) \/ NoteNext(s) \/ LeaveMail(s) \/ FindEmpty(s) \/ Claim(s)
    <3>1. Look(s)
      BY <2>2 DEF PeekNext, NoteNext, LeaveMail, FindEmpty, Claim, Look
    <3> QED
      BY <1>1, <3>1, LookAttends
  <2>3. CASE Refused(s) \/ LateStart(s)
    BY <1>1, <2>3, ExecuteAttends DEF Refused, LateStart
  <2>4. CASE Prompt(s)
    BY <1>1, <2>4, StartAttends DEF Prompt
  <2>5. CASE WakeLead(s) \/ Complete(s) \/ GoRound(s)
    <3>1. Finalize(s)
      BY <2>5 DEF WakeLead, Complete, GoRound, Finalize
    <3> QED
      BY <1>1, <3>1, FinalizeAttends
  <2> QED
    BY <1>6, <2>1, <2>2, <2>3, <2>4, <2>5
    DEF LoopStep, Notified, ReadMailbox, ReadFails, MarkRead, TellLead
<1>7. ASSUME NEW p \in Stoppers, StopStep(p) PROVE AttendedNext
  <2>1. CASE ReadMail(p) \/ DiscardMail(p)
    BY <1>2, <2>1 DEF ReadMail, DiscardMail
  <2>2. CASE SweepBegins(p)
    BY <2>2, CancelRunAttends DEF SweepBegins
  <2>3. CASE Notice(p)
    BY <2>3, OtherStopAttends DEF Notice, CancelChild
  <2>4. CASE StopKeepsMail(p)
    <3>1. \/ CheckCancel(p) \/ BeginCancel(p) \/ (\E c \in stops[p].todo : SweepChild(p, c)) \/ FinishSweep(p)
          \/ CancelChild(p) \/ PauseSlot(p)
      BY <2>4 DEF StopKeepsMail, CancelChild
    <3> QED
      BY <3>1, CancelRunAttends, OtherStopAttends
  <2>5. CASE PortFails(p)
    <3>1. HoldStop(p, NoStop) /\ UNCHANGED <<run, turns>> /\ stops[p].phase \notin {"cancelBegun", "sweeping"}
      BY <2>5 DEF PortFails, EndStop
    <3> QED
      BY <3>1, AsideStopAttends, SameSlims
  <2> QED
    BY <1>0, <1>7, <2>1, <2>2, <2>3, <2>4, <2>5 DEF StopStep, MailFails, DropStop
<1>8. UNCHANGED allVars => UNCHANGED vars
  BY DEF allVars
<1> QED
  BY <1>2, <1>3, <1>4, <1>5, <1>6, <1>7, <1>8 DEF SessionNext

\* A cancelled session always has somebody on the way to end its run, for any
\* team, any number of stop requests and any port: the mark on reservations,
\* the one listing of the children and the late starts leave no gap between
\* them (team_run.rs:1516, 1330, 1803).
THEOREM SomebodyEndsCancel == SessionSpec => []CancelHasFinisher
<1> DEFINE Held1 == /\ Safe /\ SessionTyped /\ Drained(run) /\ Numbers
                    /\ faults = 0 => Attended(run, turns, stops)
<1>1. SessionInit => Held1
  <2>1. SessionInit => Safe /\ SessionTyped
    BY InitSafe, InitSessionTyped DEF SessionInit
  <2>2. Init => Drained(run) /\ Numbers /\ Attended(run, turns, stops)
    BY DEF Init, NoRun, NoTurnInHand, Drained, Numbers, Attended
  <2> QED
    BY <2>1, <2>2 DEF SessionInit
<1>2. Held1 /\ [SessionNext]_allVars => Held1'
  <2> SUFFICES ASSUME Held1, [SessionNext]_allVars PROVE Held1'
    OBVIOUS
  <2>1. SessionTyped' /\ [Next]_vars
    BY SessionStepTyped
  <2>2. Safe' /\ Numbers'
    BY <2>1, NextSafe, NumbersStep
  <2>3. Drained(run)'
    BY <2>1, NextWinds DEF Drained
  <2>4. faults' = 0 => faults = 0
    BY FaultsCount
  <2>5. faults' = 0 => Attended(run, turns, stops)'
    BY <2>4, SessionAttends DEF Sound, AttendedNext, Attended, ToSweep, Watched
  <2> QED
    BY <2>1, <2>2, <2>3, <2>5
<1>3. Held1 => CancelHasFinisher
  BY DEF Attended, Watched, CancelHasFinisher
<1> HIDE DEF Held1
<1> QED
  BY <1>1, <1>2, <1>3, PTL DEF SessionSpec

=============================================================================
