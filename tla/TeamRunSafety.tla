--------------------------- MODULE TeamRunSafety ---------------------------
(***************************************************************************)
(* Proofs that every live run has its work owned, that a lease keeps its   *)
(* run open, and that TeamRun implements TeamRunLifecycle.  All three rest *)
(* on one inductive invariant, Safe, and on one lemma, Settle, which says  *)
(* what it takes for a new record to be put in the place of the old one.   *)
(* With Safe, two more follow from an invariant of their own: a cancelling *)
(* run only winds down, and the user's wakes stay in front.                *)
(***************************************************************************)
EXTENDS TeamRunProofs

\* A record without status is empty; a run is open exactly while it is the
\* record's.
RunShape ==
  /\ run.status = "None" => run = NoRun
  /\ run.status # "None" => run.id \in 1..lastRun
  /\ \A i \in 1..lastRun : ended[i] = "open" <=> run.status # "None" /\ run.id = i

\* A turn that can still be completed has an id.
TurnInHand ==
  \A s \in Slots : turns[s].phase \in {"late", "swept", "running", "settling"}
                     => turns[s].turn \in TurnIds

LeasedRuns == \A l \in calls : l.run \in 1..lastRun

Safe == Typed /\ RunShape /\ TurnInHand /\ WorkOwned /\ LeasedRuns /\ LeaseKeepsRunOpen

-----------------------------------------------------------------------------
(* The invariants, as facts about a record, the turns and the leases.      *)

SlotOwned(r, s, t) ==
  /\ r.starting[s] # "none" => t.phase = "claimed" \/ (MayRetryStart /\ r.status = "Cancelling")
  /\ r.active[s] # NoTurn =>
       /\ t.turn = r.active[s] /\ t.run = r.id
       /\ t.phase \in {"late", "swept", "running", "waking", "settling"}

Owned(r, held, hands) ==
  /\ IsActive(r) => r.leases \subseteq held
  /\ \A s \in Slots : SlotOwned(r, s, hands[s])

Kept(r, held) ==
  \A l \in held : \/ ended[l.run] \in {"Failed", "Cancelled"}
                  \/ ended[l.run] = "open" /\ r.id = l.run /\ l \in r.leases

LEMMA OwnedKept == /\ WorkOwned <=> Owned(run, calls, turns)
                   /\ LeaseKeepsRunOpen <=> Kept(run, calls)
  BY DEF WorkOwned, Owned, SlotOwned, LeaseKeepsRunOpen, Kept

\* The only ways a step moves the run (the steps of TeamRunLifecycle).
Closes(outcome) ==
  /\ run.status # "None" /\ run' = NoRun
  /\ ended' = [ended EXCEPT ![run.id] = outcome]
  /\ UNCHANGED lastRun
  /\ \/ outcome = "Completed" /\ IsActive(run)
     \/ outcome = "Cancelled" /\ run.status = "Cancelling"
     \/ outcome = "Failed"

Starts ==
  /\ run.status = "None" /\ run'.status = "Accepted" /\ run'.id = lastRun + 1
  /\ lastRun' = lastRun + 1
  /\ ended' = [i \in 1..(lastRun + 1) |-> IF i <= lastRun THEN ended[i] ELSE "open"]

Stays ==
  /\ \/ run'.status = run.status
     \/ IsActive(run) /\ run'.status \in {"Running", "Cancelling"}
  /\ UNCHANGED <<lastRun, ended>>

RunMoves == Stays \/ Starts \/ \E outcome \in Outcome : Closes(outcome)

\* What a step has to show.
Settled == RunShape' /\ WorkOwned' /\ LeaseKeepsRunOpen' /\ RunMoves

LEMMA Settle ==
  ASSUME Safe, NEW r \in RunRecord, UNCHANGED lastRun,
         r.id = run.id,
         IF run.status = "None" THEN r = run ELSE r.status # "None",
         \/ Keep(r) /\ \/ r.status = run.status
                       \/ IsActive(run) /\ r.status \in {"Running", "Cancelling"}
         \/ r.status = run.status /\ (MaybeComplete(r) \/ MaybeCancelled(r))
         \/ r.status = run.status /\ run.status # "None" /\ Fail(r),
         Owned(r, calls', turns'), Kept(r, calls'), calls' \in SUBSET Lease,
         \A l \in calls' : l.run \in 1..lastRun
  PROVE  Settled
<1> USE DEF Safe, Typed
<1>1. CASE run' = r /\ ended' = ended /\ (r.status = run.status \/
             (IsActive(run) /\ r.status \in {"Running", "Cancelling"}))
  <2>1. RunShape'
    BY <1>1 DEF RunShape, IsActive
  <2>2. WorkOwned' /\ LeaseKeepsRunOpen'
    BY <1>1 DEF WorkOwned, Owned, SlotOwned, LeaseKeepsRunOpen, Kept
  <2> QED
    BY <1>1, <2>1, <2>2 DEF Settled, RunMoves, Stays
<1>2. ASSUME NEW outcome \in {"Completed", "Failed", "Cancelled"},
             run.status # "None", r.status = run.status,
             run' = NoRun, ended' = [ended EXCEPT ![r.id] = outcome],
             outcome = "Completed" => IsActive(run) /\ r.leases = {},
             outcome = "Cancelled" => run.status = "Cancelling"
      PROVE  Settled
  <2>1. r.id \in 1..lastRun /\ ended \in [1..lastRun -> Outcome]
    BY <1>2 DEF RunShape, TypeOK
  <2>2. NoRun.status = "None" /\ NoRun.leases = {} /\ NoRun.id = 0
        /\ \A s \in Slots : NoRun.starting[s] = "none" /\ NoRun.active[s] = NoTurn
    BY DEF NoRun
  <2>3. RunShape'
    BY <1>2, <2>1, <2>2 DEF RunShape
  <2>4. WorkOwned'
    BY <1>2, <2>2 DEF WorkOwned
  <2>5. LeaseKeepsRunOpen'
    <3> SUFFICES ASSUME NEW l \in calls'
                 PROVE  ended'[l.run] \in {"Failed", "Cancelled"}
      BY DEF LeaseKeepsRunOpen
    <3>1. l.run \in 1..lastRun
      OBVIOUS
    <3>2. CASE l.run = r.id
      <4>1. ended[l.run] = "open"
        BY <1>2, <2>1, <3>2 DEF RunShape
      <4>2. l \in r.leases
        BY <4>1 DEF Kept
      <4> QED
        BY <1>2, <2>1, <3>2, <4>2
    <3>3. CASE l.run # r.id
      <4>1. ended[l.run] # "open"
        BY <1>2, <3>1, <3>3 DEF RunShape
      <4> QED
        BY <1>2, <2>1, <3>1, <3>3, <4>1 DEF Kept
    <3> QED
      BY <3>2, <3>3
  <2>6. Closes(outcome) /\ outcome \in Outcome
    BY <1>2 DEF Closes, Outcome
  <2> QED
    BY <2>3, <2>4, <2>5, <2>6 DEF Settled, RunMoves
<1>3. CASE Keep(r) /\ (r.status = run.status \/
             (IsActive(run) /\ r.status \in {"Running", "Cancelling"}))
  BY <1>1, <1>3 DEF Keep, CloseOrKeep
<1>4. CASE r.status = run.status /\ MaybeComplete(r)
  <2>1. CASE ~HasWork(r) /\ IsActive(r)
    BY <1>2, <1>4, <2>1 DEF MaybeComplete, CloseOrKeep, HasWork, IsActive
  <2>2. CASE ~(~HasWork(r) /\ IsActive(r))
    BY <1>1, <1>4, <2>2 DEF MaybeComplete, CloseOrKeep
  <2> QED
    BY <2>1, <2>2
<1>5. CASE r.status = run.status /\ MaybeCancelled(r)
  <2>1. CASE ~HasWork(r) /\ r.status = "Cancelling"
    BY <1>2, <1>5, <2>1 DEF MaybeCancelled, CloseOrKeep
  <2>2. CASE ~(~HasWork(r) /\ r.status = "Cancelling")
    BY <1>1, <1>5, <2>2 DEF MaybeCancelled, CloseOrKeep
  <2> QED
    BY <2>1, <2>2
<1>6. CASE r.status = run.status /\ run.status # "None" /\ Fail(r)
  BY <1>2, <1>6 DEF Fail, CloseOrKeep
<1> QED
  BY <1>3, <1>4, <1>5, <1>6

-----------------------------------------------------------------------------
(* Changes that touch neither leases nor reservations nor children.        *)

SameBooks(q, r) ==
  /\ q.id = r.id /\ q.status = r.status /\ q.leases = r.leases
  /\ q.starting = r.starting /\ q.active = r.active

LEMMA QueueBooks ==
  ASSUME NEW r \in RunRecord, NEW s \in Slots, NEW source \in WakeSource,
         NEW msg \in Msgs \cup {NoMsg}
  PROVE  /\ SameBooks(PushPending(r, s, source, msg), r)
         /\ SameBooks(GateWake(r, s, source), r)
<1> USE DEF SameBooks, RunRecord
<1>1. SameBooks(PushPending(r, s, source, msg), r)
  BY DEF PushPending
<1>2. SameBooks(GateWake(r, s, source), r)
  BY DEF GateWake
<1> QED
  BY <1>1, <1>2

LEMMA PauseBooks ==
  ASSUME NEW r \in RunRecord, NEW s \in Slots
  PROVE  SameBooks(PausePending(r, s), r)
  BY DEF PausePending, SameBooks, RunRecord

\* The three ways an action replaces the record.
Replaces(r) ==
  /\ r.id = run.id
  /\ IF run.status = "None" THEN r = run ELSE r.status # "None"
  /\ \/ Keep(r) /\ \/ r.status = run.status
                   \/ IsActive(run) /\ r.status \in {"Running", "Cancelling"}
     \/ r.status = run.status /\ (MaybeComplete(r) \/ MaybeCancelled(r))
     \/ r.status = run.status /\ run.status # "None" /\ Fail(r)

\* A step of a loop: only its own slot may gain a reservation or a child, and
\* then the loop has it in hand.
LEMMA TurnSettles ==
  ASSUME Safe, NEW r \in RunRecord, Replaces(r), UNCHANGED <<lastRun, calls>>,
         NEW s \in Slots, NEW t \in Turn, HoldTurn(s, t),
         r.leases = run.leases,
         \A other \in Slots \ {s} : /\ r.starting[other] = run.starting[other]
                                    /\ r.active[other] = run.active[other],
         SlotOwned(r, s, t)
  PROVE  Settled
<1> USE DEF Safe
<1>1. turns \in [Slots -> Turn] /\ calls \in SUBSET Lease
  BY DEF Typed, TypeOK
<1>2. IsActive(r) => IsActive(run)
  BY DEF Replaces, IsActive, Keep
<1>3. run.status = "Cancelling" => r.status = "Cancelling"
  BY DEF Replaces, IsActive
<1>4. Owned(r, calls', turns')
  <2>1. \A other \in Slots : SlotOwned(r, other, turns'[other])
    <3> SUFFICES ASSUME NEW other \in Slots PROVE SlotOwned(r, other, turns'[other])
      OBVIOUS
    <3>1. CASE other = s
      BY <1>1, <3>1 DEF HoldTurn
    <3>2. CASE other # s
      BY <1>1, <1>3, <3>2, OwnedKept DEF HoldTurn, Owned, SlotOwned, Replaces
    <3> QED
      BY <3>1, <3>2
  <2> QED
    BY <1>2, <2>1, OwnedKept DEF Owned
<1>5. Kept(r, calls')
  BY OwnedKept DEF Kept, Replaces
<1> QED
  BY <1>1, <1>4, <1>5, Settle DEF Replaces, LeasedRuns

\* A step of a stop request: it takes reservations and children away.
LEMMA StopSettles ==
  ASSUME Safe, NEW r \in RunRecord, Replaces(r), UNCHANGED <<lastRun, calls, turns>>,
         r.leases = run.leases,
         \A s \in Slots : /\ r.starting[s] # "none" => run.starting[s] # "none"
                          /\ r.active[s] \in {NoTurn, run.active[s]}
  PROVE  Settled
<1> USE DEF Safe
<1>1. calls \in SUBSET Lease
  BY DEF Typed, TypeOK
<1>2. IsActive(r) => IsActive(run)
  BY DEF Replaces, IsActive
<1>3. run.status = "Cancelling" => r.status = "Cancelling"
  BY DEF Replaces, IsActive
<1>4. Owned(r, calls', turns')
  BY <1>2, <1>3, OwnedKept DEF Owned, SlotOwned, Replaces
<1>5. Kept(r, calls')
  BY OwnedKept DEF Kept, Replaces
<1> QED
  BY <1>1, <1>4, <1>5, Settle DEF Replaces, LeasedRuns

\* A step of a requester: it has a lease more, or one less, on both sides.
LEMMA LeaseSettles ==
  ASSUME Safe, NEW r \in RunRecord, Keep(r), UNCHANGED <<lastRun>>,
         r.id = run.id, r.status = run.status, run.status = "None" => r = run,
         r.active = run.active, r.starting = run.starting, Owned(r, calls', turns'),
         NEW l \in Lease,
         \/ run.status # "None" /\ l.run = run.id /\ calls' = calls \cup {l} /\ r.leases = run.leases \cup {l}
         \/ calls' = calls \ {l} /\ r.leases \in {run.leases, run.leases \ {l}}
  PROVE  Settled /\ LeasedRuns'
<1> USE DEF Safe
<1>1. calls \in SUBSET Lease /\ calls' \in SUBSET Lease
  BY DEF Typed, TypeOK
<1>2. LeasedRuns'
  BY DEF LeasedRuns, RunShape
<1>3. Kept(r, calls')
  BY <1>2, OwnedKept DEF Kept, RunShape, LeasedRuns
<1> QED
  BY <1>1, <1>2, <1>3, Settle DEF LeasedRuns

-----------------------------------------------------------------------------
(* Every action settles.                                                   *)

AllSettled == Settled /\ LeasedRuns' /\ TurnInHand'

LEMMA RunRecords == ASSUME Safe PROVE run \in RunRecord /\ calls \in SUBSET Lease
                                   /\ turns \in [Slots -> Turn] /\ lastRun \in Nat
  BY DEF Safe, Typed, TypeOK

\* Requesters hold no turn.
LEMMA NewRunSettles ==
  ASSUME Safe, NEW r \in RunRecord, StartRun(r), run.status = "None",
         r.status = "Accepted", r.id = lastRun + 1,
         r.starting = NoRun.starting, r.active = NoRun.active,
         UNCHANGED turns,
         \/ r.leases = {} /\ calls' = calls
         \/ \E l \in Lease : l.run = r.id /\ r.leases = {l} /\ calls' = calls \cup {l}
  PROVE  AllSettled
<1> USE DEF Safe
<1>1. lastRun \in Nat /\ ended \in [1..lastRun -> Outcome]
  BY DEF Typed, TypeOK
<1>2. run' = r /\ lastRun' = lastRun + 1
      /\ ended' = [i \in 1..(lastRun + 1) |-> IF i <= lastRun THEN ended[i] ELSE "open"]
  BY DEF StartRun
<1>3. \A s \in Slots : r.starting[s] = "none" /\ r.active[s] = NoTurn
  BY DEF NoRun
<1>4. RunShape'
  BY <1>1, <1>2 DEF RunShape
<1>5. WorkOwned'
  BY <1>2, <1>3 DEF WorkOwned, IsActive
<1>6. LeasedRuns'
  BY <1>1, <1>2 DEF LeasedRuns
<1>7. LeaseKeepsRunOpen'
  <2> SUFFICES ASSUME NEW l \in calls'
               PROVE  \/ ended'[l.run] \in {"Failed", "Cancelled"}
                      \/ ended'[l.run] = "open" /\ run'.id = l.run /\ l \in run'.leases
    BY DEF LeaseKeepsRunOpen
  <2>1. CASE l \in calls
    BY <1>1, <1>2, <2>1 DEF LeasedRuns, LeaseKeepsRunOpen, RunShape
  <2>2. CASE l \notin calls
    BY <1>1, <1>2, <2>2
  <2> QED
    BY <2>1, <2>2
<1>8. Starts
  BY <1>2 DEF Starts
<1>9. TurnInHand'
  BY DEF TurnInHand
<1> QED
  BY <1>4, <1>5, <1>6, <1>7, <1>8, <1>9 DEF AllSettled, Settled, RunMoves

LEMMA RequestSettles == ASSUME Safe, Request PROVE AllSettled
<1> USE RunRecords
<1>1. ASSUME UNCHANGED turns PROVE TurnInHand'
  BY <1>1 DEF Safe, TurnInHand
<1>2. Owned(run, calls, turns)
  BY OwnedKept DEF Safe
<1>3. ASSUME NEW s \in Slots, NEW id \in LeaseIds, AcquireIntervention(s, id) PROVE AllSettled
  <2> DEFINE lease == [id |-> id, run |-> run.id, slot |-> s, source |-> "UserIntervention"]
             gated == GateWake(run, s, "UserIntervention")
             r == [gated EXCEPT !.leases = @ \cup {lease}]
  <2>1. lease \in Lease /\ "UserIntervention" \in WakeSource
    BY DEF RunRecord, Lease, WakeSource, UserSource
  <2>2. gated \in RunRecord /\ SameBooks(gated, run)
    BY <2>1, GateWakeType, QueueBooks
  <2> HIDE DEF gated
  <2>3. r \in RunRecord /\ r.id = run.id /\ r.status = run.status /\ r.active = run.active
        /\ r.starting = run.starting /\ r.leases = run.leases \cup {lease}
    BY <2>1, <2>2 DEF RunRecord, SameBooks
  <2>4. /\ Keep(r) /\ calls' = calls \cup {lease} /\ UNCHANGED <<lastRun, turns, stops>>
        /\ IsActive(run)
    BY <1>3 DEF AcquireIntervention, gated
  <2> HIDE DEF r
  <2>5. Owned(r, calls', turns')
    BY <1>2, <2>3, <2>4 DEF Owned, SlotOwned, IsActive
  <2> QED
    BY <1>1, <2>1, <2>3, <2>4, <2>5, LeaseSettles DEF AllSettled, IsActive
<1>4. ASSUME NEW s \in Slots, NEW id \in LeaseIds, AcquireNewRun(s, id) PROVE AllSettled
  <2> DEFINE lease == [id |-> id, run |-> lastRun + 1, slot |-> s, source |-> "UserMessage"]
             r == [NewRun(lastRun + 1, s) EXCEPT !.leases = {lease}]
  <2>1. lease \in Lease
    BY DEF Lease, WakeSource, UserSource
  <2>2. r \in RunRecord /\ r.status = "Accepted" /\ r.id = lastRun + 1 /\ r.leases = {lease}
        /\ r.starting = NoRun.starting /\ r.active = NoRun.active
    <3>1. NewRun(lastRun + 1, s) \in RunRecord
      BY NewRunType
    <3>2. r \in RunRecord
      BY <2>1, <3>1 DEF RunRecord
    <3> QED
      BY <3>2 DEF NewRun, NoRun
  <2>3. StartRun(r) /\ calls' = calls \cup {lease} /\ UNCHANGED <<turns, stops>>
        /\ run.status = "None"
    BY <1>4 DEF AcquireNewRun
  <2> HIDE DEF r
  <2> QED
    BY <2>1, <2>2, <2>3, NewRunSettles
<1>5. ASSUME NEW s \in Slots, NEW source \in Sources, NEW id \in LeaseIds,
             AcquireScoped(s, source, id)
      PROVE AllSettled
  <2> DEFINE lease == [id |-> id, run |-> run.id, slot |-> s, source |-> source]
             gated == GateWake(run, s, source)
             r == [gated EXCEPT !.leases = @ \cup {lease}]
  <2>1. lease \in Lease /\ source \in WakeSource
    BY SourcesAssumption DEF RunRecord, Lease
  <2>2. gated \in RunRecord /\ SameBooks(gated, run)
    BY <2>1, GateWakeType, QueueBooks
  <2>3. /\ UNCHANGED <<lastRun, turns, stops>> /\ IsActive(run)
        /\ \/ Keep(gated) /\ UNCHANGED calls
           \/ Keep(r) /\ calls' = calls \cup {lease}
    BY <1>5 DEF AcquireScoped
  <2> HIDE DEF gated
  <2>4. r \in RunRecord /\ r.id = run.id /\ r.status = run.status /\ r.active = run.active
        /\ r.starting = run.starting /\ r.leases = run.leases \cup {lease}
    BY <2>1, <2>2 DEF RunRecord, SameBooks
  <2> HIDE DEF r
  <2>5. CASE Keep(gated) /\ UNCHANGED calls
    <3>1. Replaces(gated)
      BY <2>2, <2>3, <2>5 DEF Replaces, SameBooks, IsActive
    <3> QED
      BY <1>1, <2>2, <2>3, <2>5, <3>1, StopSettles DEF AllSettled, SameBooks, Safe, LeasedRuns
  <2>6. CASE Keep(r) /\ calls' = calls \cup {lease}
    <3>1. Owned(r, calls', turns')
      BY <1>2, <2>3, <2>4, <2>6 DEF Owned, SlotOwned, IsActive
    <3> QED
      BY <1>1, <2>1, <2>3, <2>4, <2>6, <3>1, LeaseSettles DEF AllSettled, IsActive
  <2> QED
    BY <2>3, <2>5, <2>6
<1>6. ASSUME NEW l \in calls, NEW msg \in Msgs \cup {NoMsg}, CommitLease(l, msg) PROVE AllSettled
  <2> DEFINE pushed == PushPending(run, l.slot, l.source, msg)
             r == [pushed EXCEPT !.leases = @ \ {l}]
  <2>1. l \in Lease /\ l.slot \in Slots /\ l.source \in WakeSource
    BY DEF Lease
  <2>2. pushed \in RunRecord /\ SameBooks(pushed, run)
    BY <2>1, PushPendingType, QueueBooks
  <2>3. /\ calls' = calls \ {l} /\ UNCHANGED <<lastRun, turns, stops>>
        /\ \/ Keep(r) /\ IsActive(run)
           \/ Keep(run) /\ ~(IsActive(run) /\ l \in run.leases)
    BY <1>6 DEF CommitLease
  <2> HIDE DEF pushed
  <2>4. r \in RunRecord /\ r.id = run.id /\ r.status = run.status /\ r.active = run.active
        /\ r.starting = run.starting /\ r.leases = run.leases \ {l}
    BY <2>1, <2>2 DEF RunRecord, SameBooks
  <2> HIDE DEF r
  <2>5. CASE Keep(r) /\ IsActive(run)
    <3>1. Owned(r, calls', turns')
      BY <1>2, <2>3, <2>4, <2>5 DEF Owned, SlotOwned, IsActive
    <3> QED
      BY <1>1, <2>1, <2>3, <2>4, <2>5, <3>1, LeaseSettles DEF AllSettled, IsActive
  <2>6. CASE Keep(run) /\ ~(IsActive(run) /\ l \in run.leases)
    <3>1. Owned(run, calls', turns')
      BY <1>2, <2>3, <2>6 DEF Owned, SlotOwned
    <3> QED
      BY <1>1, <2>1, <2>3, <2>6, <3>1, LeaseSettles DEF AllSettled
  <2> QED
    BY <2>3, <2>5, <2>6
<1>7. ASSUME NEW l \in calls, AbortLease(l) PROVE AllSettled
  <2> DEFINE r == [run EXCEPT !.leases = @ \ {l}]
  <2>1. l \in Lease
    OBVIOUS
  <2>2. /\ calls' = calls \ {l} /\ UNCHANGED <<lastRun, turns, stops>>
        /\ \/ Keep(r) /\ IsActive(run)
           \/ Keep(run) /\ ~(IsActive(run) /\ l \in run.leases)
    BY <1>7 DEF AbortLease
  <2>3. r \in RunRecord /\ r.id = run.id /\ r.status = run.status /\ r.active = run.active
        /\ r.starting = run.starting /\ r.leases = run.leases \ {l}
    BY DEF RunRecord
  <2> HIDE DEF r
  <2>4. CASE Keep(r) /\ IsActive(run)
    <3>1. Owned(r, calls', turns')
      BY <1>2, <2>2, <2>3, <2>4 DEF Owned, SlotOwned, IsActive
    <3> QED
      BY <1>1, <2>1, <2>2, <2>3, <2>4, <3>1, LeaseSettles DEF AllSettled, IsActive
  <2>5. CASE Keep(run) /\ ~(IsActive(run) /\ l \in run.leases)
    <3>1. Owned(run, calls', turns')
      BY <1>2, <2>2, <2>5 DEF Owned, SlotOwned
    <3> QED
      BY <1>1, <2>1, <2>2, <2>5, <3>1, LeaseSettles DEF AllSettled
  <2> QED
    BY <2>2, <2>4, <2>5
<1>8. ASSUME NEW s \in Slots, NEW source \in Sources, NEW msg \in Msgs \cup {NoMsg},
             RecordOrSuppressWake(s, source, msg)
      PROVE AllSettled
  <2> DEFINE gated == GateWake(run, s, source)
             pushed == PushPending(gated, s, source, msg)
  <2>1. source \in WakeSource
    BY SourcesAssumption
  <2>2. gated \in RunRecord /\ SameBooks(gated, run)
    BY <2>1, GateWakeType, QueueBooks
  <2>3. /\ Keep(pushed) \/ Keep(gated)
        /\ IsActive(run) /\ UNCHANGED <<lastRun, calls, turns, stops>>
    BY <1>8 DEF RecordOrSuppressWake
  <2> HIDE DEF gated
  <2>4. pushed \in RunRecord /\ SameBooks(pushed, run)
    BY <2>1, <2>2, PushPendingType, QueueBooks DEF SameBooks
  <2> HIDE DEF pushed
  <2>5. \/ Keep(pushed) /\ Replaces(pushed)
        \/ Keep(gated) /\ Replaces(gated)
    BY <2>2, <2>3, <2>4 DEF Replaces, SameBooks, IsActive
  <2> QED
    BY <1>1, <2>2, <2>3, <2>4, <2>5, StopSettles DEF AllSettled, SameBooks, Safe, LeasedRuns
<1>9. ASSUME NEW candidates \in SUBSET Slots, NEW first \in Slots,
             RecoverBacklog(candidates, first)
      PROVE AllSettled
  <2> DEFINE drain == [source |-> "RecoveryDrain", msg |-> NoMsg]
             queues(r, targets) == [s \in Slots |-> IF s \in targets THEN Append(r.pending[s], drain)
                                                    ELSE r.pending[s]]
             woken(r, targets) == [r EXCEPT !.pending = queues(r, targets)]
             fresh == NewRun(lastRun + 1, first)
             idle == {s \in candidates : SlotRunState(run, s) = "Idle"}
  <2>1. /\ \/ run.status = "None" /\ StartRun(woken(fresh, candidates))
           \/ IsActive(run) /\ Keep(woken(run, idle)) /\ UNCHANGED lastRun
        /\ UNCHANGED <<calls, turns, stops>>
    BY <1>9 DEF RecoverBacklog
  <2>2. ASSUME NEW r \in RunRecord, NEW targets
        PROVE  woken(r, targets) \in RunRecord /\ SameBooks(woken(r, targets), r)
    <3>1. drain \in Wake
      BY DEF Wake, WakeSource, RecoverySource
    <3>2. \A s \in Slots : r.pending[s] \in Seq(Wake)
      BY DEF RunRecord
    <3> HIDE DEF drain
    <3>3. queues(r, targets) \in [Slots -> Seq(Wake)]
      BY <3>1, <3>2
    <3> HIDE DEF queues
    <3> QED
      BY <3>3 DEF RunRecord, SameBooks
  <2>3. fresh \in RunRecord /\ fresh.leases = {} /\ fresh.status = "Accepted"
        /\ fresh.id = lastRun + 1 /\ fresh.starting = NoRun.starting
        /\ fresh.active = NoRun.active
    <3>1. fresh \in RunRecord
      BY NewRunType
    <3> QED
      BY <3>1 DEF NewRun, NoRun
  <2> HIDE DEF woken, fresh, idle
  <2>4. CASE run.status = "None" /\ StartRun(woken(fresh, candidates))
    <3> DEFINE r == woken(fresh, candidates)
    <3>1. r \in RunRecord /\ SameBooks(r, fresh)
      BY <2>2, <2>3
    <3> HIDE DEF r
    <3>2. StartRun(r) /\ run.status = "None"
      BY <2>4 DEF r
    <3> QED
      BY <2>1, <2>3, <3>1, <3>2, NewRunSettles DEF SameBooks
  <2>5. CASE IsActive(run) /\ Keep(woken(run, idle)) /\ UNCHANGED lastRun
    <3> DEFINE r == woken(run, idle)
    <3>1. r \in RunRecord /\ SameBooks(r, run)
      BY <2>2
    <3> HIDE DEF r
    <3>2. Keep(r)
      BY <2>5 DEF r
    <3>3. Replaces(r)
      BY <2>5, <3>1, <3>2 DEF Replaces, SameBooks, IsActive
    <3> QED
      BY <1>1, <2>1, <2>5, <3>1, <3>3, StopSettles DEF AllSettled, SameBooks, Safe, LeasedRuns
  <2> QED
    BY <2>1, <2>4, <2>5
<1> QED
  BY <1>3, <1>4, <1>5, <1>6, <1>7, <1>8, <1>9, SlotsAssumption DEF Request

\* A loop that takes a turn in hand that has an id, or none that needs one.
LEMMA HoldTurnSettles ==
  ASSUME Safe, NEW s \in Slots, NEW t, HoldTurn(s, t), UNCHANGED calls, UNCHANGED lastRun,
         t.phase \in {"late", "swept", "running", "settling"} => t.turn \in TurnIds
  PROVE  TurnInHand' /\ LeasedRuns'
  BY DEF HoldTurn, TurnInHand, LeasedRuns, Safe, Typed, TypeOK

LEMMA LookSettles == ASSUME Safe, NEW s \in Slots, Look(s) PROVE AllSettled
<1> USE RunRecords
<1>1. turns[s] \in Turn /\ Typed
  BY DEF Safe
<1>2. SlotOwned(run, s, turns[s])
  BY OwnedKept DEF Safe, Owned
<1>3. ASSUME turns[s].phase \in {"idle", "peeked", "noted"}
      PROVE  run.active[s] = NoTurn
             /\ (run.starting[s] # "none" => MayRetryStart /\ run.status = "Cancelling")
  BY <1>2, <1>3 DEF SlotOwned
<1>4. Keep(run) <=> UNCHANGED <<run, ended>>
  BY DEF Keep, CloseOrKeep
<1>5. ASSUME turns[s].phase \in {"idle", "peeked", "noted"}, NEW t \in Turn,
             HoldTurn(s, t), UNCHANGED <<lastRun, calls>>,
             t.phase \in {"idle", "peeked", "noted"},
             Keep(run) \/ MaybeComplete(run)
      PROVE  AllSettled
  <2>1. SlotOwned(run, s, t)
    BY <1>3, <1>5 DEF SlotOwned
  <2>2. Replaces(run)
    BY <1>5 DEF Replaces
  <2> QED
    BY <1>5, <2>1, <2>2, TurnSettles, HoldTurnSettles DEF AllSettled
<1>6. CASE PeekWake(s)
  <2> DEFINE front == IF IsActive(run) /\ run.pending[s] # <<>>
                      THEN Head(run.pending[s]) ELSE NoWake
             t == [NoTurnInHand EXCEPT !.phase = "peeked", !.seen = front]
  <2>1. front \in Wake \cup {NoWake}
    BY <1>1, FrontWakeType DEF Typed
  <2>2. t \in Turn /\ t.phase = "peeked"
    BY <2>1, NothingInHandType DEF Turn, TurnPhase
  <2>3. HoldTurn(s, t) /\ UNCHANGED <<run, lastRun, ended, calls, stops>> /\ turns[s].phase = "idle"
    BY <1>6 DEF PeekWake
  <2> QED
    BY <1>4, <1>5, <2>2, <2>3
<1>7. CASE NoteRun(s)
  <2> DEFINE t == [turns[s] EXCEPT !.phase = "noted", !.run = IF IsActive(run) THEN run.id ELSE 0]
  <2>1. run.id \in Nat
    BY DEF RunRecord
  <2>2. t \in Turn /\ t.phase = "noted"
    BY <1>1, <2>1 DEF Turn, TurnPhase
  <2>3. HoldTurn(s, t) /\ UNCHANGED <<run, lastRun, ended, calls, stops>> /\ turns[s].phase = "peeked"
    BY <1>7 DEF NoteRun
  <2> QED
    BY <1>4, <1>5, <2>2, <2>3
<1>8. CASE LeaveBacklog(s)
  BY <1>4, <1>5, <1>8, NothingInHandType DEF LeaveBacklog
<1>9. CASE ObserveEmptyWake(s)
  <2> DEFINE popped == IF run.pending[s] = <<>> THEN run ELSE [run EXCEPT !.pending[s] = Tail(@)]
  <2>1. popped \in RunRecord /\ SameBooks(popped, run)
    BY <1>1, FrontWakeType DEF Typed, RunRecord, SameBooks
  <2>2. MaybeComplete(popped) /\ HoldTurn(s, NoTurnInHand) /\ UNCHANGED <<lastRun, calls, stops>>
        /\ turns[s].phase = "noted"
    BY <1>9 DEF ObserveEmptyWake
  <2>3. run.status = "None" => popped = run
    BY DEF Safe, RunShape, NoRun
  <2> HIDE DEF popped
  <2>4. Replaces(popped)
    BY <2>1, <2>2, <2>3 DEF Replaces, SameBooks
  <2>5. SlotOwned(popped, s, NoTurnInHand)
    BY <1>3, <2>1, <2>2 DEF SlotOwned, SameBooks
  <2> QED
    BY <2>1, <2>2, <2>4, <2>5, TurnSettles, HoldTurnSettles, NothingInHandType
    DEF AllSettled, SameBooks
<1>10. CASE ClaimWake(s)
  <2>1. UNCHANGED <<lastRun, calls, stops>> /\ turns[s].phase = "noted"
    BY <1>10 DEF ClaimWake
  <2>2. CASE IsActive(run) /\ run.pending[s] # <<>>
    <3> DEFINE queues == [run.pending EXCEPT ![s] = Tail(@)]
               reserved == [run.starting EXCEPT ![s] = "starting"]
               claimed == [run EXCEPT !.pending = queues, !.starting = reserved]
               t == [turns[s] EXCEPT !.phase = "claimed", !.wake = Head(run.pending[s])]
    <3>1. Keep(claimed) /\ HoldTurn(s, t)
      BY <1>10, <2>2 DEF ClaimWake
    <3>2. queues \in [Slots -> Seq(Wake)]
          /\ reserved \in [Slots -> {"none", "starting", "cancelling"}]
          /\ \A other \in Slots \ {s} : reserved[other] = run.starting[other]
      BY <1>1, <2>2, FrontWakeType DEF Typed, RunRecord
    <3>3. t \in Turn /\ t.phase = "claimed"
      BY <1>1, <2>2, FrontWakeType DEF Typed, Turn, TurnPhase
    <3> HIDE DEF queues, reserved
    <3>4. claimed \in RunRecord /\ claimed.id = run.id /\ claimed.status = run.status
          /\ claimed.leases = run.leases /\ claimed.active = run.active
          /\ claimed.starting = reserved
      BY <3>2 DEF RunRecord
    <3> HIDE DEF claimed, t
    <3>5. Replaces(claimed)
      BY <2>2, <3>1, <3>4 DEF Replaces, IsActive
    <3>6. SlotOwned(claimed, s, t)
      BY <1>3, <2>1, <3>3, <3>4 DEF SlotOwned
    <3> QED
      BY <2>1, <3>1, <3>2, <3>3, <3>4, <3>5, <3>6, TurnSettles, HoldTurnSettles DEF AllSettled
  <2>3. CASE ~(IsActive(run) /\ run.pending[s] # <<>>)
    <3>1. Keep(run) /\ HoldTurn(s, NoTurnInHand)
      BY <1>10, <2>3 DEF ClaimWake
    <3> QED
      BY <1>5, <2>1, <3>1, NothingInHandType
  <2> QED
    BY <2>2, <2>3
<1> QED
  BY <1>6, <1>7, <1>8, <1>9, <1>10 DEF Look

\* Taking a slot's reservation or child away leaves an empty record empty.
LEMMA ReleasedBooks ==
  ASSUME Safe, NEW s \in Slots
  PROVE  LET released == [run EXCEPT !.starting[s] = "none"]
         IN  /\ released \in RunRecord
             /\ released.id = run.id /\ released.status = run.status
             /\ released.leases = run.leases /\ released.active = run.active
             /\ released.starting[s] = "none"
             /\ \A other \in Slots \ {s} : released.starting[other] = run.starting[other]
             /\ run.status = "None" => released = run
<1> USE RunRecords DEF RunRecord
<1> DEFINE released == [run EXCEPT !.starting[s] = "none"]
<1>1. run.status = "None" => run.starting[s] = "none"
  BY DEF Safe, RunShape, NoRun
<1>2. run.status = "None" => released = run
  BY <1>1
<1> QED
  BY <1>2

LEMMA RemovedBooks ==
  ASSUME Safe, NEW s \in Slots
  PROVE  LET removed == [run EXCEPT !.active[s] = NoTurn]
         IN  /\ removed \in RunRecord
             /\ removed.id = run.id /\ removed.status = run.status
             /\ removed.leases = run.leases /\ removed.starting = run.starting
             /\ removed.active[s] = NoTurn
             /\ \A other \in Slots \ {s} : removed.active[other] = run.active[other]
             /\ run.status = "None" => removed = run
<1> USE RunRecords DEF RunRecord
<1> DEFINE removed == [run EXCEPT !.active[s] = NoTurn]
<1>1. run.status = "None" => run.active[s] = NoTurn
  BY DEF Safe, RunShape, NoRun
<1>2. run.status = "None" => removed = run
  BY <1>1
<1> QED
  BY <1>2

\* The ways to replace a record by one with the same status and id.
LEMMA SameStatusReplaces ==
  ASSUME Safe, NEW r \in RunRecord, r.id = run.id, r.status = run.status,
         run.status = "None" => r = run,
         \/ Keep(r) \/ MaybeComplete(r) \/ MaybeCancelled(r)
         \/ run.status # "None" /\ Fail(r)
  PROVE  Replaces(r)
  BY DEF Replaces

LEMMA ExecuteSettles == ASSUME Safe, NEW s \in Slots, Execute(s) PROVE AllSettled
<1> USE RunRecords
<1>1. turns[s] \in Turn /\ Typed
  BY DEF Safe
<1>2. SlotOwned(run, s, turns[s])
  BY OwnedKept DEF Safe, Owned
<1>3. turns[s].phase = "claimed" => run.active[s] = NoTurn
  BY <1>2 DEF SlotOwned
<1> DEFINE released == [run EXCEPT !.starting[s] = "none"]
<1>4. /\ released \in RunRecord
      /\ released.id = run.id /\ released.status = run.status
      /\ released.leases = run.leases /\ released.active = run.active
      /\ released.starting[s] = "none"
      /\ \A other \in Slots \ {s} : released.starting[other] = run.starting[other]
      /\ run.status = "None" => released = run
  BY ReleasedBooks
<1> HIDE DEF released
<1>5. CASE StartFails(s)
  <2> DEFINE t == [turns[s] EXCEPT !.phase = "failed", !.wake = NoWake]
  <2>1. t \in Turn /\ t.phase = "failed"
    BY <1>1 DEF Turn, TurnPhase
  <2>2. /\ HoldTurn(s, t) /\ UNCHANGED <<lastRun, calls, stops>> /\ turns[s].phase = "claimed"
        /\ \/ Keep(run) /\ run.starting[s] = "none"
           \/ run.starting[s] # "none" /\ (MaybeCancelled(released) \/ Fail(released))
    BY <1>5 DEF StartFails, released
  <2> HIDE DEF t
  <2>3. CASE Keep(run) /\ run.starting[s] = "none"
    <3>1. SlotOwned(run, s, t)
      BY <1>3, <2>2, <2>3 DEF SlotOwned
    <3> QED
      BY <2>1, <2>2, <2>3, <3>1, SameStatusReplaces, TurnSettles, HoldTurnSettles DEF AllSettled
  <2>4. CASE run.starting[s] # "none" /\ (MaybeCancelled(released) \/ Fail(released))
    <3>1. SlotOwned(released, s, t)
      BY <1>3, <1>4, <2>2 DEF SlotOwned
    <3>2. run.status # "None"
      BY <2>4 DEF Safe, RunShape, NoRun
    <3>3. Replaces(released)
      BY <1>4, <2>4, <3>2, SameStatusReplaces
    <3> QED
      BY <1>4, <2>1, <2>2, <3>1, <3>3, TurnSettles, HoldTurnSettles DEF AllSettled
  <2> QED
    BY <2>2, <2>3, <2>4
<1>6. CASE RetryStartLater(s)
  <2> DEFINE queues == [run.pending EXCEPT ![s] = <<turns[s].wake>> \o @]
             back == [released EXCEPT !.pending = queues]
  <2>1. /\ HoldTurn(s, NoTurnInHand) /\ UNCHANGED <<lastRun, calls, stops>>
        /\ MayRetryStart /\ turns[s].phase = "claimed"
    BY <1>6 DEF RetryStartLater
  <2>2. turns[s].wake \in Wake
    BY <2>1 DEF Safe, Typed, ClaimedWake
  <2>3. queues \in [Slots -> Seq(Wake)]
    BY <2>2 DEF RunRecord
  <2>4. \/ IsActive(run) /\ Keep(back)
        \/ ~(IsActive(run) /\ run.starting[s] # "none") /\ Keep(run)
    <3>1. [run EXCEPT !.starting[s] = "none", !.pending[s] = <<turns[s].wake>> \o @] = back
      BY DEF released, RunRecord
    <3> HIDE DEF back
    <3> QED
      BY <1>6, <3>1 DEF RetryStartLater
  <2> HIDE DEF queues
  <2>5. back \in RunRecord /\ SameBooks(back, released)
    BY <1>4, <2>3 DEF RunRecord, SameBooks
  <2> HIDE DEF back
  <2>6. CASE IsActive(run) /\ Keep(back)
    <3>1. Replaces(back)
      BY <1>4, <2>5, <2>6, SameStatusReplaces DEF SameBooks, IsActive
    <3>2. SlotOwned(back, s, NoTurnInHand)
      BY <1>3, <1>4, <2>1, <2>5 DEF SlotOwned, SameBooks
    <3> QED
      BY <1>4, <2>1, <2>5, <3>1, <3>2, TurnSettles, HoldTurnSettles, NothingInHandType
      DEF AllSettled, SameBooks
  <2>7. CASE ~(IsActive(run) /\ run.starting[s] # "none") /\ Keep(run)
    <3>1. run.starting[s] # "none" => run.status = "Cancelling"
      BY <2>7 DEF IsActive, Safe, RunShape, NoRun, RunRecord, RunStatus
    <3>2. SlotOwned(run, s, NoTurnInHand)
      BY <1>3, <2>1, <3>1 DEF SlotOwned
    <3> QED
      BY <2>1, <2>7, <3>2, SameStatusReplaces, TurnSettles, HoldTurnSettles, NothingInHandType
      DEF AllSettled
  <2> QED
    BY <2>4, <2>6, <2>7
<1>7. ASSUME NEW t \in TurnIds, StartTurn(s, t) PROVE AllSettled
  <2> DEFINE hand(phase) == [turns[s] EXCEPT !.phase = phase, !.wake = NoWake, !.turn = t]
             begun(status) == [released EXCEPT !.started = TRUE, !.active[s] = t, !.status = status]
             mustCancel == run.status = "Cancelling" \/ run.starting[s] = "cancelling"
             status == IF mustCancel THEN run.status ELSE "Running"
             phase == IF mustCancel THEN "late" ELSE "running"
  <2>1. UNCHANGED <<lastRun, calls, stops>> /\ turns[s].phase = "claimed"
    BY <1>7 DEF StartTurn
  <2>2. \/ run.starting[s] = "none" /\ Keep(run) /\ HoldTurn(s, hand("running"))
        \/ run.starting[s] # "none" /\ Keep(released) /\ HoldTurn(s, hand("running"))
        \/ /\ run.starting[s] # "none" /\ run.id = turns[s].run
           /\ Keep(begun(status)) /\ HoldTurn(s, hand(phase))
    <3>1. \/ run.starting[s] = "none" /\ Keep(run) /\ HoldTurn(s, hand("running"))
          \/ run.starting[s] # "none" /\ Keep(released) /\ HoldTurn(s, hand("running"))
          \/ /\ run.starting[s] # "none" /\ run.id = turns[s].run
             /\ Keep([released EXCEPT !.started = TRUE, !.active[s] = t,
                                      !.status = IF mustCancel THEN @ ELSE "Running"])
             /\ HoldTurn(s, hand(phase))
      BY <1>7 DEF StartTurn, released
    <3>2. [released EXCEPT !.started = TRUE, !.active[s] = t,
                           !.status = IF mustCancel THEN @ ELSE "Running"] = begun(status)
      BY <1>4
    <3> HIDE DEF begun, hand, mustCancel, status, phase
    <3> QED
      BY <3>1, <3>2
  <2>3. ASSUME NEW ph \in {"late", "running"}
        PROVE  hand(ph) \in Turn /\ hand(ph).phase = ph /\ hand(ph).turn = t
               /\ hand(ph).run = turns[s].run
    BY <1>1 DEF Turn, TurnPhase
  <2>4. phase \in {"late", "running"} /\ status \in RunStatus
    BY DEF RunRecord, RunStatus
  <2>5. run.starting[s] # "none" => run.status # "None"
    BY DEF Safe, RunShape, NoRun
  <2> HIDE DEF hand, phase
  <2>6. CASE run.starting[s] = "none" /\ Keep(run) /\ HoldTurn(s, hand("running"))
    <3>1. SlotOwned(run, s, hand("running"))
      BY <1>3, <2>1, <2>6 DEF SlotOwned
    <3> QED
      BY <2>1, <2>3, <2>6, <3>1, SameStatusReplaces, TurnSettles, HoldTurnSettles DEF AllSettled
  <2>7. CASE run.starting[s] # "none" /\ Keep(released) /\ HoldTurn(s, hand("running"))
    <3>1. SlotOwned(released, s, hand("running"))
      BY <1>3, <1>4, <2>1 DEF SlotOwned
    <3>2. Replaces(released)
      BY <1>4, <2>7, SameStatusReplaces
    <3> QED
      BY <1>4, <2>1, <2>3, <2>7, <3>1, <3>2, TurnSettles, HoldTurnSettles DEF AllSettled
  <2>8. CASE /\ run.starting[s] # "none" /\ run.id = turns[s].run
             /\ Keep(begun(status)) /\ HoldTurn(s, hand(phase))
    <3> DEFINE children == [released.active EXCEPT ![s] = t]
    <3>1. children \in [Slots -> TurnIds \cup {NoTurn}] /\ children[s] = t
          /\ \A other \in Slots \ {s} : children[other] = run.active[other]
      BY <1>4 DEF RunRecord
    <3>2. begun(status) = [released EXCEPT !.started = TRUE, !.active = children, !.status = status]
      OBVIOUS
    <3> HIDE DEF children, status
    <3> DEFINE r == [released EXCEPT !.started = TRUE, !.active = children, !.status = status]
    <3>3. r \in RunRecord /\ r.id = run.id /\ r.status = status /\ r.leases = run.leases
          /\ r.active = children /\ r.starting = released.starting
      BY <1>4, <2>4, <3>1 DEF RunRecord
    <3>4. Keep(r)
      BY <2>8, <3>2
    <3> HIDE DEF r, begun
    <3>5. status = run.status \/ (IsActive(run) /\ status = "Running")
      BY <2>5, <2>8 DEF status, IsActive, RunRecord, RunStatus
    <3>6. Replaces(r)
      BY <2>5, <2>8, <3>3, <3>4, <3>5 DEF Replaces
    <3>7. SlotOwned(r, s, hand(phase))
      BY <1>4, <2>3, <2>4, <2>8, <3>1, <3>3 DEF SlotOwned
    <3> QED
      BY <1>4, <2>1, <2>3, <2>4, <2>8, <3>1, <3>3, <3>6, <3>7, TurnSettles, HoldTurnSettles
      DEF AllSettled
  <2> QED
    BY <2>2, <2>6, <2>7, <2>8
<1>8. CASE CancelLateStart(s)
  <2> DEFINE removed == [run EXCEPT !.active[s] = NoTurn]
             t == [turns[s] EXCEPT !.phase = "swept"]
  <2>1. /\ removed \in RunRecord /\ removed.id = run.id /\ removed.status = run.status
        /\ removed.leases = run.leases /\ removed.starting = run.starting
        /\ removed.active[s] = NoTurn
        /\ \A other \in Slots \ {s} : removed.active[other] = run.active[other]
        /\ run.status = "None" => removed = run
    BY RemovedBooks
  <2>2. t \in Turn /\ t.phase = "swept" /\ t.turn = turns[s].turn
    BY <1>1 DEF Turn, TurnPhase
  <2>3. /\ Keep(removed) \/ MaybeCancelled(removed)
        /\ HoldTurn(s, t) /\ turns[s].phase = "late"
        /\ UNCHANGED <<lastRun, calls, stops>>
    BY <1>8 DEF CancelLateStart, RemoveChild
  <2> HIDE DEF removed, t
  <2>4. Replaces(removed)
    BY <2>1, <2>3, SameStatusReplaces
  <2>5. SlotOwned(removed, s, t)
    BY <1>2, <2>1, <2>3 DEF SlotOwned
  <2>6. t.turn \in TurnIds
    BY <2>2, <2>3 DEF Safe, TurnInHand
  <2> QED
    BY <2>1, <2>2, <2>3, <2>4, <2>5, <2>6, TurnSettles, HoldTurnSettles DEF AllSettled
<1>9. CASE FinishLateStart(s)
  <2> DEFINE t == [turns[s] EXCEPT !.phase = "running"]
  <2>1. t \in Turn /\ t.phase = "running" /\ t.turn = turns[s].turn /\ t.run = turns[s].run
    BY <1>1 DEF Turn, TurnPhase
  <2>2. MaybeCancelled(run) /\ HoldTurn(s, t) /\ turns[s].phase = "swept"
        /\ UNCHANGED <<lastRun, calls, stops>>
    BY <1>9 DEF FinishLateStart
  <2> HIDE DEF t
  <2>3. SlotOwned(run, s, t)
    BY <1>2, <2>1, <2>2 DEF SlotOwned
  <2>4. t.turn \in TurnIds
    BY <2>1, <2>2 DEF Safe, TurnInHand
  <2> QED
    BY <2>1, <2>2, <2>3, <2>4, SameStatusReplaces, TurnSettles, HoldTurnSettles DEF AllSettled
<1>10. CASE FailStarted(s)
  <2> DEFINE t == [turns[s] EXCEPT !.phase = "failed", !.turn = NoTurn]
             removed == [run EXCEPT !.active[s] = NoTurn]
  <2>1. t \in Turn /\ t.phase = "failed"
    BY <1>1 DEF Turn, TurnPhase
  <2>2. /\ HoldTurn(s, t) /\ turns[s].phase = "running" /\ UNCHANGED <<lastRun, calls, stops>>
        /\ \/ run.status = "None" /\ Keep(run)
           \/ run.status # "None" /\ Fail(run)
    BY <1>10 DEF FailStarted
  <2>3. CASE run.status = "None" /\ Keep(run)
    <3>1. run.active[s] = NoTurn /\ run.starting[s] = "none"
      BY <2>3 DEF Safe, RunShape, NoRun
    <3>2. SlotOwned(run, s, t)
      BY <3>1 DEF SlotOwned
    <3> HIDE DEF t
    <3> QED
      BY <2>1, <2>2, <2>3, <3>2, SameStatusReplaces, TurnSettles, HoldTurnSettles DEF AllSettled
  <2>4. CASE run.status # "None" /\ Fail(run)
    <3>1. /\ removed \in RunRecord /\ removed.id = run.id /\ removed.status = run.status
          /\ removed.leases = run.leases /\ removed.starting = run.starting
          /\ removed.active[s] = NoTurn
          /\ \A other \in Slots \ {s} : removed.active[other] = run.active[other]
      BY RemovedBooks
    <3>2. Fail(removed)
      BY <2>4, <3>1 DEF Fail, CloseOrKeep
    <3> HIDE DEF removed, t
    <3>3. Replaces(removed)
      BY <2>4, <3>1, <3>2, SameStatusReplaces
    <3>4. SlotOwned(removed, s, t)
      BY <1>2, <2>2, <3>1 DEF SlotOwned
    <3> QED
      BY <2>1, <2>2, <3>1, <3>3, <3>4, TurnSettles, HoldTurnSettles DEF AllSettled
  <2> QED
    BY <2>2, <2>3, <2>4
<1> QED
  BY <1>5, <1>6, <1>7, <1>8, <1>9, <1>10 DEF Execute

\* After a turn the loop is a requester itself, with the lease for the leader.
LEMMA WakeLeadSettles ==
  ASSUME Safe, NEW r \in RunRecord, Keep(r), UNCHANGED lastRun, SameBooks([r EXCEPT !.leases = run.leases], run),
         run.status = "None" => r = run,
         NEW s \in Slots, NEW t \in Turn, HoldTurn(s, t), SlotOwned(run, s, t),
         t.phase \in {"late", "swept", "running", "settling"} => t.turn \in TurnIds,
         NEW l \in Lease,
         \/ IsActive(run) /\ l.run = run.id /\ calls' = calls \cup {l} /\ r.leases = run.leases \cup {l}
         \/ calls' = calls \ {l} /\ r.leases = run.leases \ {l}
         \/ calls' = calls \ {l} /\ r.leases = run.leases /\ ~(IsActive(run) /\ l \in run.leases)
  PROVE  AllSettled
<1> USE RunRecords
<1>1. r.id = run.id /\ r.status = run.status /\ r.starting = run.starting /\ r.active = run.active
  BY DEF SameBooks, RunRecord
<1>2. Owned(r, calls', turns')
  <2>1. Owned(run, calls, turns)
    BY OwnedKept DEF Safe
  <2>2. \A other \in Slots : SlotOwned(r, other, turns'[other])
    BY <1>1, <2>1 DEF Owned, SlotOwned, HoldTurn
  <2>3. IsActive(r) => r.leases \subseteq calls'
    BY <1>1, <2>1 DEF Owned, IsActive
  <2> QED
    BY <2>2, <2>3 DEF Owned
<1>3. Settled /\ LeasedRuns'
  <2>1. IsActive(run) => run.status # "None"
    BY DEF IsActive
  <2> QED
    BY <1>1, <1>2, <2>1, LeaseSettles
<1>4. TurnInHand'
  BY DEF Safe, TurnInHand, HoldTurn
<1> QED
  BY <1>3, <1>4 DEF AllSettled

LEMMA FinalizeSettles == ASSUME Safe, NEW s \in Slots, Finalize(s) PROVE AllSettled
<1> USE RunRecords
<1>1. turns[s] \in Turn /\ Typed
  BY DEF Safe
<1>2. SlotOwned(run, s, turns[s])
  BY OwnedKept DEF Safe, Owned
<1> DEFINE after == [turns[s] EXCEPT !.phase = AfterWaking(turns[s])]
<1>3. after \in Turn /\ after.phase \in {"releasing", "settling"} /\ after.turn = turns[s].turn
      /\ after.run = turns[s].run /\ (after.phase = "releasing" <=> turns[s].turn = NoTurn)
  BY <1>1 DEF Turn, TurnPhase, AfterWaking
<1> HIDE DEF after
<1>4. ASSUME turns[s].phase \in {"running", "failed", "waking"} PROVE SlotOwned(run, s, after)
  BY <1>2, <1>3, <1>4 DEF SlotOwned
<1>5. after.phase = "settling" => after.turn \in TurnIds
  BY <1>1, <1>3 DEF Turn
<1>6. CASE AcquireWakeLead(s)
  <2> DEFINE gated == GateWake(run, Lead, "IdleNotification")
             lease == [id |-> s, run |-> run.id, slot |-> Lead, source |-> "IdleNotification"]
             r == [gated EXCEPT !.leases = @ \cup {lease}]
             t == [turns[s] EXCEPT !.phase = "waking"]
  <2>1. "IdleNotification" \in WakeSource
    BY DEF WakeSource, BackgroundSource
  <2>2. lease \in Lease /\ lease.run = run.id
    BY <2>1, SlotsAssumption DEF Lease, RunRecord
  <2>3. gated \in RunRecord /\ SameBooks(gated, run)
    BY <2>1, SlotsAssumption, GateWakeType, QueueBooks
  <2>4. t \in Turn /\ t.phase = "waking" /\ t.turn = turns[s].turn /\ t.run = turns[s].run
    BY <1>1 DEF Turn, TurnPhase
  <2>5. /\ turns[s].phase \in {"running", "failed"} /\ IsActive(run) /\ UNCHANGED <<lastRun, stops>>
        /\ \/ Keep(r) /\ calls' = calls \cup {lease} /\ HoldTurn(s, t)
           \/ Keep(gated) /\ HoldTurn(s, after) /\ UNCHANGED calls
    BY <1>6 DEF AcquireWakeLead, after
  <2> HIDE DEF gated, lease, t
  <2>6. r \in RunRecord /\ SameBooks([r EXCEPT !.leases = run.leases], run)
        /\ r.leases = run.leases \cup {lease}
    BY <2>2, <2>3 DEF RunRecord, SameBooks
  <2> HIDE DEF r
  <2>7. run.status # "None"
    BY <2>5 DEF IsActive
  <2>8. CASE Keep(r) /\ calls' = calls \cup {lease} /\ HoldTurn(s, t)
    <3>1. SlotOwned(run, s, t)
      BY <1>2, <2>4, <2>5 DEF SlotOwned
    <3> QED
      BY <2>2, <2>4, <2>5, <2>6, <2>7, <2>8, <3>1, WakeLeadSettles
  <2>9. CASE Keep(gated) /\ HoldTurn(s, after) /\ UNCHANGED calls
    <3>1. SlotOwned(gated, s, after)
      BY <1>4, <2>3, <2>5 DEF SlotOwned, SameBooks
    <3>2. Replaces(gated)
      BY <2>3, <2>7, <2>9, SameStatusReplaces DEF SameBooks
    <3> QED
      BY <1>3, <1>5, <2>3, <2>5, <2>9, <3>1, <3>2, TurnSettles, HoldTurnSettles
      DEF AllSettled, SameBooks
  <2> QED
    BY <2>5, <2>8, <2>9
<1>7. ASSUME NEW l \in calls, CommitWakeLead(s, l) PROVE AllSettled
  <2> DEFINE pushed == PushPending(run, l.slot, l.source, NoMsg)
             r == [pushed EXCEPT !.leases = @ \ {l}]
  <2>1. l \in Lease /\ l.slot \in Slots /\ l.source \in WakeSource
    BY DEF Lease
  <2>2. pushed \in RunRecord /\ SameBooks(pushed, run)
    BY <2>1, PushPendingType, QueueBooks
  <2>3. /\ turns[s].phase = "waking" /\ calls' = calls \ {l} /\ UNCHANGED <<lastRun, stops>>
        /\ HoldTurn(s, after)
        /\ \/ Keep(r) /\ IsActive(run)
           \/ Keep(run) /\ ~(IsActive(run) /\ l \in run.leases)
    BY <1>7 DEF CommitWakeLead, after
  <2> HIDE DEF pushed
  <2>4. r \in RunRecord /\ SameBooks([r EXCEPT !.leases = run.leases], run)
        /\ r.leases = run.leases \ {l}
    BY <2>1, <2>2 DEF RunRecord, SameBooks
  <2> HIDE DEF r
  <2>5. SlotOwned(run, s, after)
    BY <1>4, <2>3
  <2>6. CASE Keep(r) /\ IsActive(run)
    <3>1. run.status # "None"
      BY <2>6 DEF IsActive
    <3> QED
      BY <1>3, <1>5, <2>1, <2>3, <2>4, <2>5, <2>6, <3>1, WakeLeadSettles
  <2>7. CASE Keep(run) /\ ~(IsActive(run) /\ l \in run.leases)
    <3>1. SameBooks([run EXCEPT !.leases = run.leases], run)
      BY DEF SameBooks, RunRecord
    <3> QED
      BY <1>3, <1>5, <2>1, <2>3, <2>5, <2>7, <3>1, WakeLeadSettles
  <2> QED
    BY <2>3, <2>6, <2>7
<1>8. ASSUME NEW ok \in BOOLEAN, CompleteChild(s, ok) PROVE AllSettled
  <2> DEFINE removed == [run EXCEPT !.active[s] = NoTurn]
             t == [turns[s] EXCEPT !.phase = "completing", !.turn = NoTurn]
  <2>1. /\ removed \in RunRecord /\ removed.id = run.id /\ removed.status = run.status
        /\ removed.leases = run.leases /\ removed.starting = run.starting
        /\ removed.active[s] = NoTurn
        /\ \A other \in Slots \ {s} : removed.active[other] = run.active[other]
        /\ run.status = "None" => removed = run
    BY RemovedBooks
  <2>2. t \in Turn /\ t.phase = "completing"
    BY <1>1 DEF Turn, TurnPhase
  <2>3. /\ HoldTurn(s, t) /\ UNCHANGED <<lastRun, calls, stops>>
        /\ turns[s].phase \in {"running", "settling"}
        /\ \/ run.active[s] # turns[s].turn /\ Keep(run)
           \/ run.active[s] = turns[s].turn /\ (MaybeComplete(removed) \/ Fail(removed))
    BY <1>8 DEF CompleteChild
  <2>4. turns[s].turn \in TurnIds
    BY <2>3 DEF Safe, TurnInHand
  <2> HIDE DEF removed, t
  <2>5. CASE run.active[s] # turns[s].turn /\ Keep(run)
    <3>1. SlotOwned(run, s, t)
      BY <1>2, <2>3, <2>5 DEF SlotOwned
    <3> QED
      BY <2>2, <2>3, <2>5, <3>1, SameStatusReplaces, TurnSettles, HoldTurnSettles DEF AllSettled
  <2>6. CASE run.active[s] = turns[s].turn /\ (MaybeComplete(removed) \/ Fail(removed))
    <3>1. run.status # "None"
      BY <2>4, <2>6, IdsAssumption DEF Safe, RunShape, NoRun
    <3>2. Replaces(removed)
      BY <2>1, <2>6, <3>1, SameStatusReplaces
    <3>3. SlotOwned(removed, s, t)
      BY <1>2, <2>1, <2>3 DEF SlotOwned
    <3> QED
      BY <2>1, <2>2, <2>3, <3>2, <3>3, TurnSettles, HoldTurnSettles DEF AllSettled
  <2> QED
    BY <2>3, <2>5, <2>6
<1>9. CASE MaybeCompleteRun(s)
  <2> DEFINE t == [turns[s] EXCEPT !.phase = "releasing"]
  <2>1. t \in Turn /\ t.phase = "releasing"
    BY <1>1 DEF Turn, TurnPhase
  <2>2. MaybeComplete(run) /\ HoldTurn(s, t) /\ turns[s].phase = "completing"
        /\ UNCHANGED <<lastRun, calls, stops>>
    BY <1>9 DEF MaybeCompleteRun
  <2> HIDE DEF t
  <2>3. SlotOwned(run, s, t)
    BY <1>2, <2>2 DEF SlotOwned
  <2> QED
    BY <2>1, <2>2, <2>3, SameStatusReplaces, TurnSettles, HoldTurnSettles DEF AllSettled
<1>10. CASE ReleaseSuppressed(s)
  <2> DEFINE pushed == PushPending(run, s, run.gate[s].held, NoMsg)
             r == [pushed EXCEPT !.gate[s] = NoEntry]
  <2>1. /\ HoldTurn(s, NoTurnInHand) /\ turns[s].phase \in {"releasing", "failed"}
        /\ UNCHANGED <<lastRun, calls, stops>>
        /\ \/ IsActive(run) /\ Releasable(run.gate[s]) /\ Keep(r)
           \/ Keep(run)
    BY <1>10 DEF ReleaseSuppressed
  <2>2. CASE IsActive(run) /\ Releasable(run.gate[s]) /\ Keep(r)
    <3>1. run.gate[s].held \in WakeSource
      BY <2>2 DEF RunRecord, GateEntry, Releasable
    <3>2. pushed \in RunRecord /\ SameBooks(pushed, run)
      BY <3>1, PushPendingType, QueueBooks
    <3>3. NoEntry \in GateEntry
      BY DEF NoEntry, GateEntry, GateMode
    <3> HIDE DEF pushed
    <3>4. r \in RunRecord /\ SameBooks(r, run)
      BY <3>2, <3>3 DEF RunRecord, SameBooks
    <3> HIDE DEF r
    <3>5. Replaces(r)
      BY <2>2, <3>4, SameStatusReplaces DEF SameBooks, IsActive
    <3>6. SlotOwned(r, s, NoTurnInHand)
      BY <1>2, <2>1, <3>4 DEF SlotOwned, SameBooks
    <3> QED
      BY <2>1, <3>4, <3>5, <3>6, TurnSettles, HoldTurnSettles, NothingInHandType
      DEF AllSettled, SameBooks
  <2>3. CASE Keep(run)
    <3>1. SlotOwned(run, s, NoTurnInHand)
      BY <1>2, <2>1 DEF SlotOwned
    <3> QED
      BY <2>1, <2>3, <3>1, SameStatusReplaces, TurnSettles, HoldTurnSettles, NothingInHandType
      DEF AllSettled
  <2> QED
    BY <2>1, <2>2, <2>3
<1> QED
  BY <1>6, <1>7, <1>8, <1>9, <1>10 DEF Finalize

LEMMA StopLeavesTurns == ASSUME Safe, UNCHANGED <<lastRun, calls, turns>>
                         PROVE  TurnInHand' /\ LeasedRuns'
  BY DEF Safe, TurnInHand, LeasedRuns

\* A stop request that leaves the record alone, or may find the run finished.
LEMMA LookingSettles ==
  ASSUME Safe, UNCHANGED <<lastRun, calls, turns>>,
         Keep(run) \/ MaybeComplete(run) \/ MaybeCancelled(run)
  PROVE  AllSettled
<1>1. Replaces(run)
  BY RunRecords, SameStatusReplaces
<1> QED
  BY <1>1, RunRecords, StopSettles, StopLeavesTurns DEF AllSettled

LEMMA RemoveChildSettles ==
  ASSUME Safe, UNCHANGED <<lastRun, calls, turns>>, NEW s \in Slots, RemoveChild(s)
  PROVE  AllSettled
<1> DEFINE removed == [run EXCEPT !.active[s] = NoTurn]
<1>1. /\ removed \in RunRecord /\ removed.id = run.id /\ removed.status = run.status
      /\ removed.leases = run.leases /\ removed.starting = run.starting
      /\ removed.active[s] = NoTurn
      /\ \A other \in Slots \ {s} : removed.active[other] = run.active[other]
      /\ run.status = "None" => removed = run
  BY RemovedBooks
<1>2. Keep(removed) \/ MaybeCancelled(removed)
  BY DEF RemoveChild
<1> HIDE DEF removed
<1>3. Replaces(removed)
  BY <1>1, <1>2, SameStatusReplaces
<1> QED
  BY <1>1, <1>3, StopSettles, StopLeavesTurns DEF AllSettled

LEMMA UnchangedKeeps == UNCHANGED <<run, ended>> => Keep(run)
  BY DEF Keep, CloseOrKeep

LEMMA CancelRunSettles == ASSUME Safe, NEW p \in Stoppers, CancelRun(p) PROVE AllSettled
<1> USE RunRecords
<1>1. CASE CheckCancel(p) \/ ListChildren(p) \/ FinishSweep(p)
  BY <1>1, LookingSettles, UnchangedKeeps DEF CheckCancel, ListChildren, FinishSweep
<1>2. CASE BeginCancel(p)
  <2> DEFINE reserved == [s \in Slots |-> IF run.starting[s] = "none" THEN "none" ELSE "cancelling"]
             r == [run EXCEPT !.status = "Cancelling",
                              !.pending = [s \in Slots |-> <<>>],
                              !.gate = [s \in Slots |-> NoEntry],
                              !.starting = reserved]
  <2>1. reserved \in [Slots -> {"none", "starting", "cancelling"}]
        /\ [s \in Slots |-> NoEntry] \in [Slots -> GateEntry]
        /\ [s \in Slots |-> <<>>] \in [Slots -> Seq(Wake)]
        /\ \A s \in Slots : reserved[s] # "none" => run.starting[s] # "none"
    BY DEF NoEntry, GateEntry, GateMode
  <2>2. /\ (IsActive(run) /\ Keep(r)) \/ Keep(run)
        /\ UNCHANGED <<lastRun, calls, turns>>
    BY <1>2 DEF BeginCancel
  <2> HIDE DEF reserved
  <2>3. r \in RunRecord /\ r.id = run.id /\ r.status = "Cancelling" /\ r.leases = run.leases
        /\ r.active = run.active /\ r.starting = reserved
    BY <2>1 DEF RunRecord, RunStatus
  <2> HIDE DEF r
  <2>4. CASE IsActive(run) /\ Keep(r)
    <3>1. Replaces(r)
      BY <2>3, <2>4 DEF Replaces, IsActive
    <3> QED
      BY <2>1, <2>2, <2>3, <3>1, StopSettles, StopLeavesTurns DEF AllSettled
  <2> QED
    BY <2>2, <2>4, LookingSettles
<1>3. ASSUME NEW c \in stops[p].todo, SweepChild(p, c) PROVE AllSettled
  <2>1. c[1] \in Slots
    BY DEF Safe, Typed, TypeOK, Stop
  <2> QED
    BY <1>3, <2>1, RemoveChildSettles DEF SweepChild
<1> QED
  BY <1>1, <1>2, <1>3 DEF CancelRun

LEMMA CancelChildSettles == ASSUME Safe, NEW p \in Stoppers, CancelChild(p) PROVE AllSettled
<1> USE RunRecords
<1>1. stops[p].slot \in Slots
  BY DEF Safe, Typed, TypeOK, Stop
<1>2. ASSUME NEW s \in Slots, BeginCancelChild(p, s) PROVE AllSettled
  <2> DEFINE r == [run EXCEPT !.starting[s] = "cancelling"]
  <2>1. /\ Keep(run) \/ (run.starting[s] # "none" /\ Keep(r))
        /\ IsActive(run) /\ UNCHANGED <<lastRun, calls, turns>>
    BY <1>2 DEF BeginCancelChild
  <2>2. r \in RunRecord /\ r.id = run.id /\ r.status = run.status /\ r.leases = run.leases
        /\ r.active = run.active
        /\ \A other \in Slots \ {s} : r.starting[other] = run.starting[other]
    BY DEF RunRecord
  <2> HIDE DEF r
  <2>3. CASE run.starting[s] # "none" /\ Keep(r)
    <3>1. Replaces(r)
      BY <2>1, <2>2, <2>3, SameStatusReplaces DEF IsActive
    <3> QED
      BY <2>1, <2>2, <2>3, <3>1, StopSettles, StopLeavesTurns DEF AllSettled
  <2> QED
    BY <2>1, <2>3, LookingSettles
<1>3. CASE FinishCancelChild(p)
  BY <1>1, <1>3, RemoveChildSettles DEF FinishCancelChild
<1>4. CASE WriteNotice(p) \/ FinishLead(p) \/ FinishStarting(p)
  BY <1>4, LookingSettles, UnchangedKeeps DEF WriteNotice, FinishLead, FinishStarting
<1>5. CASE NotifyLead(p)
  <2> DEFINE r == GateWake(run, Lead, "InterruptedNotification")
  <2>1. "InterruptedNotification" \in WakeSource
    BY DEF WakeSource, BackgroundSource
  <2>2. r \in RunRecord /\ SameBooks(r, run)
    BY <2>1, SlotsAssumption, GateWakeType, QueueBooks
  <2>3. /\ (IsActive(run) /\ Keep(r)) \/ Keep(run)
        /\ UNCHANGED <<lastRun, calls, turns>>
    BY <1>5 DEF NotifyLead
  <2> HIDE DEF r
  <2>4. CASE IsActive(run) /\ Keep(r)
    <3>1. Replaces(r)
      BY <2>2, <2>4, SameStatusReplaces DEF SameBooks, IsActive
    <3> QED
      BY <2>2, <2>3, <3>1, StopSettles, StopLeavesTurns DEF AllSettled, SameBooks
  <2> QED
    BY <2>3, <2>4, LookingSettles
<1> QED
  BY <1>2, <1>3, <1>4, <1>5 DEF CancelChild

LEMMA PauseSlotSettles == ASSUME Safe, NEW p \in Stoppers, PauseSlot(p) PROVE AllSettled
<1> USE RunRecords
<1> DEFINE s == stops[p].slot
           quiet == PausePending(run, s)
<1>1. s \in Slots
  BY DEF Safe, Typed, TypeOK, Stop
<1>2. quiet \in RunRecord /\ SameBooks(quiet, run)
  BY <1>1, PausePendingType, PauseBooks
<1>3. ASSUME NEW target \in Slots, CheckPause(p, target) PROVE AllSettled
  BY <1>3, LookingSettles, UnchangedKeeps DEF CheckPause
<1>4. CASE BeginPause(p)
  <2> DEFINE r == [quiet EXCEPT !.starting[s] = "none"]
  <2>1. /\ Keep(run) \/ (IsActive(run) /\ Keep(r))
        /\ UNCHANGED <<lastRun, calls, turns>>
    BY <1>4 DEF BeginPause
  <2> HIDE DEF quiet, s
  <2>2. r \in RunRecord /\ r.id = run.id /\ r.status = run.status /\ r.leases = run.leases
        /\ r.active = run.active
        /\ \A other \in Slots : r.starting[other] # "none" => run.starting[other] # "none"
    BY <1>1, <1>2 DEF RunRecord, SameBooks
  <2> HIDE DEF r
  <2>3. CASE IsActive(run) /\ Keep(r)
    <3>1. Replaces(r)
      BY <2>2, <2>3, SameStatusReplaces DEF IsActive
    <3> QED
      BY <2>1, <2>2, <3>1, StopSettles, StopLeavesTurns DEF AllSettled
  <2> QED
    BY <2>1, <2>3, LookingSettles
<1>5. CASE FinishPause(p)
  <2> DEFINE r == [quiet EXCEPT !.active[s] = NoTurn]
  <2>1. /\ Keep(run) \/ (run.status # "None" /\ Keep(r))
        /\ UNCHANGED <<lastRun, calls, turns>>
    BY <1>5 DEF FinishPause
  <2> HIDE DEF quiet, s
  <2>2. r \in RunRecord /\ r.id = run.id /\ r.status = run.status /\ r.leases = run.leases
        /\ r.starting = run.starting
        /\ \A other \in Slots : r.active[other] \in {NoTurn, run.active[other]}
    BY <1>1, <1>2 DEF RunRecord, SameBooks
  <2> HIDE DEF r
  <2>3. CASE run.status # "None" /\ Keep(r)
    <3>1. Replaces(r)
      BY <2>2, <2>3, SameStatusReplaces
    <3> QED
      BY <2>1, <2>2, <3>1, StopSettles, StopLeavesTurns DEF AllSettled
  <2> QED
    BY <2>1, <2>3, LookingSettles
<1> QED
  BY <1>3, <1>4, <1>5 DEF PauseSlot

LEMMA EndStopSettles == ASSUME Safe, NEW p \in Stoppers, EndStop(p) PROVE AllSettled
BY RunRecords, LookingSettles, UnchangedKeeps DEF EndStop

-----------------------------------------------------------------------------
(* The invariant.                                                          *)

LEMMA InitSafe == Init => Safe
<1> SUFFICES ASSUME Init PROVE Safe
  OBVIOUS
<1>1. Typed
  BY InitTyped
<1>2. run = NoRun /\ lastRun = 0 /\ calls = {} /\ turns = [s \in Slots |-> NoTurnInHand]
  BY DEF Init
<1>3. NoRun.status = "None" /\ NoRun.leases = {}
      /\ \A s \in Slots : NoRun.starting[s] = "none" /\ NoRun.active[s] = NoTurn
  BY DEF NoRun
<1>4. RunShape
  BY <1>2, <1>3 DEF RunShape
<1>5. TurnInHand
  BY <1>2, NothingInHandType DEF TurnInHand
<1>6. WorkOwned
  BY <1>2, <1>3 DEF WorkOwned
<1>7. LeasedRuns /\ LeaseKeepsRunOpen
  BY <1>2 DEF LeasedRuns, LeaseKeepsRunOpen
<1> QED
  BY <1>1, <1>4, <1>5, <1>6, <1>7 DEF Safe

LEMMA NextSafe == ASSUME Safe, [Next]_vars PROVE Safe' /\ RunMoves
<1>1. Typed'
  BY NextTyped DEF Safe
<1>2. CASE Request
  BY <1>1, <1>2, RequestSettles DEF AllSettled, Settled, Safe
<1>3. ASSUME NEW s \in Loops, Look(s) \/ Execute(s) \/ Finalize(s) PROVE Safe' /\ RunMoves
  <2>1. AllSettled
    BY <1>3, SlotsAssumption, LookSettles, ExecuteSettles, FinalizeSettles
  <2> QED
    BY <1>1, <2>1 DEF AllSettled, Settled, Safe
<1>4. ASSUME NEW p \in Stoppers, CancelRun(p) \/ CancelChild(p) \/ PauseSlot(p) \/ EndStop(p)
      PROVE Safe' /\ RunMoves
  <2>1. AllSettled
    BY <1>4, CancelRunSettles, CancelChildSettles, PauseSlotSettles, EndStopSettles
  <2> QED
    BY <1>1, <2>1 DEF AllSettled, Settled, Safe
<1>5. CASE UNCHANGED vars
  <2>1. AllSettled
    BY <1>5, LookingSettles, UnchangedKeeps DEF vars
  <2> QED
    BY <1>1, <2>1 DEF AllSettled, Settled, Safe
<1> QED
  BY <1>2, <1>3, <1>4, <1>5 DEF Next

\* Whatever the record of a live run waits for has an owner that will give it
\* back (WorkOwned, about team_run.rs:1772).
THEOREM WorkIsOwned == Spec => []WorkOwned
<1>1. Init => Safe
  BY InitSafe
<1>2. Safe /\ [Next]_vars => Safe'
  BY NextSafe
<1>3. Safe => WorkOwned
  BY DEF Safe
<1> QED
  BY <1>1, <1>2, <1>3, PTL DEF Spec

\* A caller that holds a lease of a run keeps it from completing
\* (LeaseKeepsRunOpen, about team_run.rs:732 and 1772).
THEOREM LeaseKeepsOpen == Spec => []LeaseKeepsRunOpen
<1>1. Init => Safe
  BY InitSafe
<1>2. Safe /\ [Next]_vars => Safe'
  BY NextSafe
<1>3. Safe => LeaseKeepsRunOpen
  BY DEF Safe
<1> QED
  BY <1>1, <1>2, <1>3, PTL DEF Spec

-----------------------------------------------------------------------------
(* The refinement.                                                         *)

LEMMA InitMaps == Init => Lifecycle!Init
<1> SUFFICES ASSUME Init PROVE Lifecycle!Init
  OBVIOUS
<1> QED
  BY DEF Init, Lifecycle!Init

LEMMA StepMaps == ASSUME Safe, RunMoves, Safe' PROVE [Lifecycle!Next]_(Lifecycle!lifecycle)
<1> DEFINE phase == [i \in 1..lastRun |-> IF ended[i] = "open" THEN run.status ELSE ended[i]]
<1>1. lastRun \in Nat /\ ended \in [1..lastRun -> Outcome] /\ run.status \in RunStatus
  BY DEF Safe, Typed, TypeOK, RunRecord
<1>2. CASE Stays
  <2>1. CASE run'.status = run.status
    <3>1. phase' = phase /\ lastRun' = lastRun
      BY <1>2, <2>1 DEF Stays
    <3> QED
      BY <3>1 DEF Lifecycle!lifecycle
  <2>2. CASE IsActive(run) /\ run'.status \in {"Running", "Cancelling"} /\ run'.status # run.status
    <3>1. run.id \in 1..lastRun /\ \A i \in 1..lastRun : ended[i] = "open" <=> i = run.id
      BY <2>2 DEF Safe, RunShape, IsActive
    <3>2. phase' = [phase EXCEPT ![run.id] = run'.status] /\ phase[run.id] = run.status
      BY <1>2, <3>1 DEF Stays
    <3>3. \/ run.status = "Accepted" /\ run'.status = "Running"
          \/ run.status \in {"Accepted", "Running"} /\ run'.status = "Cancelling"
      BY <2>2 DEF IsActive
    <3> HIDE DEF phase
    <3>4. \/ Lifecycle!Move(run.id, {"Accepted"}, "Running")
          \/ Lifecycle!Move(run.id, Lifecycle!Live, "Cancelling")
      BY <1>2, <3>2, <3>3 DEF Lifecycle!Move, Lifecycle!Live, Stays, phase
    <3> QED
      BY <3>1, <3>4 DEF Lifecycle!Next
  <2> QED
    BY <1>2, <2>1, <2>2 DEF Stays
<1>3. CASE Starts
  <2>1. \A i \in 1..lastRun : phase[i] \in Lifecycle!Terminal
    BY <1>1, <1>3 DEF Starts, Safe, RunShape, Outcome, Lifecycle!Terminal
  <2>2. phase' = [i \in 1..(lastRun + 1) |-> IF i <= lastRun THEN phase[i] ELSE "Accepted"]
    <3>1. \A i \in 1..lastRun : ended[i] # "open"
      BY <1>3 DEF Starts, Safe, RunShape
    <3> QED
      BY <1>1, <1>3, <3>1 DEF Starts
  <2>3. lastRun' = lastRun + 1
    BY <1>3 DEF Starts
  <2>4. Lifecycle!Accept
    BY <2>1, <2>2, <2>3 DEF Lifecycle!Accept
  <2> QED
    BY <2>4 DEF Lifecycle!Next
<1>4. ASSUME NEW outcome \in Outcome, Closes(outcome)
      PROVE  [Lifecycle!Next]_(Lifecycle!lifecycle)
  <2>1. run.id \in 1..lastRun /\ \A i \in 1..lastRun : ended[i] = "open" <=> i = run.id
    BY <1>4 DEF Safe, RunShape, Closes
  <2>2. outcome # "open" /\ run.status \in {"Accepted", "Running", "Cancelling"}
    BY <1>1, <1>4 DEF Closes, RunStatus
  <2>3. phase' = [phase EXCEPT ![run.id] = outcome] /\ phase[run.id] = run.status
    BY <1>1, <1>4, <2>1, <2>2 DEF Closes
  <2>4. lastRun' = lastRun
    BY <1>4 DEF Closes
  <2> HIDE DEF phase
  <2>5. \/ Lifecycle!Move(run.id, Lifecycle!Live, "Completed")
        \/ Lifecycle!Move(run.id, {"Cancelling"}, "Cancelled")
        \/ Lifecycle!Move(run.id, Lifecycle!Live \cup {"Cancelling"}, "Failed")
    BY <1>4, <2>2, <2>3, <2>4 DEF Closes, IsActive, Lifecycle!Move, Lifecycle!Live, phase
  <2> QED
    BY <2>1, <2>5 DEF Lifecycle!Next
<1> QED
  BY <1>2, <1>3, <1>4 DEF RunMoves

\* TeamRunManager implements TeamRunLifecycle: one run at a time, no way back
\* from a cancellation, one outcome per run, whatever its callers do and in
\* whatever order (ImplementsLifecycle, about team_run.rs:1300, 1434 and 1772).
THEOREM LifecycleImplemented == Spec => ImplementsLifecycle
<1>1. Init => Safe /\ Lifecycle!Init
  BY InitSafe, InitMaps
<1>2. Safe /\ [Next]_vars => Safe'
  BY NextSafe
<1>3. Safe /\ Safe' /\ [Next]_vars => [Lifecycle!Next]_(Lifecycle!lifecycle)
  BY NextSafe, StepMaps
<1> QED
  BY <1>1, <1>2, <1>3, PTL DEF Spec, ImplementsLifecycle, Lifecycle!Spec

-----------------------------------------------------------------------------
(* A cancelling run only winds down.                                       *)

\* A record of the same run in which nothing was added.
Wound(r) ==
  /\ r.status = "Cancelling" /\ r.leases \subseteq run.leases
  /\ \A s \in Slots :
       /\ r.pending[s] = <<>>
       /\ r.starting[s] \in {"none", run.starting[s]}
       /\ r.active[s] \in {NoTurn, run.active[s]} \/ run.starting[s] = "cancelling"

\* begin_cancel leaves no wake, and no reservation that is not marked.
Drained(r) ==
  r.status = "Cancelling" =>
    \A s \in Slots : r.pending[s] = <<>> /\ r.starting[s] \in {"none", "cancelling"}

Follows(r) == IF run.status = "Cancelling" THEN Wound(r) ELSE Drained(r)

\* What WindsDown says of one step.
WindsStep ==
  run.status = "Cancelling" /\ run'.id = run.id => Wound(run')

LEMMA FollowsWinds ==
  ASSUME Safe, Drained(run), NEW r, Follows(r), NEW closes, NEW outcome,
         CloseOrKeep(r, closes, outcome)
  PROVE  Drained(run') /\ WindsStep
<1>1. run.status = "Cancelling" => run.id # 0
  BY DEF Safe, RunShape
<1>2. CASE run' = NoRun
  BY <1>1, <1>2 DEF NoRun, Drained, WindsStep
<1>3. CASE run' = r
  BY <1>3 DEF Follows, Drained, Wound, WindsStep
<1> QED
  BY <1>2, <1>3 DEF CloseOrKeep

LEMMA EndsWind ==
  ASSUME Safe, Drained(run), NEW r, Follows(r),
         Keep(r) \/ Fail(r) \/ MaybeComplete(r) \/ MaybeCancelled(r)
  PROVE  Drained(run') /\ WindsStep
BY FollowsWinds DEF Keep, Fail, MaybeComplete, MaybeCancelled

LEMMA SameFollows == ASSUME Drained(run) PROVE Follows(run)
BY DEF Follows, Wound, Drained

LEMMA SameWinds == ASSUME Drained(run), run' = run PROVE Drained(run') /\ WindsStep
BY DEF Wound, Drained, WindsStep

\* A run that is not cancelling may do what it likes short of cancelling.
LEMMA ActiveFollows ==
  ASSUME NEW r, IsActive(run) \/ run.status = "None", r.status # "Cancelling"
  PROVE  Follows(r)
BY DEF Follows, Drained, IsActive

LEMMA StartWinds ==
  ASSUME run.status = "None", NEW r, r.status # "Cancelling", StartRun(r)
  PROVE  Drained(run') /\ WindsStep
BY DEF StartRun, Drained, WindsStep

\* Wakes, gate entries and pauses leave the status of a record.
LEMMA StatusStays ==
  ASSUME NEW r \in RunRecord, NEW s \in Slots
  PROVE  /\ \A source : GateWake(r, s, source).status = r.status
         /\ \A source, msg : PushPending(r, s, source, msg).status = r.status
         /\ PausePending(r, s).status = r.status
BY DEF RunRecord, GateWake, PushPending, PausePending

LEMMA RequestWinds == ASSUME Safe, Drained(run), Request PROVE Drained(run') /\ WindsStep
<1>0. run \in RunRecord /\ (IsActive(run) => run.status # "Cancelling")
  BY RunRecords DEF IsActive
<1> DEFINE Done == Drained(run') /\ WindsStep
<1>1. ASSUME IsActive(run), NEW r, r.status = run.status, Keep(r) PROVE Done
  BY <1>0, <1>1, ActiveFollows, EndsWind
<1>2. ASSUME Keep(run) PROVE Done
  BY <1>2, SameFollows, EndsWind
<1> HIDE DEF Done
<1>3. ASSUME NEW s \in Slots, NEW id \in LeaseIds, AcquireIntervention(s, id) PROVE Done
  <2> DEFINE r(lease) == [GateWake(run, s, "UserIntervention") EXCEPT !.leases = @ \cup {lease}]
  <2>1. \A lease : r(lease).status = run.status
    BY <1>0 DEF RunRecord, GateWake
  <2>2. IsActive(run) /\ \E lease : Keep(r(lease))
    BY <1>3 DEF AcquireIntervention
  <2> HIDE DEF r
  <2> QED
    BY <1>1, <2>1, <2>2
<1>4. ASSUME NEW s \in Slots, NEW id \in LeaseIds, AcquireNewRun(s, id) PROVE Done
  <2> DEFINE lease == [id |-> id, run |-> lastRun + 1, slot |-> s, source |-> "UserMessage"]
             r == [NewRun(lastRun + 1, s) EXCEPT !.leases = {lease}]
  <2>1. r.status = "Accepted"
    BY DEF NewRun, NoRun
  <2>2. run.status = "None" /\ StartRun(r)
    BY <1>4 DEF AcquireNewRun
  <2> HIDE DEF r
  <2> QED
    BY <2>1, <2>2, StartWinds DEF Done
<1>5. ASSUME NEW s \in Slots, NEW source \in Sources, NEW id \in LeaseIds,
             AcquireScoped(s, source, id)
      PROVE  Done
  <2> DEFINE r(lease) == [GateWake(run, s, source) EXCEPT !.leases = @ \cup {lease}]
  <2>1. GateWake(run, s, source).status = run.status
    BY <1>0, StatusStays
  <2>2. \A lease : r(lease).status = run.status
    BY <1>0 DEF RunRecord, GateWake
  <2>3. /\ IsActive(run)
        /\ Keep(GateWake(run, s, source)) \/ \E lease : Keep(r(lease))
    BY <1>5 DEF AcquireScoped
  <2> HIDE DEF r
  <2> QED
    BY <1>1, <2>1, <2>2, <2>3
<1>6. ASSUME NEW l \in calls, NEW msg \in Msgs \cup {NoMsg}, CommitLease(l, msg) PROVE Done
  <2> DEFINE r == [PushPending(run, l.slot, l.source, msg) EXCEPT !.leases = @ \ {l}]
  <2>1. r.status = run.status
    BY <1>0 DEF RunRecord, PushPending
  <2>2. Keep(run) \/ (IsActive(run) /\ Keep(r))
    BY <1>6 DEF CommitLease
  <2> HIDE DEF r
  <2> QED
    BY <1>1, <1>2, <2>1, <2>2
<1>7. ASSUME NEW l \in calls, AbortLease(l) PROVE Done
  <2> DEFINE r == [run EXCEPT !.leases = @ \ {l}]
  <2>1. r.status = run.status
    BY <1>0 DEF RunRecord
  <2>2. Keep(run) \/ (IsActive(run) /\ Keep(r))
    BY <1>7 DEF AbortLease
  <2> HIDE DEF r
  <2> QED
    BY <1>1, <1>2, <2>1, <2>2
<1>8. ASSUME NEW s \in Slots, NEW source \in Sources, NEW msg \in Msgs \cup {NoMsg},
             RecordOrSuppressWake(s, source, msg)
      PROVE  Done
  <2> DEFINE r == GateWake(run, s, source)
             q == PushPending(r, s, source, msg)
  <2>1. r.status = run.status
    BY <1>0, StatusStays
  <2>2. q.status = run.status
    BY <1>0, <2>1 DEF RunRecord, PushPending, GateWake
  <2>3. /\ IsActive(run)
        /\ Keep(r) \/ Keep(q)
    BY <1>8 DEF RecordOrSuppressWake
  <2> HIDE DEF r, q
  <2> QED
    BY <1>1, <2>1, <2>2, <2>3
<1>9. ASSUME NEW candidates \in SUBSET Loops, NEW first \in Loops,
             RecoverBacklog(candidates, first)
      PROVE  Done
  <2> DEFINE woken(r, targets) ==
        [r EXCEPT !.pending =
           [s \in Slots |-> IF s \in targets
                            THEN Append(r.pending[s], [source |-> "RecoveryDrain", msg |-> NoMsg])
                            ELSE r.pending[s]]]
  <2>1. \A targets : woken(run, targets).status = run.status
    BY <1>0 DEF RunRecord
  <2>2. \A targets : woken(NewRun(lastRun + 1, first), targets).status = "Accepted"
    BY DEF NewRun, NoRun
  <2>3. \/ run.status = "None" /\ StartRun(woken(NewRun(lastRun + 1, first), candidates))
        \/ IsActive(run) /\ (\E targets : Keep(woken(run, targets)))
    BY <1>9 DEF RecoverBacklog
  <2> HIDE DEF woken
  <2>4. CASE run.status = "None" /\ StartRun(woken(NewRun(lastRun + 1, first), candidates))
    BY <2>2, <2>4, StartWinds DEF Done
  <2>5. CASE IsActive(run) /\ \E targets : Keep(woken(run, targets))
    BY <1>1, <2>1, <2>5
  <2> QED
    BY <2>3, <2>4, <2>5
<1> QED
  BY <1>3, <1>4, <1>5, <1>6, <1>7, <1>8, <1>9 DEF Request, Done

\* Taking work out of a record: what every step may do to a cancelling run.
LEMMA SlimmerFollows ==
  ASSUME NEW r, Drained(run), r.status = run.status, r.leases \subseteq run.leases,
         \A s \in Slots : /\ run.pending[s] = <<>> => r.pending[s] = <<>>
                          /\ r.starting[s] \in {"none", run.starting[s]}
                          /\ r.active[s] \in {NoTurn, run.active[s]}
  PROVE  Follows(r)
<1>1. CASE run.status = "Cancelling"
  BY <1>1 DEF Follows, Wound, Drained
<1>2. CASE run.status # "Cancelling"
  BY <1>2 DEF Follows, Drained
<1> QED
  BY <1>1, <1>2

LEMMA RemoveChildWinds ==
  ASSUME Safe, Drained(run), NEW s \in Slots, RemoveChild(s)
  PROVE  Drained(run') /\ WindsStep
<1> DEFINE removed == [run EXCEPT !.active[s] = NoTurn]
<1>1. /\ removed.status = run.status /\ removed.leases = run.leases
      /\ removed.pending = run.pending /\ removed.starting = run.starting
      /\ \A other \in Slots : removed.active[other] \in {NoTurn, run.active[other]}
  BY RunRecords DEF RunRecord
<1>2. Keep(removed) \/ MaybeCancelled(removed)
  BY DEF RemoveChild
<1> HIDE DEF removed
<1>3. Follows(removed)
  BY <1>1, SlimmerFollows
<1> QED
  BY <1>2, <1>3, EndsWind

LEMMA LooksWind ==
  ASSUME Safe, Drained(run),
         Keep(run) \/ Fail(run) \/ MaybeComplete(run) \/ MaybeCancelled(run) \/ UNCHANGED run
  PROVE  Drained(run') /\ WindsStep
BY SameFollows, SameWinds, EndsWind

\* A step that only a run which is not being cancelled takes.
LEMMA LiveWinds ==
  ASSUME Safe, Drained(run), IsActive(run), NEW r, r.status = run.status, Keep(r)
  PROVE  Drained(run') /\ WindsStep
<1>1. r.status # "Cancelling"
  BY DEF IsActive
<1> QED
  BY <1>1, ActiveFollows, EndsWind

LEMMA LookWinds ==
  ASSUME Safe, Drained(run), NEW s \in Slots, Look(s) PROVE Drained(run') /\ WindsStep
<1>0. run \in RunRecord
  BY RunRecords
<1>1. CASE PeekWake(s) \/ NoteRun(s) \/ LeaveBacklog(s)
  BY <1>1, LooksWind DEF PeekWake, NoteRun, LeaveBacklog
<1>2. CASE ObserveEmptyWake(s)
  <2> DEFINE popped == [run EXCEPT !.pending[s] = Tail(@)]
  <2>1. MaybeComplete(run) \/ (run.pending[s] # <<>> /\ MaybeComplete(popped))
    BY <1>2 DEF ObserveEmptyWake
  <2>2. /\ popped.status = run.status /\ popped.leases = run.leases
        /\ popped.starting = run.starting /\ popped.active = run.active
        /\ \A other \in Slots \ {s} : popped.pending[other] = run.pending[other]
    BY <1>0 DEF RunRecord
  <2> HIDE DEF popped
  <2>3. CASE run.pending[s] # <<>> /\ MaybeComplete(popped)
    <3>1. Follows(popped)
      BY <2>2, <2>3, SlimmerFollows
    <3> QED
      BY <2>3, <3>1, EndsWind
  <2> QED
    BY <2>1, <2>3, LooksWind
<1>3. CASE ClaimWake(s)
  <2> DEFINE r == [run EXCEPT !.pending[s] = Tail(@), !.starting[s] = "starting"]
  <2>1. Keep(run) \/ (IsActive(run) /\ Keep(r))
    BY <1>3 DEF ClaimWake
  <2>2. r.status = run.status
    BY <1>0 DEF RunRecord
  <2> HIDE DEF r
  <2> QED
    BY <2>1, <2>2, LiveWinds, LooksWind
<1> QED
  BY <1>1, <1>2, <1>3 DEF Look

LEMMA ExecuteWinds ==
  ASSUME Safe, Drained(run), NEW s \in Slots, Execute(s) PROVE Drained(run') /\ WindsStep
<1>0. run \in RunRecord
  BY RunRecords
<1> DEFINE released == [run EXCEPT !.starting[s] = "none"]
<1>1. /\ released \in RunRecord /\ released.id = run.id
      /\ released.status = run.status /\ released.leases = run.leases
      /\ released.pending = run.pending /\ released.active = run.active
      /\ \A other \in Slots : released.starting[other] \in {"none", run.starting[other]}
  BY <1>0 DEF RunRecord
<1>2. CASE StartFails(s)
  <2>1. Keep(run) \/ MaybeCancelled(released) \/ Fail(released)
    BY <1>2 DEF StartFails
  <2> HIDE DEF released
  <2>2. Follows(released)
    BY <1>1, SlimmerFollows
  <2> QED
    BY <2>1, <2>2, EndsWind, LooksWind
<1>3. CASE RetryStartLater(s)
  <2> DEFINE r == [run EXCEPT !.starting[s] = "none", !.pending[s] = <<turns[s].wake>> \o @]
  <2>1. Keep(run) \/ (IsActive(run) /\ Keep(r))
    BY <1>3 DEF RetryStartLater
  <2>2. r.status = run.status
    BY <1>0 DEF RunRecord
  <2> HIDE DEF r
  <2> QED
    BY <2>1, <2>2, LiveWinds, LooksWind
<1>4. ASSUME NEW t \in TurnIds, StartTurn(s, t) PROVE Drained(run') /\ WindsStep
  <2> DEFINE mustCancel == run.status = "Cancelling" \/ run.starting[s] = "cancelling"
             r == [released EXCEPT !.started = TRUE, !.active[s] = t,
                                   !.status = IF mustCancel THEN @ ELSE "Running"]
  <2>1. Keep(run) \/ Keep(released) \/ (run.starting[s] # "none" /\ Keep(r))
    BY <1>4 DEF StartTurn
  <2> HIDE DEF released
  <2>2. /\ r.status = (IF mustCancel THEN run.status ELSE "Running")
        /\ r.leases = run.leases /\ r.pending = run.pending
        /\ r.starting = released.starting
        /\ \A other \in Slots \ {s} : r.active[other] = run.active[other]
    BY <1>1 DEF RunRecord
  <2>3. Follows(released)
    BY <1>1, SlimmerFollows
  <2> HIDE DEF r
  <2>4. CASE run.starting[s] # "none" /\ Keep(r)
    <3>1. CASE run.status = "Cancelling"
      <4>1. run.starting[s] = "cancelling"
        BY <2>4, <3>1 DEF Drained
      <4> QED
        BY <1>1, <2>2, <2>4, <3>1, <4>1, EndsWind DEF Follows, Wound, Drained
    <3>2. CASE run.status # "Cancelling"
      BY <2>2, <2>4, <3>2, EndsWind DEF Follows, Drained
    <3> QED
      BY <3>1, <3>2
  <2> QED
    BY <2>1, <2>3, <2>4, EndsWind, LooksWind
<1>5. CASE CancelLateStart(s)
  BY <1>5, RemoveChildWinds DEF CancelLateStart
<1>6. CASE FinishLateStart(s) \/ FailStarted(s)
  BY <1>6, LooksWind DEF FinishLateStart, FailStarted
<1> QED
  BY <1>2, <1>3, <1>4, <1>5, <1>6 DEF Execute

LEMMA FinalizeWinds ==
  ASSUME Safe, Drained(run), NEW s \in Slots, Finalize(s) PROVE Drained(run') /\ WindsStep
<1>0. run \in RunRecord /\ calls \in SUBSET Lease
  BY RunRecords
<1>1. CASE AcquireWakeLead(s)
  <2> DEFINE gated == GateWake(run, Lead, "IdleNotification")
             r(lease) == [gated EXCEPT !.leases = @ \cup {lease}]
  <2>1. gated \in RunRecord /\ gated.status = run.status
    BY <1>0, GateWakeType, StatusStays, SlotsAssumption DEF WakeSource, BackgroundSource
  <2>2. /\ IsActive(run)
        /\ Keep(gated) \/ \E lease : Keep(r(lease))
    BY <1>1 DEF AcquireWakeLead
  <2> HIDE DEF gated
  <2>3. \A lease : r(lease).status = run.status
    BY <2>1 DEF RunRecord
  <2> HIDE DEF r
  <2> QED
    BY <2>1, <2>2, <2>3, LiveWinds
<1>2. ASSUME NEW l \in calls, CommitWakeLead(s, l) PROVE Drained(run') /\ WindsStep
  <2> DEFINE queued == PushPending(run, l.slot, l.source, NoMsg)
             r == [queued EXCEPT !.leases = @ \ {l}]
  <2>1. queued \in RunRecord /\ queued.status = run.status
    BY <1>0, PushPendingType, StatusStays DEF Lease
  <2>2. Keep(run) \/ (IsActive(run) /\ Keep(r))
    BY <1>2 DEF CommitWakeLead
  <2> HIDE DEF queued
  <2>3. r.status = run.status
    BY <2>1 DEF RunRecord
  <2> HIDE DEF r
  <2> QED
    BY <2>2, <2>3, LiveWinds, LooksWind
<1>3. ASSUME NEW ok \in BOOLEAN, CompleteChild(s, ok) PROVE Drained(run') /\ WindsStep
  <2> DEFINE removed == [run EXCEPT !.active[s] = NoTurn]
  <2>1. Keep(run) \/ MaybeComplete(removed) \/ Fail(removed)
    BY <1>3 DEF CompleteChild
  <2>2. /\ removed.status = run.status /\ removed.leases = run.leases
        /\ removed.pending = run.pending /\ removed.starting = run.starting
        /\ \A other \in Slots : removed.active[other] \in {NoTurn, run.active[other]}
    BY <1>0 DEF RunRecord
  <2> HIDE DEF removed
  <2>3. Follows(removed)
    BY <2>2, SlimmerFollows
  <2> QED
    BY <2>1, <2>3, EndsWind, LooksWind
<1>4. CASE MaybeCompleteRun(s)
  BY <1>4, LooksWind DEF MaybeCompleteRun
<1>5. CASE ReleaseSuppressed(s)
  <2> DEFINE queued == PushPending(run, s, run.gate[s].held, NoMsg)
             r == [queued EXCEPT !.gate[s] = NoEntry]
  <2>1. Keep(run) \/ (IsActive(run) /\ run.gate[s].held # NoSource /\ Keep(r))
    BY <1>5 DEF ReleaseSuppressed, Releasable
  <2>2. run.gate[s].held # NoSource => run.gate[s].held \in WakeSource
    BY <1>0 DEF RunRecord, GateEntry
  <2>3. CASE IsActive(run) /\ run.gate[s].held # NoSource /\ Keep(r)
    <3>1. queued \in RunRecord /\ queued.status = run.status
      BY <1>0, <2>2, <2>3, PushPendingType, StatusStays
    <3> HIDE DEF queued
    <3>2. r.status = run.status
      BY <3>1 DEF RunRecord
    <3> HIDE DEF r
    <3> QED
      BY <2>3, <3>2, LiveWinds
  <2> QED
    BY <2>1, <2>3, LooksWind
<1> QED
  BY <1>1, <1>2, <1>3, <1>4, <1>5 DEF Finalize

LEMMA StopWinds ==
  ASSUME Safe, Drained(run), NEW p \in Stoppers,
         CancelRun(p) \/ CancelChild(p) \/ PauseSlot(p) \/ EndStop(p)
  PROVE  Drained(run') /\ WindsStep
<1>0. run \in RunRecord /\ stops[p].slot \in Slots
      /\ \A c \in stops[p].todo : c[1] \in Slots
  BY RunRecords DEF Safe, Typed, TypeOK, Stop
<1>1. CASE \/ CheckCancel(p) \/ ListChildren(p) \/ FinishSweep(p) \/ EndStop(p)
           \/ WriteNotice(p) \/ FinishLead(p) \/ FinishStarting(p)
           \/ \E s \in Slots : CheckPause(p, s)
  BY <1>1, LooksWind DEF CheckCancel, ListChildren, FinishSweep, EndStop,
     WriteNotice, FinishLead, FinishStarting, CheckPause
<1>2. CASE BeginCancel(p)
  <2> DEFINE reserved == [s \in Slots |-> IF run.starting[s] = "none" THEN "none" ELSE "cancelling"]
             r == [run EXCEPT !.status = "Cancelling",
                              !.pending = [s \in Slots |-> <<>>],
                              !.gate = [s \in Slots |-> NoEntry],
                              !.starting = reserved]
  <2>1. (IsActive(run) /\ Keep(r)) \/ Keep(run)
    BY <1>2 DEF BeginCancel
  <2>2. \A s \in Slots : reserved[s] \in {"none", "cancelling"}
    OBVIOUS
  <2> HIDE DEF reserved
  <2>3. r.starting = reserved /\ r.pending = [s \in Slots |-> <<>>]
    BY <1>0 DEF RunRecord
  <2> HIDE DEF r
  <2>4. IsActive(run) => Follows(r)
    BY <2>2, <2>3 DEF Follows, Drained, IsActive
  <2> QED
    BY <2>1, <2>4, EndsWind, LooksWind
<1>3. CASE (\E c \in stops[p].todo : SweepChild(p, c)) \/ FinishCancelChild(p)
  BY <1>0, <1>3, RemoveChildWinds DEF SweepChild, FinishCancelChild
<1>4. ASSUME NEW s \in Slots, BeginCancelChild(p, s) PROVE Drained(run') /\ WindsStep
  <2> DEFINE r == [run EXCEPT !.starting[s] = "cancelling"]
  <2>1. Keep(run) \/ (IsActive(run) /\ Keep(r))
    BY <1>4 DEF BeginCancelChild
  <2>2. r.status = run.status
    BY <1>0 DEF RunRecord
  <2> HIDE DEF r
  <2> QED
    BY <2>1, <2>2, LiveWinds, LooksWind
<1>5. CASE NotifyLead(p)
  <2> DEFINE r == GateWake(run, Lead, "InterruptedNotification")
  <2>1. Keep(run) \/ (IsActive(run) /\ Keep(r))
    BY <1>5 DEF NotifyLead
  <2>2. r.status = run.status
    BY <1>0, StatusStays, SlotsAssumption
  <2> HIDE DEF r
  <2> QED
    BY <2>1, <2>2, LiveWinds, LooksWind
<1> DEFINE s == stops[p].slot
           quiet == PausePending(run, s)
<1>6. quiet \in RunRecord /\ SameBooks(quiet, run)
  BY <1>0, PausePendingType, PauseBooks
<1>7. CASE BeginPause(p)
  <2> DEFINE r == [quiet EXCEPT !.starting[s] = "none"]
  <2>1. Keep(run) \/ (IsActive(run) /\ Keep(r))
    BY <1>7 DEF BeginPause
  <2> HIDE DEF quiet, s
  <2>2. r.status = run.status
    BY <1>6 DEF RunRecord, SameBooks
  <2> HIDE DEF r
  <2> QED
    BY <2>1, <2>2, LiveWinds, LooksWind
<1>8. CASE FinishPause(p)
  <2> DEFINE r == [quiet EXCEPT !.active[s] = NoTurn]
  <2>1. Keep(run) \/ Keep(r)
    BY <1>8 DEF FinishPause
  <2>2. \A other \in Slots : run.pending[other] = <<>> => quiet.pending[other] = <<>>
    BY <1>0 DEF PausePending, RunRecord
  <2> HIDE DEF quiet, s
  <2>3. /\ r.status = run.status /\ r.leases = run.leases
        /\ r.pending = quiet.pending /\ r.starting = run.starting
        /\ \A other \in Slots : r.active[other] \in {NoTurn, run.active[other]}
    BY <1>6 DEF RunRecord, SameBooks
  <2> HIDE DEF r
  <2>4. Follows(r)
    BY <2>2, <2>3, SlimmerFollows
  <2> QED
    BY <2>1, <2>4, EndsWind, LooksWind
<1> QED
  BY <1>1, <1>2, <1>3, <1>4, <1>5, <1>7, <1>8 DEF CancelRun, CancelChild, PauseSlot

LEMMA NextWinds ==
  ASSUME Safe, Drained(run), [Next]_vars PROVE Drained(run') /\ WindsStep
<1>1. CASE Request
  BY <1>1, RequestWinds
<1>2. ASSUME NEW s \in Loops, Look(s) \/ Execute(s) \/ Finalize(s)
      PROVE  Drained(run') /\ WindsStep
  BY <1>2, SlotsAssumption, LookWinds, ExecuteWinds, FinalizeWinds
<1>3. CASE UNCHANGED vars
  BY <1>3, LooksWind DEF vars
<1> QED
  BY <1>1, <1>2, <1>3, StopWinds DEF Next

\* A run that is being cancelled only winds down: no wake, lease or reservation
\* is added to it, and the only turn that can still appear is the one a marked
\* reservation was waiting for (WindsDown, about team_run.rs:1516 and 1330).
THEOREM CancelOnlyWindsDown == Spec => WindsDown
<1>1. Init => Safe
  BY InitSafe
<1>2. Init => Drained(run)
  BY DEF Init, NoRun, Drained
<1>3. Safe /\ [Next]_vars => Safe'
  BY NextSafe
<1>4. Safe /\ Drained(run) /\ [Next]_vars => Drained(run)' /\ WindsStep
  BY NextWinds DEF Drained
<1> QED
  BY <1>1, <1>2, <1>3, <1>4, PTL DEF Spec, WindsDown, WindsStep, Wound

-----------------------------------------------------------------------------
(* The user's wakes stay in front of their queue.  First what steps do to  *)
(* queues and claims, then that all of it keeps the order.                 *)

\* What a step may do to the queue of a slot, but for the retry of a start: it
\* is left alone, emptied, shortened by its front, or a wake is queued.
Requeues(q, p) ==
  \/ p \in {q, <<>>}
  \/ q # <<>> /\ p = Tail(q)
  \/ \E wake \in Wake : p = PushWake(q, wake) \/ p = Append(<<>>, wake)

Requeued(r) == \A s \in Slots : Requeues(run.pending[s], r.pending[s])

LEMMA UnmovedQueues == ASSUME NEW r, r.pending = run.pending PROVE Requeued(r)
  BY DEF Requeued, Requeues

LEMMA KeptQueues ==
  ASSUME NEW r, Requeued(r) \/ r = run,
         Keep(r) \/ Fail(r) \/ MaybeComplete(r) \/ MaybeCancelled(r) \/ run' = r
  PROVE  Requeued(run')
<1>1. run' = r \/ run' = NoRun
  BY DEF Keep, Fail, MaybeComplete, MaybeCancelled, CloseOrKeep
<1>2. Requeued(NoRun)
  BY DEF Requeued, Requeues, NoRun
<1> QED
  BY <1>1, <1>2, UnmovedQueues

LEMMA ShorterQueues ==
  ASSUME NEW r,
         \A s \in Slots : \/ r.pending[s] \in {run.pending[s], <<>>}
                          \/ run.pending[s] # <<>> /\ r.pending[s] = Tail(run.pending[s])
  PROVE  Requeued(r)
  BY DEF Requeued, Requeues

LEMMA PushQueues ==
  ASSUME NEW r \in RunRecord, r.pending = run.pending, NEW s \in Slots, NEW source \in WakeSource,
         NEW msg \in Msgs \cup {NoMsg}
  PROVE  PushPending(r, s, source, msg) \in RunRecord /\ Requeued(PushPending(r, s, source, msg))
<1> DEFINE wake == [source |-> source, msg |-> msg]
           q == PushPending(r, s, source, msg)
<1>1. wake \in Wake /\ r.pending \in [Slots -> Seq(Wake)]
  BY DEF Wake, RunRecord
<1>2. q.pending = [r.pending EXCEPT ![s] = PushWake(@, wake)]
  BY DEF PushPending, RunRecord
<1> HIDE DEF wake, q
<1>3. \A other \in Slots : q.pending[other] \in {run.pending[other], PushWake(run.pending[other], wake)}
  BY <1>1, <1>2
<1>4. Requeued(q)
  BY <1>1, <1>3 DEF Requeued, Requeues
<1> QED
  BY <1>4, PushPendingType DEF q

LEMMA GateQueues ==
  ASSUME NEW r \in RunRecord, r.pending = run.pending, NEW s \in Slots, NEW source \in WakeSource
  PROVE  /\ GateWake(r, s, source) \in RunRecord /\ GateWake(r, s, source).pending = run.pending
         /\ Requeued(GateWake(r, s, source))
<1>1. GateWake(r, s, source).pending = run.pending
  BY DEF GateWake, RunRecord
<1> QED
  BY <1>1, GateWakeType DEF Requeued, Requeues

\* Leases, reservations and children are not in the queues.
LEMMA BooksQueues ==
  ASSUME NEW r \in RunRecord, Requeued(r) \/ r = run
  PROVE  /\ \A leases : Requeued([r EXCEPT !.leases = leases])
         /\ \A starting : Requeued([r EXCEPT !.starting = starting])
         /\ \A active : Requeued([r EXCEPT !.active = active])
         /\ \A gate : Requeued([r EXCEPT !.gate = gate])
         /\ \A starting, active, started, status :
              Requeued([r EXCEPT !.starting = starting, !.started = started,
                                  !.active = active, !.status = status])
  BY UnmovedQueues DEF Requeued, RunRecord

LEMMA RequestQueues ==
  ASSUME Safe, Request PROVE Requeued(run')
<1>0. run \in RunRecord /\ calls \in SUBSET Lease
  BY RunRecords
<1>1. ASSUME NEW s \in Slots, NEW id \in LeaseIds, AcquireIntervention(s, id)
      PROVE  Requeued(run')
  <2> DEFINE gated == GateWake(run, s, "UserIntervention")
  <2>1. gated \in RunRecord /\ Requeued(gated)
    BY <1>0, GateQueues DEF WakeSource, UserSource
  <2>2. \E leases : Keep([gated EXCEPT !.leases = leases])
    BY <1>1 DEF AcquireIntervention
  <2> HIDE DEF gated
  <2> QED
    BY <2>1, <2>2, BooksQueues, KeptQueues
<1>2. ASSUME NEW s \in Slots, NEW id \in LeaseIds, AcquireNewRun(s, id)
      PROVE  Requeued(run')
  <2>1. \A leases : [NewRun(lastRun + 1, s) EXCEPT !.leases = leases].pending
                      = [other \in Slots |-> <<>>]
    BY DEF NewRun, NoRun
  <2>2. run'.pending = [other \in Slots |-> <<>>]
    BY <1>2, <2>1 DEF AcquireNewRun, StartRun
  <2> QED
    BY <2>2 DEF Requeued, Requeues
<1>3. ASSUME NEW s \in Slots, NEW source \in Sources, NEW id \in LeaseIds,
             AcquireScoped(s, source, id)
      PROVE  Requeued(run')
  <2> DEFINE gated == GateWake(run, s, source)
  <2>1. gated \in RunRecord /\ Requeued(gated)
    BY <1>0, GateQueues, SourcesAssumption
  <2>2. Keep(gated) \/ \E leases : Keep([gated EXCEPT !.leases = leases])
    BY <1>3 DEF AcquireScoped
  <2> HIDE DEF gated
  <2> QED
    BY <2>1, <2>2, BooksQueues, KeptQueues
<1>4. ASSUME NEW l \in calls, NEW msg \in Msgs \cup {NoMsg}, CommitLease(l, msg)
      PROVE  Requeued(run')
  <2> DEFINE queued == PushPending(run, l.slot, l.source, msg)
  <2>1. queued \in RunRecord /\ Requeued(queued)
    BY <1>0, PushQueues DEF Lease
  <2>2. Keep(run) \/ \E leases : Keep([queued EXCEPT !.leases = leases])
    BY <1>4 DEF CommitLease
  <2> HIDE DEF queued
  <2> QED
    BY <2>1, <2>2, BooksQueues, KeptQueues
<1>5. ASSUME NEW l \in calls, AbortLease(l) PROVE Requeued(run')
  <2>1. Keep(run) \/ \E leases : Keep([run EXCEPT !.leases = leases])
    BY <1>5 DEF AbortLease
  <2> QED
    BY <1>0, <2>1, BooksQueues, KeptQueues
<1>6. ASSUME NEW s \in Slots, NEW source \in Sources, NEW msg \in Msgs \cup {NoMsg},
             RecordOrSuppressWake(s, source, msg)
      PROVE  Requeued(run')
  <2> DEFINE gated == GateWake(run, s, source)
             queued == PushPending(gated, s, source, msg)
  <2>1. gated \in RunRecord /\ gated.pending = run.pending /\ Requeued(gated)
    BY <1>0, GateQueues, SourcesAssumption
  <2>2. Keep(gated) \/ Keep(queued)
    BY <1>6 DEF RecordOrSuppressWake
  <2> HIDE DEF gated
  <2>3. Requeued(queued)
    BY <2>1, PushQueues, SourcesAssumption
  <2> HIDE DEF queued
  <2> QED
    BY <2>1, <2>2, <2>3, KeptQueues
<1>7. ASSUME NEW candidates \in SUBSET Loops, NEW first \in Loops,
             RecoverBacklog(candidates, first)
      PROVE  Requeued(run')
  <2> DEFINE wake == [source |-> "RecoveryDrain", msg |-> NoMsg]
             queues(r, targets) ==
               [s \in Slots |-> IF s \in targets THEN Append(r.pending[s], wake) ELSE r.pending[s]]
             woken(r, targets) == [r EXCEPT !.pending = queues(r, targets)]
             new == NewRun(lastRun + 1, first)
             idle == {s \in candidates : SlotRunState(run, s) = "Idle"}
  <2>1. \/ StartRun(woken(new, candidates))
        \/ Keep(woken(run, idle))
    BY <1>7 DEF RecoverBacklog
  <2>2. /\ new.pending = [s \in Slots |-> <<>>]
        /\ \A targets : woken(new, targets).pending = queues(new, targets)
    BY DEF NewRun, NoRun
  <2>3. \A targets : woken(run, targets).pending = queues(run, targets)
    BY <1>0 DEF RunRecord
  <2>4. \A s \in idle : run.pending[s] = <<>>
    BY DEF SlotRunState
  <2> HIDE DEF woken, new, idle
  <2>5. ASSUME NEW s \in Slots
        PROVE  /\ woken(new, candidates).pending[s] \in {<<>>, Append(<<>>, wake)}
               /\ woken(run, idle).pending[s] \in {run.pending[s], Append(<<>>, wake)}
    <3>1. woken(new, candidates).pending[s] = queues(new, candidates)[s] /\ new.pending[s] = <<>>
      BY <2>2
    <3>2. woken(run, idle).pending[s] = queues(run, idle)[s] /\ (s \in idle => run.pending[s] = <<>>)
      BY <2>3, <2>4
    <3> HIDE DEF wake
    <3>3. queues(new, candidates)[s] \in {new.pending[s], Append(new.pending[s], wake)}
      OBVIOUS
    <3>4. queues(run, idle)[s] = IF s \in idle THEN Append(run.pending[s], wake) ELSE run.pending[s]
      OBVIOUS
    <3> HIDE DEF queues
    <3> QED
      BY <3>1, <3>2, <3>3, <3>4
  <2>6. wake \in Wake
    BY DEF Wake, WakeSource, RecoverySource
  <2> HIDE DEF wake, queues
  <2>7. Requeued(woken(new, candidates)) /\ Requeued(woken(run, idle))
    BY <2>5, <2>6 DEF Requeued, Requeues
  <2> QED
    BY <2>1, <2>7, KeptQueues DEF StartRun
<1> QED
  BY <1>1, <1>2, <1>3, <1>4, <1>5, <1>6, <1>7, SlotsAssumption DEF Request

LEMMA SameQueues ==
  ASSUME Keep(run) \/ Fail(run) \/ MaybeComplete(run) \/ MaybeCancelled(run) \/ UNCHANGED run
  PROVE  Requeued(run')
  BY KeptQueues

LEMMA RemoveChildQueues ==
  ASSUME Safe, NEW s \in Slots, RemoveChild(s) PROVE Requeued(run')
<1>1. \E active : \/ Keep([run EXCEPT !.active = active])
                  \/ MaybeCancelled([run EXCEPT !.active = active])
  BY DEF RemoveChild
<1> QED
  BY <1>1, RunRecords, BooksQueues, KeptQueues

\* A retry puts the claimed wake back in front, whosever it is.
PutsBack(s) ==
  /\ MayRetryStart /\ turns[s].phase = "claimed"
  /\ turns' = [turns EXCEPT ![s] = NoTurnInHand]
  /\ run'.pending = [run.pending EXCEPT ![s] = <<turns[s].wake>> \o @]

LEMMA LoopQueues ==
  ASSUME Safe, NEW s \in Slots,
         Look(s) \/ Execute(s) \/ Finalize(s)
  PROVE  Requeued(run') \/ PutsBack(s)
<1>0. run \in RunRecord /\ calls \in SUBSET Lease
  BY RunRecords
<1>1. CASE \/ PeekWake(s) \/ NoteRun(s) \/ LeaveBacklog(s) \/ FinishLateStart(s)
           \/ FailStarted(s) \/ MaybeCompleteRun(s)
  BY <1>1, SameQueues
  DEF PeekWake, NoteRun, LeaveBacklog, FinishLateStart, FailStarted, MaybeCompleteRun
<1>2. CASE ObserveEmptyWake(s) \/ ClaimWake(s)
  <2> DEFINE popped == [run EXCEPT !.pending[s] = Tail(@)]
             claimed == [run EXCEPT !.pending[s] = Tail(@), !.starting[s] = "starting"]
  <2>1. \/ MaybeComplete(run) \/ Keep(run)
        \/ /\ run.pending[s] # <<>>
           /\ MaybeComplete(popped) \/ Keep(claimed)
    BY <1>2 DEF ObserveEmptyWake, ClaimWake
  <2>2. /\ popped.pending = [run.pending EXCEPT ![s] = Tail(@)]
        /\ claimed.pending = [run.pending EXCEPT ![s] = Tail(@)]
        /\ run.pending \in [Slots -> Seq(Wake)]
    BY <1>0 DEF RunRecord
  <2> HIDE DEF popped, claimed
  <2>3. run.pending[s] # <<>> => Requeued(popped) /\ Requeued(claimed)
    BY <1>0, <2>2, ShorterQueues
  <2> QED
    BY <2>1, <2>3, KeptQueues, SameQueues
<1>3. CASE StartFails(s)
  <2>1. \/ Keep(run)
        \/ \E starting : \/ Fail([run EXCEPT !.starting = starting])
                         \/ MaybeCancelled([run EXCEPT !.starting = starting])
    BY <1>3 DEF StartFails
  <2> QED
    BY <1>0, <2>1, BooksQueues, KeptQueues
<1>4. ASSUME NEW t \in TurnIds, StartTurn(s, t) PROVE Requeued(run')
  <2> DEFINE released == [run EXCEPT !.starting[s] = "none"]
             started(status) == [released EXCEPT !.started = TRUE, !.active[s] = t, !.status = status]
  <2>1. Keep(run) \/ Keep(released) \/ \E status : Keep(started(status))
    BY <1>4 DEF StartTurn
  <2>2. released.pending = run.pending /\ \A status : started(status).pending = run.pending
    BY <1>0 DEF RunRecord
  <2> HIDE DEF released, started
  <2>3. Requeued(released) /\ \A status : Requeued(started(status))
    BY <2>2, UnmovedQueues
  <2> QED
    BY <2>1, <2>3, KeptQueues
<1>5. CASE CancelLateStart(s)
  BY <1>5, RemoveChildQueues DEF CancelLateStart
<1>6. CASE RetryStartLater(s)
  <2> DEFINE back == [run EXCEPT !.starting[s] = "none", !.pending[s] = <<turns[s].wake>> \o @]
  <2>1. Keep(run) \/ Keep(back)
    BY <1>6 DEF RetryStartLater
  <2>2. back.pending = [run.pending EXCEPT ![s] = <<turns[s].wake>> \o @]
    BY <1>0 DEF RunRecord
  <2> HIDE DEF back
  <2>3. Keep(back) => run' = back
    BY DEF Keep, CloseOrKeep
  <2>4. Keep(back) => PutsBack(s)
    BY <1>6, <2>2, <2>3 DEF RetryStartLater, HoldTurn, PutsBack
  <2> QED
    BY <2>1, <2>4, SameQueues
<1>7. CASE AcquireWakeLead(s)
  <2> DEFINE gated == GateWake(run, Lead, "IdleNotification")
  <2>1. gated \in RunRecord /\ Requeued(gated)
    BY <1>0, GateQueues, SlotsAssumption DEF WakeSource, BackgroundSource
  <2>2. Keep(gated) \/ \E leases : Keep([gated EXCEPT !.leases = leases])
    BY <1>7 DEF AcquireWakeLead
  <2> HIDE DEF gated
  <2> QED
    BY <2>1, <2>2, BooksQueues, KeptQueues
<1>8. ASSUME NEW l \in calls, CommitWakeLead(s, l) PROVE Requeued(run')
  <2> DEFINE queued == PushPending(run, l.slot, l.source, NoMsg)
  <2>1. queued \in RunRecord /\ Requeued(queued)
    BY <1>0, PushQueues DEF Lease
  <2>2. Keep(run) \/ \E leases : Keep([queued EXCEPT !.leases = leases])
    BY <1>8 DEF CommitWakeLead
  <2> HIDE DEF queued
  <2> QED
    BY <2>1, <2>2, BooksQueues, KeptQueues
<1>9. ASSUME NEW ok \in BOOLEAN, CompleteChild(s, ok) PROVE Requeued(run')
  <2>1. \/ Keep(run)
        \/ \E active : \/ Fail([run EXCEPT !.active = active])
                       \/ MaybeComplete([run EXCEPT !.active = active])
    BY <1>9 DEF CompleteChild
  <2> QED
    BY <1>0, <2>1, BooksQueues, KeptQueues
<1>10. CASE ReleaseSuppressed(s)
  <2> DEFINE queued == PushPending(run, s, run.gate[s].held, NoMsg)
  <2>1. \/ Keep(run)
        \/ run.gate[s].held # NoSource /\ \E gate : Keep([queued EXCEPT !.gate = gate])
    BY <1>10 DEF ReleaseSuppressed, Releasable
  <2>2. run.gate[s].held # NoSource => run.gate[s].held \in WakeSource
    BY <1>0 DEF RunRecord, GateEntry
  <2>3. run.gate[s].held # NoSource => queued \in RunRecord /\ Requeued(queued)
    BY <1>0, <2>2, PushQueues
  <2> HIDE DEF queued
  <2> QED
    BY <2>1, <2>3, BooksQueues, KeptQueues
<1> QED
  BY <1>1, <1>2, <1>3, <1>4, <1>5, <1>6, <1>7, <1>8, <1>9, <1>10 DEF Look, Execute, Finalize

LEMMA StopQueues ==
  ASSUME Safe, NEW p \in Stoppers,
         CancelRun(p) \/ CancelChild(p) \/ PauseSlot(p) \/ EndStop(p)
  PROVE  Requeued(run')
<1>0. run \in RunRecord /\ stops[p].slot \in Slots
      /\ \A c \in stops[p].todo : c[1] \in Slots
  BY RunRecords DEF Safe, Typed, TypeOK, Stop
<1>1. CASE \/ CheckCancel(p) \/ ListChildren(p) \/ FinishSweep(p) \/ EndStop(p)
           \/ WriteNotice(p) \/ FinishLead(p) \/ FinishStarting(p)
           \/ \E s \in Slots : CheckPause(p, s)
  BY <1>1, SameQueues DEF CheckCancel, ListChildren, FinishSweep, EndStop,
     WriteNotice, FinishLead, FinishStarting, CheckPause
<1>2. CASE BeginCancel(p)
  <2> DEFINE cleared == [s \in Slots |-> <<>>]
             r(gate, starting) == [run EXCEPT !.status = "Cancelling", !.pending = cleared,
                                              !.gate = gate, !.starting = starting]
  <2>1. Keep(run) \/ \E gate, starting : Keep(r(gate, starting))
    BY <1>2 DEF BeginCancel
  <2>2. \A gate, starting : r(gate, starting).pending = cleared
    BY <1>0 DEF RunRecord
  <2> HIDE DEF r
  <2>3. \A gate, starting : Requeued(r(gate, starting))
    BY <2>2 DEF Requeued, Requeues
  <2> QED
    BY <2>1, <2>3, KeptQueues
<1>3. CASE (\E c \in stops[p].todo : SweepChild(p, c)) \/ FinishCancelChild(p)
  BY <1>0, <1>3, RemoveChildQueues DEF SweepChild, FinishCancelChild
<1>4. ASSUME NEW s \in Slots, BeginCancelChild(p, s) PROVE Requeued(run')
  <2>1. Keep(run) \/ \E starting : Keep([run EXCEPT !.starting = starting])
    BY <1>4 DEF BeginCancelChild
  <2> QED
    BY <1>0, <2>1, BooksQueues, KeptQueues
<1>5. CASE NotifyLead(p)
  <2>1. "InterruptedNotification" \in WakeSource
    BY DEF WakeSource, BackgroundSource
  <2>2. Keep(run) \/ Keep(GateWake(run, Lead, "InterruptedNotification"))
    BY <1>5 DEF NotifyLead
  <2> QED
    BY <1>0, <2>1, <2>2, GateQueues, SlotsAssumption, KeptQueues
<1> DEFINE s == stops[p].slot
           quiet == PausePending(run, s)
<1>6. quiet \in RunRecord /\ Requeued(quiet)
  <2>1. quiet \in RunRecord
    BY <1>0, PausePendingType
  <2>2. quiet.pending = [run.pending EXCEPT ![s] = <<>>] /\ run.pending \in [Slots -> Seq(Wake)]
    BY <1>0 DEF PausePending, RunRecord
  <2> HIDE DEF quiet, s
  <2> QED
    BY <1>0, <2>1, <2>2, ShorterQueues
<1>7. CASE BeginPause(p) \/ FinishPause(p)
  <2>1. \/ Keep(run)
        \/ \E starting : Keep([quiet EXCEPT !.starting = starting])
        \/ \E active : Keep([quiet EXCEPT !.active = active])
    BY <1>7 DEF BeginPause, FinishPause
  <2> HIDE DEF quiet, s
  <2> QED
    BY <1>6, <2>1, BooksQueues, KeptQueues
<1> QED
  BY <1>1, <1>2, <1>3, <1>4, <1>5, <1>7 DEF CancelRun, CancelChild, PauseSlot

LEMMA NextQueues ==
  ASSUME Safe, [Next]_vars PROVE Requeued(run') \/ \E s \in Loops : PutsBack(s)
<1>1. CASE UNCHANGED vars
  BY <1>1, SameQueues DEF vars
<1> QED
  BY <1>1, SlotsAssumption, RequestQueues, LoopQueues, StopQueues DEF Next

\* A wake that is claimed was at the front of its queue.
Claims(s) ==
  /\ run.pending[s] # <<>> /\ run'.pending[s] = Tail(run.pending[s])
  /\ turns'[s].wake = Head(run.pending[s])

LEMMA NextClaims ==
  ASSUME Safe, [Next]_vars, NEW s \in Slots
  PROVE  turns'[s] = turns[s] \/ turns'[s].phase # "claimed" \/ Claims(s)
<1>0. run \in RunRecord /\ turns \in [Slots -> Turn] /\ Loops \subseteq Slots
  BY RunRecords, SlotsAssumption DEF Safe, Typed, TypeOK
<1>1. CASE Request \/ UNCHANGED vars
  BY <1>1 DEF vars, Request, AcquireIntervention, AcquireNewRun, AcquireScoped, CommitLease,
     AbortLease, RecordOrSuppressWake, RecoverBacklog
<1>2. CASE \E p \in Stoppers : CancelRun(p) \/ CancelChild(p) \/ PauseSlot(p) \/ EndStop(p)
  BY <1>2 DEF CancelRun, CheckCancel, ListChildren, BeginCancel, SweepChild, FinishSweep, EndStop,
     CancelChild, BeginCancelChild, WriteNotice, FinishCancelChild, FinishLead, FinishStarting,
     NotifyLead, PauseSlot, CheckPause, BeginPause, FinishPause
<1>3. ASSUME NEW l \in Loops, Look(l) \/ Execute(l) \/ Finalize(l)
      PROVE  turns'[s] = turns[s] \/ turns'[s].phase # "claimed" \/ Claims(s)
  <2>1. l \in Slots /\ turns[l] \in Turn
    BY <1>0
  <2>2. CASE ClaimWake(l)
    <3> DEFINE claimed == [run EXCEPT !.pending[l] = Tail(@), !.starting[l] = "starting"]
    <3>1. \/ HoldTurn(l, NoTurnInHand)
          \/ /\ run.pending[l] # <<>> /\ Keep(claimed)
             /\ HoldTurn(l, [turns[l] EXCEPT !.phase = "claimed", !.wake = Head(run.pending[l])])
      BY <2>2 DEF ClaimWake
    <3>2. claimed.pending = [run.pending EXCEPT ![l] = Tail(@)]
      BY <1>0 DEF RunRecord
    <3> HIDE DEF claimed
    <3>3. Keep(claimed) => run' = claimed
      BY DEF Keep, CloseOrKeep
    <3>4. CASE HoldTurn(l, NoTurnInHand)
      BY <1>0, <3>4 DEF HoldTurn, NoTurnInHand
    <3>5. CASE ~HoldTurn(l, NoTurnInHand) /\ s = l
      <4>1. run'.pending[s] = Tail(run.pending[s])
        BY <1>0, <3>1, <3>2, <3>3, <3>5 DEF RunRecord
      <4>2. turns'[s].wake = Head(run.pending[s])
        BY <1>0, <2>1, <3>1, <3>5 DEF HoldTurn, Turn
      <4> QED
        BY <3>1, <3>5, <4>1, <4>2 DEF Claims
    <3>6. CASE ~HoldTurn(l, NoTurnInHand) /\ s # l
      BY <1>0, <3>1, <3>6 DEF HoldTurn
    <3> QED
      BY <3>4, <3>5, <3>6
  <2>3. CASE ~ClaimWake(l)
    <3>1. CASE PeekWake(l)
      BY <1>0, <2>1, <3>1 DEF PeekWake, HoldTurn, NoTurnInHand
    <3>2. CASE NoteRun(l)
      BY <1>0, <2>1, <3>2 DEF NoteRun, HoldTurn, Turn
    <3>3. CASE LeaveBacklog(l)
      BY <1>0, <2>1, <3>3 DEF LeaveBacklog, HoldTurn, NoTurnInHand
    <3>4. CASE ObserveEmptyWake(l)
      BY <1>0, <2>1, <3>4 DEF ObserveEmptyWake, HoldTurn, NoTurnInHand
    <3>5. CASE StartFails(l)
      BY <1>0, <2>1, <3>5 DEF StartFails, HoldTurn, Turn
    <3>6. CASE RetryStartLater(l)
      BY <1>0, <2>1, <3>6 DEF RetryStartLater, HoldTurn, NoTurnInHand
    <3>7. CASE CancelLateStart(l)
      BY <1>0, <2>1, <3>7 DEF CancelLateStart, HoldTurn, Turn
    <3>8. CASE FinishLateStart(l)
      BY <1>0, <2>1, <3>8 DEF FinishLateStart, HoldTurn, Turn
    <3>9. CASE FailStarted(l)
      BY <1>0, <2>1, <3>9 DEF FailStarted, HoldTurn, Turn
    <3>10. CASE MaybeCompleteRun(l)
      BY <1>0, <2>1, <3>10 DEF MaybeCompleteRun, HoldTurn, Turn
    <3>11. CASE ReleaseSuppressed(l)
      BY <1>0, <2>1, <3>11 DEF ReleaseSuppressed, HoldTurn, NoTurnInHand
    <3>12. CASE \E t \in TurnIds : StartTurn(l, t)
      <4>1. \E phase \in {"running", "late"}, t \in TurnIds :
              HoldTurn(l, [turns[l] EXCEPT !.phase = phase, !.wake = NoWake, !.turn = t])
        BY <3>12 DEF StartTurn
      <4> QED
        BY <1>0, <2>1, <4>1 DEF HoldTurn, Turn
    <3>13. CASE AcquireWakeLead(l) \/ \E lease \in calls : CommitWakeLead(l, lease)
      <4>1. \E phase \in {"waking", "releasing", "settling"} : HoldTurn(l, [turns[l] EXCEPT !.phase = phase])
        BY <3>13 DEF AcquireWakeLead, CommitWakeLead, AfterWaking
      <4> QED
        BY <1>0, <2>1, <4>1 DEF HoldTurn, Turn
    <3>14. CASE \E ok \in BOOLEAN : CompleteChild(l, ok)
      BY <1>0, <2>1, <3>14 DEF CompleteChild, HoldTurn, Turn
    <3> QED
      BY <1>3, <2>3, <3>1, <3>2, <3>3, <3>4, <3>5, <3>6, <3>7, <3>8, <3>9, <3>10, <3>11, <3>12,
         <3>13, <3>14 DEF Look, Execute, Finalize
  <2> QED
    BY <2>2, <2>3
<1> QED
  BY <1>1, <1>2, <1>3 DEF Next

-----------------------------------------------------------------------------
(* The order.                                                              *)

UserFirst(queue) ==
  \A i, j \in DOMAIN queue :
    i < j /\ IsForegroundWake(queue[j].source) => IsForegroundWake(queue[i].source)

\* At most one background wake is ahead of a wake of the user.
OneAhead(queue) ==
  \A i, j, k \in DOMAIN queue :
    /\ i < k /\ j < k /\ IsForegroundWake(queue[k].source)
    /\ ~IsForegroundWake(queue[i].source) /\ ~IsForegroundWake(queue[j].source)
    => i = j

\* A background wake that is claimed has left nothing ahead of the user.
InLine(queue, t) ==
  /\ ~MayRetryStart => UserFirst(queue)
  /\ OneAhead(queue)
  /\ t.phase = "claimed" /\ ~IsForegroundWake(t.wake.source) => UserFirst(queue)

AllInLine == \A s \in Slots : InLine(run.pending[s], turns[s])

\* A background wake behind the user's, or the user's wake in front of the
\* first background wake.
LEMMA PushUserFirst ==
  ASSUME NEW queue \in Seq(Wake), NEW wake \in Wake, UserFirst(queue)
  PROVE  UserFirst(PushWake(queue, wake))
<1> DEFINE pushed == PushWake(queue, wake)
           n == Len(queue) + 1
<1>1. Len(queue) \in Nat /\ DOMAIN queue = 1..Len(queue) /\ n \in Nat
  OBVIOUS
<1>2. CASE ~IsForegroundWake(wake.source)
  <2>1. pushed = Append(queue, wake)
    BY <1>2 DEF PushWake
  <2> HIDE DEF pushed
  <2>2. DOMAIN pushed = 1..n /\ pushed[n] = wake /\ \A i \in 1..Len(queue) : pushed[i] = queue[i]
    BY <1>1, <2>1
  <2>3. \A i, j \in 1..n :
          i < j /\ IsForegroundWake(pushed[j].source) => IsForegroundWake(pushed[i].source)
    BY <1>1, <1>2, <2>2 DEF UserFirst
  <2> QED
    BY <2>2, <2>3 DEF UserFirst, pushed
<1>3. CASE IsForegroundWake(wake.source)
  <2>1. pushed = [i \in 1..n |-> IF AllForeground(queue, i) THEN queue[i]
                                 ELSE IF AllForeground(queue, i - 1) THEN wake ELSE queue[i - 1]]
    BY <1>3 DEF PushWake
  <2> HIDE DEF pushed
  <2>2. DOMAIN pushed = 1..n
    BY <2>1
  <2>3. ASSUME NEW i \in 1..n, NEW j \in 1..n, i < j, ~IsForegroundWake(pushed[i].source)
        PROVE  ~IsForegroundWake(pushed[j].source)
    <3>1. ~AllForeground(queue, i) /\ ~AllForeground(queue, i - 1) /\ pushed[i] = queue[i - 1]
      <4>1. AllForeground(queue, i) => IsForegroundWake(queue[i].source)
        BY <1>1 DEF AllForeground
      <4> QED
        BY <1>3, <2>1, <2>3, <4>1
    <3>2. PICK k \in 1..i - 1 : ~IsForegroundWake(queue[k].source)
      BY <1>1, <3>1 DEF AllForeground
    <3>3. \A m \in Nat : k <= m => ~AllForeground(queue, m)
      BY <3>2 DEF AllForeground
    <3>4. ~AllForeground(queue, j) /\ ~AllForeground(queue, j - 1)
      BY <1>1, <2>3, <3>2, <3>3
    <3>5. pushed[j] = queue[j - 1] /\ k \in DOMAIN queue /\ j - 1 \in DOMAIN queue /\ k < j - 1
      BY <1>1, <2>1, <2>3, <3>2, <3>4
    <3> QED
      BY <3>2, <3>5 DEF UserFirst
  <2> QED
    BY <2>2, <2>3 DEF UserFirst, pushed
<1> QED
  BY <1>2, <1>3

LEMMA PushOneAhead ==
  ASSUME NEW queue \in Seq(Wake), NEW wake \in Wake, OneAhead(queue)
  PROVE  OneAhead(PushWake(queue, wake))
<1> DEFINE pushed == PushWake(queue, wake)
           n == Len(queue) + 1
           fg(i) == IsForegroundWake(pushed[i].source)
<1>1. Len(queue) \in Nat /\ DOMAIN queue = 1..Len(queue) /\ n \in Nat
  OBVIOUS
<1>2. CASE ~IsForegroundWake(wake.source)
  <2>1. pushed = Append(queue, wake)
    BY <1>2 DEF PushWake
  <2> HIDE DEF pushed
  <2>2. DOMAIN pushed = 1..n /\ pushed[n] = wake /\ \A i \in 1..Len(queue) : pushed[i] = queue[i]
    BY <1>1, <2>1
  <2>3. ASSUME NEW i \in 1..n, NEW j \in 1..n, NEW k \in 1..n, i < k, j < k, fg(k), ~fg(i), ~fg(j)
        PROVE  i = j
    <3>1. k # n
      BY <1>2, <2>2, <2>3
    <3>2. i \in 1..Len(queue) /\ j \in 1..Len(queue) /\ k \in 1..Len(queue)
      BY <1>1, <2>3, <3>1
    <3> QED
      BY <1>1, <2>2, <2>3, <3>2 DEF OneAhead
  <2> QED
    BY <2>2, <2>3 DEF OneAhead, pushed
<1>3. CASE IsForegroundWake(wake.source)
  <2>1. pushed = [i \in 1..n |-> IF AllForeground(queue, i) THEN queue[i]
                                 ELSE IF AllForeground(queue, i - 1) THEN wake ELSE queue[i - 1]]
    BY <1>3 DEF PushWake
  <2> HIDE DEF pushed
  <2>2. DOMAIN pushed = 1..n
    BY <2>1
  <2>3. ASSUME NEW i \in 1..n, ~fg(i)
        PROVE  /\ pushed[i] = queue[i - 1] /\ i - 1 \in 1..Len(queue)
               /\ \A k \in 1..n : i < k => pushed[k] = queue[k - 1] /\ k - 1 \in 1..Len(queue)
    <3>1. ~AllForeground(queue, i) /\ ~AllForeground(queue, i - 1) /\ pushed[i] = queue[i - 1]
      <4>1. AllForeground(queue, i) => IsForegroundWake(queue[i].source)
        BY <1>1 DEF AllForeground
      <4> QED
        BY <1>3, <2>1, <2>3, <4>1
    <3>2. i # 1
      BY <1>1, <3>1 DEF AllForeground
    <3>3. \A m \in Nat : i - 1 <= m => ~AllForeground(queue, m)
      BY <1>1, <3>1 DEF AllForeground
    <3>4. ASSUME NEW k \in 1..n, i < k
          PROVE  pushed[k] = queue[k - 1] /\ k - 1 \in 1..Len(queue)
      <4>1. k \in Nat /\ k - 1 \in Nat /\ i - 1 <= k /\ i - 1 <= k - 1 /\ k - 1 \in 1..Len(queue)
        BY <1>1, <3>4
      <4>2. ~AllForeground(queue, k) /\ ~AllForeground(queue, k - 1)
        BY <3>3, <4>1
      <4> QED
        BY <2>1, <4>1, <4>2
    <3>5. i - 1 \in 1..Len(queue)
      BY <1>1, <3>2
    <3> QED
      BY <3>1, <3>4, <3>5
  <2>4. ASSUME NEW i \in 1..n, NEW j \in 1..n, NEW k \in 1..n, i < k, j < k, fg(k), ~fg(i), ~fg(j)
        PROVE  i = j
    <3>1. /\ pushed[i] = queue[i - 1] /\ i - 1 \in 1..Len(queue)
          /\ pushed[j] = queue[j - 1] /\ j - 1 \in 1..Len(queue)
          /\ pushed[k] = queue[k - 1] /\ k - 1 \in 1..Len(queue)
      BY <2>3, <2>4
    <3>2. i - 1 < k - 1 /\ j - 1 < k - 1
      BY <1>1, <2>4
    <3>3. i - 1 = j - 1
      BY <1>1, <2>4, <3>1, <3>2 DEF OneAhead
    <3> QED
      BY <1>1, <3>3
  <2> QED
    BY <2>2, <2>4 DEF OneAhead, pushed
<1> QED
  BY <1>2, <1>3

LEMMA TailIs ==
  ASSUME NEW queue \in Seq(Wake), queue # <<>>
  PROVE  /\ DOMAIN Tail(queue) = 1..Len(queue) - 1 /\ DOMAIN queue = 1..Len(queue)
         /\ Len(queue) \in Nat /\ Head(queue) = queue[1]
         /\ \A i \in DOMAIN Tail(queue) : i + 1 \in DOMAIN queue /\ Tail(queue)[i] = queue[i + 1]
<1>1. Len(Tail(queue)) = Len(queue) - 1 /\ Len(queue) \in Nat
      /\ \A i \in 1..Len(Tail(queue)) : Tail(queue)[i] = queue[i + 1]
  BY HeadTailProperties
<1>2. Tail(queue) \in Seq(Wake) /\ Head(queue) = queue[1]
  BY HeadTailProperties
<1>3. DOMAIN Tail(queue) = 1..Len(queue) - 1 /\ DOMAIN queue = 1..Len(queue)
  BY <1>1, <1>2
<1>4. \A i \in DOMAIN Tail(queue) : i + 1 \in DOMAIN queue /\ Tail(queue)[i] = queue[i + 1]
  BY <1>1, <1>3
<1> QED
  BY <1>1, <1>2, <1>3, <1>4

LEMMA TailUserFirst ==
  ASSUME NEW queue \in Seq(Wake), queue # <<>>, UserFirst(queue)
  PROVE  UserFirst(Tail(queue))
<1>1. /\ \A i \in DOMAIN Tail(queue) : i + 1 \in DOMAIN queue /\ Tail(queue)[i] = queue[i + 1]
      /\ \A i, j \in DOMAIN Tail(queue) : i < j => i + 1 < j + 1
  BY TailIs
<1> QED
  BY <1>1 DEF UserFirst

LEMMA EmptyUserFirst == UserFirst(<<>>) /\ \A wake : UserFirst(Append(<<>>, wake))
  BY DEF UserFirst

\* What is behind the front is no worse than the queue, and when the front is a
\* background wake nothing else is ahead of the user.
LEMMA TailOneAhead ==
  ASSUME NEW queue \in Seq(Wake), queue # <<>>, OneAhead(queue)
  PROVE  /\ OneAhead(Tail(queue))
         /\ ~IsForegroundWake(Head(queue).source) => UserFirst(Tail(queue))
<1>1. /\ DOMAIN Tail(queue) = 1..Len(queue) - 1 /\ DOMAIN queue = 1..Len(queue)
      /\ Len(queue) \in Nat /\ Head(queue) = queue[1]
      /\ \A i \in DOMAIN Tail(queue) : i + 1 \in DOMAIN queue /\ Tail(queue)[i] = queue[i + 1]
  BY TailIs
<1>2. 1 \in DOMAIN queue
  BY <1>1
<1>3. ASSUME NEW i \in DOMAIN Tail(queue), NEW j \in DOMAIN Tail(queue), NEW k \in DOMAIN Tail(queue),
             i < k, j < k, IsForegroundWake(Tail(queue)[k].source),
             ~IsForegroundWake(Tail(queue)[i].source), ~IsForegroundWake(Tail(queue)[j].source)
      PROVE  i = j
  <2>1. i + 1 = j + 1
    <3>1. i + 1 < k + 1 /\ j + 1 < k + 1
      BY <1>1, <1>3
    <3> QED
      BY <1>1, <1>3, <3>1 DEF OneAhead
  <2> QED
    BY <1>1, <2>1
<1>4. ASSUME ~IsForegroundWake(Head(queue).source),
             NEW i \in DOMAIN Tail(queue), NEW k \in DOMAIN Tail(queue),
             i < k, IsForegroundWake(Tail(queue)[k].source)
      PROVE  IsForegroundWake(Tail(queue)[i].source)
  <2>1. 1 < k + 1 /\ i + 1 < k + 1 /\ 1 # i + 1
    BY <1>1, <1>4
  <2> QED
    BY <1>1, <1>2, <1>4, <2>1 DEF OneAhead
<1> QED
  BY <1>3, <1>4 DEF OneAhead, UserFirst

LEMMA UserFirstOneAhead == ASSUME NEW queue, UserFirst(queue) PROVE OneAhead(queue)
  BY DEF UserFirst, OneAhead

\* A wake put back in front: the user's does no harm, and a background wake is
\* the only one ahead if there was none.
LEMMA BackOneAhead ==
  ASSUME NEW W, NEW queue \in Seq(W), NEW wake \in W, OneAhead(queue),
         IsForegroundWake(wake.source) \/ UserFirst(queue)
  PROVE  OneAhead(<<wake>> \o queue)
<1> DEFINE back == <<wake>> \o queue
           n == Len(queue) + 1
<1>1. /\ Len(queue) \in Nat /\ DOMAIN queue = 1..Len(queue) /\ n \in Nat
      /\ DOMAIN back = 1..n /\ back[1] = wake
      /\ \A i \in 2..n : i - 1 \in 1..Len(queue) /\ back[i] = queue[i - 1]
  OBVIOUS
<1> HIDE DEF back
<1>2. ASSUME NEW i \in 1..n, NEW j \in 1..n, NEW k \in 1..n, i < k, j < k,
             IsForegroundWake(back[k].source),
             ~IsForegroundWake(back[i].source), ~IsForegroundWake(back[j].source)
      PROVE  i = j
  <2>1. k \in 2..n /\ (i = 1 \/ i \in 2..n) /\ (j = 1 \/ j \in 2..n)
    BY <1>1, <1>2
  <2>2. CASE UserFirst(queue)
    <3>1. ASSUME NEW m \in 2..n, m < k PROVE IsForegroundWake(back[m].source)
      <4>1. m - 1 < k - 1
        BY <1>1, <2>1, <3>1
      <4> QED
        BY <1>1, <1>2, <2>1, <2>2, <4>1 DEF UserFirst
    <3> QED
      BY <1>2, <2>1, <3>1
  <2>3. CASE IsForegroundWake(wake.source)
    <3>1. i \in 2..n /\ j \in 2..n
      BY <1>1, <1>2, <2>1, <2>3
    <3>2. i - 1 < k - 1 /\ j - 1 < k - 1
      BY <1>1, <1>2, <2>1
    <3>3. i - 1 = j - 1
      BY <1>1, <1>2, <2>1, <3>1, <3>2 DEF OneAhead
    <3> QED
      BY <1>1, <3>1, <3>3
  <2> QED
    BY <2>2, <2>3
<1> QED
  BY <1>1, <1>2 DEF OneAhead, back

LEMMA RequeuedInLine ==
  ASSUME NEW q \in Seq(Wake), NEW p, Requeues(q, p)
  PROVE  /\ UserFirst(q) => UserFirst(p)
         /\ OneAhead(q) => OneAhead(p)
<1>1. CASE p \in {q, <<>>}
  BY <1>1, EmptyUserFirst, UserFirstOneAhead
<1>2. CASE q # <<>> /\ p = Tail(q)
  BY <1>2, TailUserFirst, TailOneAhead
<1>3. ASSUME NEW wake \in Wake, p = PushWake(q, wake) \/ p = Append(<<>>, wake)
      PROVE  (UserFirst(q) => UserFirst(p)) /\ (OneAhead(q) => OneAhead(p))
  <2>1. UserFirst(Append(<<>>, wake)) /\ OneAhead(Append(<<>>, wake))
    BY EmptyUserFirst, UserFirstOneAhead
  <2> QED
    BY <1>3, <2>1, PushUserFirst, PushOneAhead
<1> QED
  BY <1>1, <1>2, <1>3 DEF Requeues

LEMMA NextInLine ==
  ASSUME Safe, AllInLine, [Next]_vars PROVE AllInLine'
<1> SUFFICES ASSUME NEW s \in Slots PROVE InLine(run'.pending[s], turns'[s])
  BY DEF AllInLine
<1> DEFINE q == run.pending[s]
           p == run'.pending[s]
<1>0. /\ run.pending \in [Slots -> Seq(Wake)] /\ q \in Seq(Wake)
      /\ turns \in [Slots -> Turn] /\ turns[s].wake \in Wake \cup {NoWake}
      /\ Loops \subseteq Slots /\ InLine(q, turns[s])
  BY RunRecords, SlotsAssumption DEF Safe, Typed, TypeOK, RunRecord, Turn, AllInLine
<1>1. CASE Requeued(run')
  <2>1. (UserFirst(q) => UserFirst(p)) /\ (OneAhead(q) => OneAhead(p))
    BY <1>0, <1>1, RequeuedInLine DEF Requeued
  <2>2. CASE turns'[s] = turns[s] \/ turns'[s].phase # "claimed"
    BY <1>0, <2>1, <2>2 DEF InLine
  <2>3. CASE Claims(s)
    <3>1. ~IsForegroundWake(turns'[s].wake.source) => UserFirst(p)
      BY <1>0, <2>3, TailOneAhead DEF Claims, InLine
    <3> QED
      BY <1>0, <2>1, <3>1 DEF InLine
  <2> QED
    BY <2>2, <2>3, NextClaims
<1>2. ASSUME NEW l \in Loops, PutsBack(l) PROVE InLine(p, turns'[s])
  <2>1. CASE s # l
    <3>1. p = q /\ turns'[s] = turns[s]
      BY <1>0, <1>2, <2>1 DEF PutsBack
    <3> QED
      BY <1>0, <3>1
  <2>2. CASE s = l
    <3>1. p = <<turns[s].wake>> \o q
      BY <1>0, <1>2, <2>2 DEF PutsBack
    <3>2. turns'[s].phase # "claimed"
      BY <1>0, <1>2, <2>2 DEF PutsBack, NoTurnInHand
    <3>3. IsForegroundWake(turns[s].wake.source) \/ UserFirst(q)
      BY <1>0, <1>2, <2>2 DEF PutsBack, InLine
    <3>4. q \in Seq(Wake \cup {NoWake}) /\ OneAhead(q) /\ MayRetryStart
      BY <1>0, <1>2 DEF InLine, PutsBack
    <3> HIDE DEF q, p
    <3>5. OneAhead(p)
      BY <1>0, <3>1, <3>3, <3>4, BackOneAhead
    <3> QED
      BY <3>2, <3>4, <3>5 DEF InLine
  <2> QED
    BY <2>1, <2>2
<1> QED
  BY <1>1, <1>2, NextQueues

\* A wake of the user is never queued behind a background wake, unless behind
\* the one wake whose start the port has refused, whatever requests, loops and
\* stop requests do between the refusals (ForegroundFirst, about team_run.rs:383;
\* the retry of team_run.rs:1237 puts any wake back in front).
THEOREM UserStaysFirst == Spec => []ForegroundFirst
<1>1. Init => Safe /\ AllInLine
  <2>1. Init => \A s \in Slots : run.pending[s] = <<>>
    BY DEF Init, NoRun
  <2> QED
    BY <2>1, InitSafe, EmptyUserFirst, UserFirstOneAhead DEF AllInLine, InLine
<1>2. Safe /\ [Next]_vars => Safe'
  BY NextSafe
<1>3. Safe /\ AllInLine /\ [Next]_vars => AllInLine'
  BY NextInLine
<1>4. AllInLine => ForegroundFirst
  BY DEF AllInLine, InLine, OneAhead, UserFirst, ForegroundFirst
<1> QED
  BY <1>1, <1>2, <1>3, <1>4, PTL DEF Spec

=============================================================================
