------------------------- MODULE SlotWakeGateProofs -------------------------
(***************************************************************************)
(* Proofs about SlotWakeGate, for any number of arrivals and suppressed    *)
(* wakes: types, what the gate retains, the order of the pending wakes,    *)
(* that TeamWake describes the gate, and that PushWake is the insertion of *)
(* the code.                                                               *)
(***************************************************************************)
EXTENDS SlotWakeGate, TLAPS, WellFoundedInduction, SequenceTheorems

-----------------------------------------------------------------------------
(* Queues.                                                                 *)

PendingWake == [source : WakeSource, msg : 1..arrived]

\* The user's wakes are a prefix of the queue.
ForegroundPrefix(q) ==
  \A i, j \in DOMAIN q :
    i < j /\ IsForegroundWake(q[j].source) => IsForegroundWake(q[i].source)

\* One class of wakes is in the order of arrival.
InOrderOfArrival(q) ==
  \A i, j \in DOMAIN q :
    i < j /\ IsForegroundWake(q[i].source) = IsForegroundWake(q[j].source)
      => q[i].msg < q[j].msg

LEMMA OrderIsBoth ==
  QueueOrder <=> ForegroundPrefix(queue) /\ InOrderOfArrival(queue)
<1>1. \A i \in DOMAIN queue : IsForegroundWake(queue[i].source) \in BOOLEAN
  BY DEF IsForegroundWake
<1> QED
  BY <1>1 DEF QueueOrder, ForegroundPrefix, InOrderOfArrival

\* With the user's wakes in front, the position of a wake tells what is before it.
LEMMA PrefixIsForeground ==
  ASSUME NEW W, NEW q \in Seq(W), ForegroundPrefix(q), NEW n \in 1..Len(q)
  PROVE  AllForeground(q, n) <=> IsForegroundWake(q[n].source)
<1>1. DOMAIN q = 1..Len(q) /\ n \in DOMAIN q /\ n <= Len(q) /\ 1..n \subseteq DOMAIN q
  OBVIOUS
<1>2. ASSUME IsForegroundWake(q[n].source), NEW i \in 1..n
      PROVE  IsForegroundWake(q[i].source)
  <2>1. CASE i = n
    BY <1>2, <2>1
  <2>2. CASE i # n
    BY <1>1, <1>2, <2>2 DEF ForegroundPrefix
  <2> QED
    BY <2>1, <2>2
<1>3. n \in 1..n
  OBVIOUS
<1> QED
  BY <1>1, <1>2, <1>3 DEF AllForeground

\* What PushWake leaves at a position: what was there, the new wake, or what was
\* there before.
UserWake(q, i) == i \in 1..Len(q) /\ IsForegroundWake(q[i].source)
Placed(p, q, wake, i) ==
  \/ UserWake(q, i) /\ p[i] = q[i]
  \/ ~UserWake(q, i) /\ (i = 1 \/ UserWake(q, i - 1)) /\ p[i] = wake
  \/ ~UserWake(q, i) /\ i - 1 \in 1..Len(q) /\ ~UserWake(q, i - 1) /\ p[i] = q[i - 1]

\* PushWake inserts the wake of the user behind the user's other wakes.
LEMMA PushWakeIs ==
  ASSUME NEW W, NEW q \in Seq(W), NEW wake \in W, ForegroundPrefix(q)
  PROVE  LET p == PushWake(q, wake) IN
         /\ p \in Seq(W) /\ Len(p) = Len(q) + 1 /\ DOMAIN p = 1..Len(q) + 1
         /\ IsForegroundWake(wake.source) =>
              \A i \in 1..Len(q) + 1 : Placed(p, q, wake, i)
         /\ ~IsForegroundWake(wake.source) =>
              p[Len(q) + 1] = wake /\ \A i \in 1..Len(q) : p[i] = q[i]
<1> DEFINE p == PushWake(q, wake)
           fg(i) == i \in 1..Len(q) /\ IsForegroundWake(q[i].source)
<1>1. Len(q) \in Nat /\ DOMAIN q = 1..Len(q) /\ \A i \in 1..Len(q) : q[i] \in W
  OBVIOUS
<1>2. CASE ~IsForegroundWake(wake.source)
  <2>1. p = Append(q, wake)
    BY <1>2 DEF PushWake
  <2> HIDE DEF p
  <2>2. p \in Seq(W) /\ Len(p) = Len(q) + 1 /\ DOMAIN p = 1..Len(q) + 1
    BY <2>1, <1>1
  <2>3. p[Len(q) + 1] = wake /\ \A i \in 1..Len(q) : p[i] = q[i]
    BY <2>1, <1>1
  <2> QED
    BY <1>2, <2>2, <2>3 DEF p
<1>3. CASE IsForegroundWake(wake.source)
  <2>1. p = [i \in 1..Len(q) + 1 |->
               IF AllForeground(q, i) THEN q[i]
               ELSE IF AllForeground(q, i - 1) THEN wake ELSE q[i - 1]]
    BY <1>3 DEF PushWake
  <2> HIDE DEF p
  <2>2. AllForeground(q, 0) /\ ~AllForeground(q, Len(q) + 1)
    BY <1>1 DEF AllForeground
  <2>3. \A i \in 1..Len(q) + 1 : AllForeground(q, i) <=> fg(i)
    <3> TAKE i \in 1..Len(q) + 1
    <3>1. CASE i \in 1..Len(q)
      BY <3>1, PrefixIsForeground
    <3>2. CASE i = Len(q) + 1
      BY <1>1, <2>2, <3>2
    <3> QED
      BY <1>1, <3>1, <3>2
  <2>4. \A i \in 1..Len(q) + 1 : AllForeground(q, i - 1) <=> i = 1 \/ fg(i - 1)
    <3> TAKE i \in 1..Len(q) + 1
    <3>1. CASE i = 1
      BY <2>2, <3>1
    <3>2. CASE i # 1
      <4>1. i - 1 \in 1..Len(q) + 1
        BY <1>1, <3>2
      <4>2. AllForeground(q, i - 1) <=> fg(i - 1)
        BY <2>3, <4>1
      <4> QED
        BY <3>2, <4>2
    <3> QED
      BY <3>1, <3>2
  <2>5. ASSUME NEW i \in 1..Len(q) + 1
        PROVE  \/ fg(i) /\ p[i] = q[i]
               \/ ~fg(i) /\ (i = 1 \/ fg(i - 1)) /\ p[i] = wake
               \/ ~fg(i) /\ i - 1 \in 1..Len(q) /\ ~fg(i - 1) /\ p[i] = q[i - 1]
    <3>1. p[i] = IF fg(i) THEN q[i] ELSE IF i = 1 \/ fg(i - 1) THEN wake ELSE q[i - 1]
      BY <2>1, <2>3, <2>4
    <3>2. i # 1 => i - 1 \in 1..Len(q)
      BY <1>1
    <3> HIDE DEF fg
    <3> QED
      BY <3>1, <3>2
  <2>6. p \in Seq(W) /\ Len(p) = Len(q) + 1 /\ DOMAIN p = 1..Len(q) + 1
    <3>1. \A i \in 1..Len(q) + 1 : p[i] \in W
      BY <1>1, <2>5
    <3>2. p \in [1..Len(q) + 1 -> W]
      BY <2>1, <3>1
    <3>3. Len(q) + 1 \in Nat
      BY <1>1
    <3> QED
      BY <3>2, <3>3
  <2>7. \A i \in 1..Len(q) + 1 : Placed(p, q, wake, i)
    BY <2>5 DEF Placed, UserWake
  <2> QED
    BY <1>3, <2>6, <2>7 DEF p
<1> QED
  BY <1>2, <1>3

LEMMA PushKeepsPrefix ==
  ASSUME NEW W, NEW q \in Seq(W), NEW wake \in W, ForegroundPrefix(q)
  PROVE  ForegroundPrefix(PushWake(q, wake))
<1> DEFINE p == PushWake(q, wake)
           fg(i) == i \in 1..Len(q) /\ IsForegroundWake(q[i].source)
<1>1. Len(q) \in Nat /\ DOMAIN q = 1..Len(q) /\ DOMAIN p = 1..Len(q) + 1
  BY PushWakeIs
<1>2. \A i, j \in 1..Len(q) : i < j /\ IsForegroundWake(q[j].source) => IsForegroundWake(q[i].source)
  BY <1>1 DEF ForegroundPrefix
<1>3. CASE ~IsForegroundWake(wake.source)
  <2>1. p[Len(q) + 1] = wake /\ \A i \in 1..Len(q) : p[i] = q[i]
    BY <1>3, PushWakeIs
  <2> HIDE DEF p
  <2> SUFFICES ASSUME NEW i \in 1..Len(q) + 1, NEW j \in 1..Len(q) + 1, i < j,
                      IsForegroundWake(p[j].source)
               PROVE  IsForegroundWake(p[i].source)
    BY <1>1 DEF ForegroundPrefix, p
  <2>2. j \in 1..Len(q) /\ i \in 1..Len(q)
    BY <1>1, <1>3, <2>1
  <2> QED
    BY <1>2, <2>1, <2>2
<1>4. CASE IsForegroundWake(wake.source)
  <2>1. \A i \in 1..Len(q) + 1 :
          \/ fg(i) /\ p[i] = q[i]
          \/ ~fg(i) /\ (i = 1 \/ fg(i - 1)) /\ p[i] = wake
          \/ ~fg(i) /\ i - 1 \in 1..Len(q) /\ ~fg(i - 1) /\ p[i] = q[i - 1]
    <3>1. \A i \in 1..Len(q) + 1 : Placed(p, q, wake, i)
      BY <1>4, PushWakeIs
    <3> QED
      BY <3>1 DEF Placed, UserWake
  <2> HIDE DEF p
  <2> SUFFICES ASSUME NEW i \in 1..Len(q) + 1, NEW j \in 1..Len(q) + 1, i < j,
                      IsForegroundWake(p[j].source)
               PROVE  IsForegroundWake(p[i].source)
    BY <1>1 DEF ForegroundPrefix, p
  <2>2. fg(j) \/ j = 1 \/ fg(j - 1)
    BY <2>1
  <2>3. fg(i)
    BY <1>1, <1>2, <2>2
  <2> QED
    BY <2>1, <2>3
<1> QED
  BY <1>3, <1>4

LEMMA PushKeepsArrival ==
  ASSUME NEW W, NEW q \in Seq(W), NEW wake \in W, ForegroundPrefix(q), InOrderOfArrival(q),
         \A w \in W : w.msg \in Int, \A i \in DOMAIN q : q[i].msg < wake.msg
  PROVE  InOrderOfArrival(PushWake(q, wake))
<1> DEFINE p == PushWake(q, wake)
           fg(i) == i \in 1..Len(q) /\ IsForegroundWake(q[i].source)
<1>1. Len(q) \in Nat /\ DOMAIN q = 1..Len(q) /\ DOMAIN p = 1..Len(q) + 1
  BY PushWakeIs
<1>2. \A i, j \in 1..Len(q) : i < j /\ IsForegroundWake(q[j].source) => IsForegroundWake(q[i].source)
  BY <1>1 DEF ForegroundPrefix
<1>3. \A i, j \in 1..Len(q) :
        i < j /\ IsForegroundWake(q[i].source) = IsForegroundWake(q[j].source)
          => q[i].msg < q[j].msg
  BY <1>1 DEF InOrderOfArrival
<1>4. CASE ~IsForegroundWake(wake.source)
  <2>1. p[Len(q) + 1] = wake /\ \A i \in 1..Len(q) : p[i] = q[i]
    BY <1>4, PushWakeIs
  <2> HIDE DEF p
  <2> SUFFICES ASSUME NEW i \in 1..Len(q) + 1, NEW j \in 1..Len(q) + 1, i < j,
                      IsForegroundWake(p[i].source) = IsForegroundWake(p[j].source)
               PROVE  p[i].msg < p[j].msg
    BY <1>1 DEF InOrderOfArrival, p
  <2>2. i \in 1..Len(q) /\ p[i] = q[i]
    BY <1>1, <2>1
  <2>3. CASE j = Len(q) + 1
    BY <1>1, <2>1, <2>2, <2>3
  <2>4. CASE j \in 1..Len(q)
    <3>1. p[j] = q[j]
      BY <2>1, <2>4
    <3>2. IsForegroundWake(q[i].source) = IsForegroundWake(q[j].source)
      BY <2>2, <3>1
    <3>3. q[i].msg < q[j].msg
      BY <1>3, <2>2, <2>4, <3>2
    <3> QED
      BY <2>2, <3>1, <3>3
  <2> QED
    BY <1>1, <2>3, <2>4
<1>5. CASE IsForegroundWake(wake.source)
  <2>1. \A i \in 1..Len(q) + 1 :
          \/ fg(i) /\ p[i] = q[i]
          \/ ~fg(i) /\ (i = 1 \/ fg(i - 1)) /\ p[i] = wake
          \/ ~fg(i) /\ i - 1 \in 1..Len(q) /\ ~fg(i - 1) /\ p[i] = q[i - 1]
    <3>1. \A i \in 1..Len(q) + 1 : Placed(p, q, wake, i)
      BY <1>5, PushWakeIs
    <3> QED
      BY <3>1 DEF Placed, UserWake
  <2> HIDE DEF p
  <2> SUFFICES ASSUME NEW i \in 1..Len(q) + 1, NEW j \in 1..Len(q) + 1, i < j,
                      IsForegroundWake(p[i].source) = IsForegroundWake(p[j].source)
               PROVE  p[i].msg < p[j].msg
    BY <1>1 DEF InOrderOfArrival, p
  <2>2. CASE fg(i)
    <3>1. p[i] = q[i] /\ IsForegroundWake(p[j].source)
      BY <2>1, <2>2
    <3>2. CASE fg(j)
      <4>1. q[i].msg < q[j].msg
        BY <1>3, <2>2, <3>2
      <4> QED
        BY <2>1, <3>1, <3>2, <4>1
    <3>3. CASE ~fg(j)
      <4>1. p[j] = wake
        BY <1>1, <2>1, <3>1, <3>3
      <4> QED
        BY <1>1, <2>2, <3>1, <4>1
    <3> QED
      BY <3>2, <3>3
  <2>3. CASE ~fg(i)
    <3>1. ~fg(j) /\ j # 1 /\ ~fg(j - 1)
      <4>1. j - 1 \in 1..Len(q) /\ (i = j - 1 \/ i < j - 1)
        BY <1>1
      <4> QED
        BY <1>1, <1>2, <2>3, <4>1
    <3>2. j - 1 \in 1..Len(q) /\ p[j] = q[j - 1]
      BY <2>1, <3>1
    <3>3. ~IsForegroundWake(p[j].source)
      BY <3>1, <3>2
    <3>4. i - 1 \in 1..Len(q) /\ ~fg(i - 1) /\ p[i] = q[i - 1]
      BY <1>5, <2>1, <2>3, <3>3
    <3>5. IsForegroundWake(q[i - 1].source) = IsForegroundWake(q[j - 1].source)
      BY <3>2, <3>4
    <3>6. q[i - 1].msg < q[j - 1].msg
      BY <1>3, <3>2, <3>4, <3>5
    <3> QED
      BY <3>2, <3>4, <3>6
  <2> QED
    BY <2>2, <2>3
<1> QED
  BY <1>4, <1>5

LEMMA TailKeepsOrder ==
  ASSUME NEW W, NEW q \in Seq(W), q # <<>>, ForegroundPrefix(q), InOrderOfArrival(q)
  PROVE  /\ Tail(q) \in Seq(W) /\ ForegroundPrefix(Tail(q)) /\ InOrderOfArrival(Tail(q))
         /\ \A i \in DOMAIN Tail(q) : i + 1 \in DOMAIN q /\ Tail(q)[i] = q[i + 1]
<1>1. Len(q) \in Nat \ {0} /\ DOMAIN q = 1..Len(q)
  OBVIOUS
<1>2. Tail(q) \in Seq(W) /\ Len(Tail(q)) = Len(q) - 1
  BY <1>1
<1>3. \A i \in 1..(Len(q) - 1) : Tail(q)[i] = q[i + 1] /\ i + 1 \in DOMAIN q
  BY <1>1
<1>4. DOMAIN Tail(q) = 1..(Len(q) - 1)
  BY <1>2
<1>5. ForegroundPrefix(Tail(q))
  BY <1>1, <1>3, <1>4 DEF ForegroundPrefix
<1>6. InOrderOfArrival(Tail(q))
  BY <1>1, <1>3, <1>4 DEF InOrderOfArrival
<1> QED
  BY <1>2, <1>3, <1>4, <1>5, <1>6

-----------------------------------------------------------------------------
(* The gate.                                                               *)

\* Something is held exactly when it has a source, and what is held is neither
\* of the user nor of the lifecycle; a slot without an entry holds nothing.
GateHolds ==
  /\ count > 0 <=> last # NoSource
  /\ mode = "absent" => count = 0
  /\ last # NoSource => ~BypassesPause(last)

Arrived == \A i \in DOMAIN queue : queue[i].msg <= arrived

GateInv ==
  /\ TypeOK /\ GateHolds /\ Arrived
  /\ ForegroundPrefix(queue) /\ InOrderOfArrival(queue)

LEMMA SourceFacts ==
  /\ \A s \in WakeSource : ResumesPausedSlot(s) <=> IsForegroundWake(s)
  /\ \A s \in WakeSource : IsForegroundWake(s) => BypassesPause(s)
  /\ "McpSendMessage" \in WakeSource /\ ~BypassesPause("McpSendMessage")
  /\ NoSource \notin WakeSource
BY NoSourceAssumption
   DEF ResumesPausedSlot, IsForegroundWake, BypassesPause, WakeSource, UserSource,
       BackgroundSource, RecoverySource, LifecycleSource

LEMMA CountFacts ==
  ASSUME TypeOK
  PROVE  /\ count \in Nat /\ MaxSuppressed \in Nat /\ arrived \in Nat /\ MaxArrivals \in Nat
         /\ Len(queue) \in Nat /\ (Len(queue) = 0 <=> queue = <<>>)
         /\ queue \in Seq(PendingWake)
BY BoundsAssumption DEF TypeOK, PendingWake

\* A wake that is pushed keeps the queue in order, and counts as arrived.
LEMMA PushKeeps ==
  ASSUME GateInv, NEW source \in WakeSource, Push(source)
  PROVE  /\ queue' \in Seq([source : WakeSource, msg : 1..arrived'])
         /\ arrived' = arrived + 1 /\ arrived' \in 0..MaxArrivals
         /\ Arrived' /\ ForegroundPrefix(queue') /\ InOrderOfArrival(queue')
         /\ ~IsForegroundWake(source) =>
              queue' # <<>> /\ queue'[Len(queue')].source = source
<1> DEFINE W == [source : WakeSource, msg : 1..(arrived + 1)]
           wake == [source |-> source, msg |-> arrived + 1]
<1>1. /\ queue \in Seq(PendingWake) /\ arrived \in Nat /\ MaxArrivals \in Nat
      /\ ForegroundPrefix(queue) /\ InOrderOfArrival(queue)
  BY CountFacts DEF GateInv
<1>2. arrived' = arrived + 1 /\ arrived' \in 0..MaxArrivals /\ queue' = PushWake(queue, wake)
  BY <1>1 DEF Push
<1>3. wake \in W
  BY <1>1
<1>4. queue \in Seq(W)
  <2>1. PendingWake \subseteq W
    BY <1>1 DEF PendingWake
  <2> HIDE DEF W
  <2> QED
    BY <1>1, <2>1
<1>5. \A w \in W : w.msg \in Int /\ w.msg <= arrived + 1
  BY <1>1
<1>6. \A i \in DOMAIN queue : queue[i].msg < wake.msg
  <2> TAKE i \in DOMAIN queue
  <2>1. queue[i] \in PendingWake
    BY <1>1
  <2>2. queue[i].msg \in 1..arrived
    BY <2>1 DEF PendingWake
  <2> QED
    BY <1>1, <2>2
<1>7. wake.source = source
  OBVIOUS
<1> HIDE DEF W, wake
<1>8. queue' \in Seq(W) /\ Len(queue') = Len(queue) + 1
  BY <1>1, <1>2, <1>3, <1>4, PushWakeIs
<1>9. ForegroundPrefix(queue')
  BY <1>1, <1>2, <1>3, <1>4, PushKeepsPrefix
<1>10. InOrderOfArrival(queue')
  BY <1>1, <1>2, <1>3, <1>4, <1>5, <1>6, PushKeepsArrival
<1>11. Arrived'
  <2> SUFFICES ASSUME NEW i \in DOMAIN queue' PROVE queue'[i].msg <= arrived'
    BY DEF Arrived
  <2>1. queue'[i] \in W
    BY <1>8
  <2> QED
    BY <1>2, <1>5, <2>1
<1>12. ~IsForegroundWake(source) => queue' # <<>> /\ queue'[Len(queue')].source = source
  <2>1. Len(queue) \in Nat
    BY <1>1
  <2>2. ~IsForegroundWake(source) => PushWake(queue, wake)[Len(queue) + 1] = wake
    BY <1>1, <1>3, <1>4, <1>7, PushWakeIs
  <2> QED
    BY <1>2, <1>7, <1>8, <2>1, <2>2
<1>13. queue' \in Seq([source : WakeSource, msg : 1..arrived'])
  BY <1>2, <1>8 DEF W
<1> QED
  BY <1>2, <1>9, <1>10, <1>11, <1>12, <1>13

LEMMA EmptyQueue ==
  /\ \A W : <<>> \in Seq(W)
  /\ ForegroundPrefix(<<>>) /\ InOrderOfArrival(<<>>)
BY DEF ForegroundPrefix, InOrderOfArrival

LEMMA InitGate == Init => GateInv
BY BoundsAssumption, EmptyQueue, NoSourceAssumption
   DEF Init, GateInv, TypeOK, GateMode, GateHolds, Arrived

LEMMA ArriveKeeps ==
  ASSUME GateInv, NEW source \in WakeSource, Arrive(source) PROVE GateInv'
<1>1. TypeOK /\ GateHolds
  BY DEF GateInv
<1>2. CASE /\ Push(source) /\ UNCHANGED <<count, last>>
           /\ mode' \in {mode, "resumed"} /\ (mode = "absent" => mode' = "absent")
           /\ mode' = "absent" => mode = "absent"
  BY <1>1, <1>2, PushKeeps DEF GateInv, TypeOK, GateMode, GateHolds
<1>3. CASE /\ mode # "absent" /\ ~BypassesPause(source) /\ count < MaxSuppressed
           /\ count' = count + 1 /\ last' = source /\ UNCHANGED <<mode, queue, arrived>>
  <2>1. count' \in 0..MaxSuppressed /\ count' > 0 /\ source # NoSource
    BY <1>1, <1>3, CountFacts, SourceFacts
  <2> QED
    BY <1>1, <1>3, <2>1 DEF GateInv, TypeOK, GateHolds, Arrived
<1> QED
  BY <1>1, <1>2, <1>3 DEF Arrive, gate, TypeOK, GateMode

LEMMA TakeKeeps ==
  ASSUME GateInv, Take PROVE GateInv'
<1>1. /\ queue # <<>> /\ queue' = Tail(queue) /\ UNCHANGED <<gate, arrived>>
      /\ queue \in Seq(PendingWake) /\ ForegroundPrefix(queue) /\ InOrderOfArrival(queue)
  BY CountFacts DEF Take, GateInv
<1>2. /\ queue' \in Seq(PendingWake) /\ ForegroundPrefix(queue') /\ InOrderOfArrival(queue')
      /\ \A i \in DOMAIN queue' : i + 1 \in DOMAIN queue /\ queue'[i] = queue[i + 1]
  BY <1>1, TailKeepsOrder
<1>3. queue' \in Seq([source : WakeSource, msg : 1..arrived'])
  BY <1>1, <1>2 DEF PendingWake
<1>4. Arrived'
  BY <1>1, <1>2 DEF GateInv, Arrived
<1> QED
  BY <1>1, <1>2, <1>3, <1>4 DEF GateInv, TypeOK, GateHolds, gate

LEMMA PauseKeeps ==
  ASSUME GateInv, Pause PROVE GateInv'
<1>1. TypeOK /\ GateHolds
  BY DEF GateInv
<1>2. /\ queue' = <<>> /\ arrived' = arrived /\ mode' = "paused"
      /\ count' = (IF mode = "absent" THEN 0 ELSE count) + Len(queue)
      /\ count + Len(queue) <= MaxSuppressed
      /\ last' = IF mode # "absent" /\ last # NoSource THEN last
                 ELSE IF queue = <<>> THEN NoSource ELSE "McpSendMessage"
  BY DEF Pause
<1>3. count' \in 0..MaxSuppressed
  BY <1>1, <1>2, CountFacts
<1>4. last' \in WakeSource \cup {NoSource} /\ (last' # NoSource => ~BypassesPause(last'))
  BY <1>1, <1>2, SourceFacts DEF TypeOK, GateHolds
<1>5. count' > 0 <=> last' # NoSource
  BY <1>1, <1>2, CountFacts, SourceFacts DEF GateHolds
<1>6. /\ queue' \in Seq([source : WakeSource, msg : 1..arrived']) /\ Arrived'
      /\ ForegroundPrefix(queue') /\ InOrderOfArrival(queue')
  BY <1>2, EmptyQueue DEF Arrived
<1> QED
  BY <1>1, <1>2, <1>3, <1>4, <1>5, <1>6 DEF GateInv, TypeOK, GateMode, GateHolds

LEMMA EmptiedKeeps ==
  ASSUME GateInv, Release \/ Clear PROVE GateInv'
<1>1. mode' = "absent" /\ count' = 0 /\ last' = NoSource
  BY DEF Release, Clear
<1>2. 0 \in 0..MaxSuppressed
  BY BoundsAssumption
<1>3. CASE Release
  <2>1. last \in WakeSource
    BY <1>3, CountFacts DEF Release, GateInv, GateHolds, TypeOK
  <2>2. Push(last)
    BY <1>3 DEF Release
  <2>3. /\ queue' \in Seq([source : WakeSource, msg : 1..arrived'])
        /\ arrived' \in 0..MaxArrivals
        /\ Arrived' /\ ForegroundPrefix(queue') /\ InOrderOfArrival(queue')
    BY <2>1, <2>2, PushKeeps
  <2> QED
    BY <1>1, <1>2, <2>3 DEF GateInv, TypeOK, GateMode, GateHolds
<1>4. CASE Clear
  BY <1>1, <1>2, <1>4, EmptyQueue DEF Clear, GateInv, TypeOK, GateMode, GateHolds, Arrived
<1> QED
  BY <1>3, <1>4

LEMMA NextGate == GateInv /\ [Next]_vars => GateInv'
<1> SUFFICES ASSUME GateInv, [Next]_vars PROVE GateInv'
  OBVIOUS
<1>1. CASE UNCHANGED vars
  BY <1>1 DEF vars, GateInv, TypeOK, GateHolds, Arrived, ForegroundPrefix, InOrderOfArrival
<1> QED
  BY <1>1, ArriveKeeps, TakeKeeps, PauseKeeps, EmptiedKeeps DEF Next

\* The gate entry and the queue keep their types, whatever arrives, is taken,
\* paused and released (slot_wake_gate.rs:42, 59, 128, 140; team_run.rs:383).
THEOREM GateTypeCorrect == Spec => []TypeOK
<1>1. GateInv => TypeOK
  BY DEF GateInv
<1> QED
  BY <1>1, InitGate, NextGate, PTL DEF Spec

\* A slot retains work exactly when the entry TeamRun keeps for it does, with
\* any number of suppressed wakes (has_retained_work).
THEOREM RetainedIsAgreed == Spec => []RetainedAgrees
<1>1. GateInv => RetainedAgrees
  <2> SUFFICES ASSUME GateInv PROVE RetainedAgrees
    OBVIOUS
  <2>1. count \in Nat /\ (count > 0 <=> last # NoSource)
    BY CountFacts DEF GateInv, GateHolds
  <2> QED
    BY <2>1 DEF RetainedAgrees, Retained, Paused, Entry
<1> QED
  BY <1>1, InitGate, NextGate, PTL DEF Spec

\* The user's wakes are ahead of all others and each class is in the order of
\* its arrival, for queues of any length (push_pending_wake_locked).
THEOREM QueueIsOrdered == Spec => []QueueOrder
<1>1. GateInv => QueueOrder
  BY OrderIsBoth DEF GateInv
<1> QED
  BY <1>1, InitGate, NextGate, PTL DEF Spec

-----------------------------------------------------------------------------
(* TeamWake describes the gate.                                            *)

LEMMA EntryIs ==
  ASSUME GateInv
  PROVE  /\ Entry.mode = mode /\ Entry.held = last
         /\ Entry = [mode |-> mode, held |-> last]
<1>1. count \in Nat /\ (count > 0 <=> last # NoSource)
  BY CountFacts DEF GateInv, GateHolds
<1> QED
  BY <1>1 DEF Entry

LEMMA ArriveFollows ==
  ASSUME GateInv, GateInv', NEW source \in WakeSource, Arrive(source)
  PROVE  /\ Entry' = BeforeWake(Entry, source)
         /\ arrived' # arrived <=> GateRecords(Entry, source)
<1>1. Entry = [mode |-> mode, held |-> last] /\ Entry' = [mode |-> mode', held |-> last']
  <2>1. Entry' = [mode |-> mode', held |-> last']
    <3>1. count' \in Nat /\ (count' > 0 <=> last' # NoSource)
      BY BoundsAssumption DEF GateInv, GateHolds, TypeOK
    <3> QED
      BY <3>1 DEF Entry
  <2> QED
    BY <2>1, EntryIs
<1>2. arrived \in Nat
  BY CountFacts DEF GateInv
<1>3. ResumesPausedSlot(source) => BypassesPause(source)
  BY SourceFacts
<1>4. CASE ResumesPausedSlot(source)
  BY <1>1, <1>2, <1>3, <1>4 DEF Arrive, Push, BeforeWake, GateRecords
<1>5. CASE ~ResumesPausedSlot(source) /\ (mode = "absent" \/ BypassesPause(source))
  BY <1>1, <1>2, <1>3, <1>5 DEF Arrive, Push, BeforeWake, GateRecords, gate
<1>6. CASE mode # "absent" /\ ~BypassesPause(source)
  BY <1>1, <1>2, <1>3, <1>6 DEF Arrive, BeforeWake, GateRecords
<1> QED
  BY <1>4, <1>5, <1>6

LEMMA PauseFollows ==
  ASSUME GateInv, GateInv', Pause
  PROVE  Entry' = AddSuppressed(PauseEntry(Entry), queue # <<>>)
<1>1. Entry = [mode |-> mode, held |-> last]
  BY EntryIs
<1>2. Entry' = [mode |-> "paused", held |-> last']
  <2>1. count' \in Nat /\ (count' > 0 <=> last' # NoSource)
    BY BoundsAssumption DEF GateInv, GateHolds, TypeOK
  <2> QED
    BY <2>1 DEF Entry, Pause
<1>3. PauseEntry(Entry) = [mode |-> "paused", held |-> last]
  BY <1>1 DEF PauseEntry
<1>4. mode = "absent" => last = NoSource
  BY CountFacts DEF GateInv, GateHolds
<1> QED
  BY <1>2, <1>3, <1>4 DEF Pause, AddSuppressed

LEMMA ReleaseFollows ==
  ASSUME GateInv, GateInv', Release
  PROVE  /\ Releasable(Entry) /\ Entry' = NoEntry
         /\ Last(queue').source = Entry.held
<1>1. Entry.mode = mode /\ Entry.held = last
  BY EntryIs
<1>2. mode = "resumed" /\ count > 0 /\ mode' = "absent" /\ count' = 0 /\ Push(last)
  BY DEF Release
<1>3. last \in WakeSource /\ last # NoSource /\ ~IsForegroundWake(last)
  BY <1>2, SourceFacts DEF GateInv, GateHolds, TypeOK
<1>4. queue'[Len(queue')].source = last
  BY <1>2, <1>3, PushKeeps
<1> QED
  BY <1>1, <1>2, <1>3, <1>4 DEF Releasable, Entry, NoEntry, Last

\* Every call changes the entry as the functions of TeamWake say, which TeamRun
\* is built from; what is released is the one wake that was held last (before_wake,
\* pause, add_suppressed, release_suppressed_if_resumed).
THEOREM TeamWakeDescribesGate == Spec => EntryFollowsGate
<1> DEFINE A ==
  /\ \A source \in WakeSource : Arrive(source) =>
        /\ Entry' = BeforeWake(Entry, source)
        /\ arrived' # arrived <=> GateRecords(Entry, source)
  /\ Pause => Entry' = AddSuppressed(PauseEntry(Entry), queue # <<>>)
  /\ Release => Releasable(Entry) /\ Entry' = NoEntry /\ Last(queue').source = Entry.held
<1>1. GateInv /\ GateInv' => A
  BY ArriveFollows, PauseFollows, ReleaseFollows
<1> HIDE DEF A
<1>2. GateInv /\ [Next]_vars => [A]_vars
  BY <1>1, NextGate
<1>3. Spec => [][A]_vars
  BY <1>2, InitGate, NextGate, PTL DEF Spec
<1> QED
  BY <1>3 DEF A, EntryFollowsGate

-----------------------------------------------------------------------------
(* PushWake is the insertion of the code.                                  *)

\* A set of numbers has a least one: < is well founded.
LEMMA LeastNatural ==
  ASSUME NEW T \in SUBSET Nat, T # {}
  PROVE  /\ Min(T) \in T
         /\ \A y \in T : Min(T) <= y
<1> DEFINE R == OpToRel(<, Nat)
<1>0. R = {p \in Nat \X Nat : p[1] < p[2]}
  BY DEF OpToRel
<1>1. IsWellFoundedOn(R, Nat)
  BY NatLessThanWellFounded
<1> HIDE DEF R
<1>2. \E x \in T : \A y \in T : ~(<<y, x>> \in R)
  BY <1>1, WFMin
<1>3. \E x \in T : \A y \in T : x <= y
  <2>1. PICK x \in T : \A y \in T : ~(<<y, x>> \in R)
    BY <1>2
  <2>2. \A y \in T : x <= y
    <3> TAKE y \in T
    <3>1. x \in Nat /\ y \in Nat /\ <<y, x>> \in Nat \X Nat /\ <<y, x>>[1] = y /\ <<y, x>>[2] = x
      OBVIOUS
    <3>2. ~(y < x)
      BY <1>0, <2>1, <3>1
    <3> QED
      BY <3>1, <3>2
  <2> QED
    BY <2>2
<1> QED
  BY <1>3 DEF Min

\* InsertAt, position by position.
LEMMA InsertAtIs ==
  ASSUME NEW W, NEW q \in Seq(W), NEW e \in W, NEW n \in 1..Len(q) + 1
  PROVE  InsertAt(q, n, e) = [i \in 1..Len(q) + 1 |->
            IF i < n THEN q[i] ELSE IF i = n THEN e ELSE q[i - 1]]
<1> DEFINE before == SubSeq(q, 1, n - 1)
           after == SubSeq(q, n, Len(q))
           left == before \o <<e>>
<1>0. Len(q) \in Nat /\ n \in Nat
  OBVIOUS
<1>1. before \in Seq(W) /\ Len(before) = n - 1 /\ \A i \in 1..n - 1 : before[i] = q[i]
  OBVIOUS
<1>2. after \in Seq(W) /\ Len(after) = Len(q) - n + 1
      /\ \A i \in 1..Len(q) - n + 1 : after[i] = q[n + i - 1]
  OBVIOUS
<1> HIDE DEF before, after
<1>3. left \in Seq(W) /\ Len(left) = n /\ \A i \in 1..n : left[i] = IF i < n THEN q[i] ELSE e
  BY <1>0, <1>1
<1> HIDE DEF left
<1>4. left \o after \in Seq(W) /\ Len(left \o after) = Len(q) + 1
      /\ \A i \in 1..Len(q) + 1 : (left \o after)[i] = IF i <= n THEN left[i] ELSE after[i - n]
  <2>1. left \o after \in Seq(W) /\ Len(left \o after) = Len(left) + Len(after)
    BY <1>2, <1>3, ConcatProperties
  <2>2. n + (Len(q) - n + 1) = Len(q) + 1
    BY <1>0
  <2>3. \A i \in 1..Len(left) + Len(after) :
          (left \o after)[i] = IF i <= Len(left) THEN left[i] ELSE after[i - Len(left)]
    BY <1>2, <1>3, ConcatProperties
  <2>4. Len(left) = n /\ Len(left) + Len(after) = Len(q) + 1
    BY <1>2, <1>3, <2>2
  <2>5. \A i \in 1..Len(q) + 1 : (left \o after)[i] = IF i <= n THEN left[i] ELSE after[i - n]
    BY <2>3, <2>4
  <2> QED
    BY <2>1, <2>4, <2>5
<1>5. InsertAt(q, n, e) = left \o after
  BY DEF InsertAt, left, before, after
<1>6. \A i \in 1..Len(q) + 1 : (left \o after)[i] =
        IF i < n THEN q[i] ELSE IF i = n THEN e ELSE q[i - 1]
  <2> TAKE i \in 1..Len(q) + 1
  <2>1. CASE i <= n
    BY <1>0, <1>3, <1>4, <2>1
  <2>2. CASE i > n
    <3>1. i - n \in 1..Len(q) - n + 1 /\ n + (i - n) - 1 = i - 1
      BY <1>0, <2>2
    <3> QED
      BY <1>0, <1>2, <1>4, <2>2, <3>1
  <2>3. i \in Nat /\ (i <= n \/ i > n)
    BY <1>0
  <2> QED
    BY <2>1, <2>2, <2>3
<1>7. left \o after = [i \in 1..Len(left \o after) |-> (left \o after)[i]]
  <2> DEFINE both == left \o after
  <2>1. both \in Seq(W)
    BY <1>4
  <2> HIDE DEF both
  <2>2. both = [i \in 1..Len(both) |-> both[i]]
    BY <2>1
  <2> QED
    BY <2>2 DEF both
<1> QED
  BY <1>4, <1>5, <1>6, <1>7

LEMMA PushInserts == TypeOK => PushIsInsert
<1> SUFFICES ASSUME TypeOK, NEW source \in WakeSource
             PROVE  LET wake == [source |-> source, msg |-> NoMsg] IN
                    PushWake(queue, wake) =
                      IF IsForegroundWake(source)
                      THEN InsertAt(queue, InsertPosition, wake) ELSE Append(queue, wake)
  BY DEF PushIsInsert
<1> DEFINE wake == [source |-> source, msg |-> NoMsg]
           n == InsertPosition
           background == {i \in DOMAIN queue : ~IsForegroundWake(queue[i].source)}
           W == PendingWake \cup {wake}
<1>1. queue \in Seq(W) /\ wake \in W /\ Len(queue) \in Nat /\ DOMAIN queue = 1..Len(queue)
  <2>1. queue \in Seq(PendingWake) /\ PendingWake \subseteq W /\ wake \in W
    BY DEF TypeOK, PendingWake
  <2> HIDE DEF W, wake
  <2>2. queue \in Seq(W)
    BY <2>1, SeqMonotonic
  <2> QED
    BY <2>1, <2>2
<1>2. CASE ~IsForegroundWake(source)
  BY <1>2 DEF PushWake
<1>3. CASE IsForegroundWake(source)
  <2>1. /\ n \in 1..Len(queue) + 1
        /\ \A i \in 1..Len(queue) : i < n => IsForegroundWake(queue[i].source)
        /\ n \in 1..Len(queue) => ~IsForegroundWake(queue[n].source)
    <3>1. CASE background = {}
      BY <1>1, <3>1 DEF InsertPosition
    <3>2. CASE background # {}
      <4>1. n = Min(background) /\ background \in SUBSET Nat
        BY <1>1, <3>2 DEF InsertPosition
      <4>2. n \in background /\ \A i \in background : n <= i
        BY <3>2, <4>1, LeastNatural
      <4> QED
        BY <1>1, <4>2
    <3> QED
      BY <3>1, <3>2
  <2> HIDE DEF n, background
  <2>2. ASSUME NEW i \in 0..Len(queue) + 1 PROVE AllForeground(queue, i) <=> i < n
    <3>1. CASE i < n
      BY <1>1, <2>1, <3>1 DEF AllForeground
    <3>2. CASE n <= i
      <4>1. CASE n = Len(queue) + 1
        BY <1>1, <3>2, <4>1 DEF AllForeground
      <4>2. CASE n \in 1..Len(queue)
        BY <1>1, <2>1, <3>2, <4>2 DEF AllForeground
      <4> QED
        BY <1>1, <2>1, <4>1, <4>2
    <3> QED
      BY <1>1, <2>1, <3>1, <3>2
  <2>3. PushWake(queue, wake) = [i \in 1..Len(queue) + 1 |->
          IF AllForeground(queue, i) THEN queue[i]
          ELSE IF AllForeground(queue, i - 1) THEN wake ELSE queue[i - 1]]
    BY <1>3 DEF PushWake
  <2>4. ASSUME NEW i \in 1..Len(queue) + 1
        PROVE  /\ AllForeground(queue, i) <=> i < n
               /\ ~(i < n) => (AllForeground(queue, i - 1) <=> i = n)
    <3>1. i - 1 \in 0..Len(queue) + 1 /\ i \in 0..Len(queue) + 1
      BY <1>1
    <3>2. AllForeground(queue, i - 1) <=> i - 1 < n
      BY <2>2, <3>1
    <3> QED
      BY <1>1, <2>1, <2>2, <3>1, <3>2
  <2>5. PushWake(queue, wake) = [i \in 1..Len(queue) + 1 |->
          IF i < n THEN queue[i] ELSE IF i = n THEN wake ELSE queue[i - 1]]
    BY <2>3, <2>4
  <2> HIDE DEF wake, W
  <2>6. InsertAt(queue, n, wake) = [i \in 1..Len(queue) + 1 |->
          IF i < n THEN queue[i] ELSE IF i = n THEN wake ELSE queue[i - 1]]
    BY <1>1, <2>1, InsertAtIs
  <2> QED
    BY <1>3, <2>5, <2>6 DEF n, wake
<1> QED
  BY <1>2, <1>3

\* PushWake is the insertion in front of the first wake that is not the user's,
\* at the end if there is none (PushIsInsert, about team_run.rs:397).
THEOREM PushIsTheInsertion == Spec => []PushIsInsert
  BY GateTypeCorrect, PushInserts, PTL

=============================================================================
