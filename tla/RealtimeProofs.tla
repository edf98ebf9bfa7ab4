--------------------------- MODULE RealtimeProofs ---------------------------
(***************************************************************************)
(* Proofs about Realtime, for any connections, queues, buses and timeouts: *)
(* types, registration, and the order of events.                           *)
(***************************************************************************)
EXTENDS Realtime, TLAPS

-----------------------------------------------------------------------------
(* Sequences.                                                              *)

LEMMA TailFacts ==
  ASSUME NEW S, NEW s \in Seq(S), s # <<>>
  PROVE  /\ Tail(s) \in Seq(S) /\ Len(Tail(s)) = Len(s) - 1
         /\ Head(s) = s[1] /\ Head(s) \in S
         /\ \A i \in DOMAIN Tail(s) : i + 1 \in DOMAIN s /\ Tail(s)[i] = s[i + 1]
<1>1. Len(s) \in Nat \ {0} /\ DOMAIN s = 1..Len(s)
  OBVIOUS
<1>2. Tail(s) \in Seq(S) /\ Len(Tail(s)) = Len(s) - 1
  BY <1>1
<1>3. \A i \in 1..(Len(s) - 1) : Tail(s)[i] = s[i + 1]
  BY <1>1
<1>4. 1 \in DOMAIN s /\ Head(s) = s[1]
  BY <1>1
<1>5. \A i \in DOMAIN s : s[i] \in S
  BY <1>1
<1> QED
  BY <1>1, <1>2, <1>3, <1>4, <1>5

LEMMA ElementFacts ==
  ASSUME NEW S, NEW s \in Seq(S)
  PROVE  Len(s) \in Nat /\ DOMAIN s = 1..Len(s) /\ \A i \in DOMAIN s : s[i] \in S
OBVIOUS

LEMMA AppendFacts ==
  ASSUME NEW S, NEW s \in Seq(S), NEW e \in S
  PROVE  /\ Append(s, e) \in Seq(S) /\ Len(Append(s, e)) = Len(s) + 1
         /\ DOMAIN s = 1..Len(s) /\ DOMAIN Append(s, e) = 1..(Len(s) + 1)
         /\ \A i \in DOMAIN s : Append(s, e)[i] = s[i]
         /\ Append(s, e)[Len(s) + 1] = e
OBVIOUS

-----------------------------------------------------------------------------
(* Types.                                                                  *)

LEMMA FramesAreFrames ==
  /\ \A n \in 0..MaxEvents : Event(n) \in Frame
  /\ Ping \in Frame /\ Reply \in Frame /\ Notice \in Frame
BY RealtimeAssumption DEF Event, Ping, Reply, Notice, Frame

\* What try_send leaves is a queue within its bound.
LEMMA TrySendFits ==
  ASSUME TypeOK, NEW c \in Conns, NEW frame \in Frame
  PROVE  TrySend(c, frame) \in Seq(Frame) /\ Len(TrySend(c, frame)) <= Buffer
<1>1. queue[c] \in Seq(Frame) /\ Len(queue[c]) <= Buffer /\ Len(queue[c]) \in Nat
  BY DEF TypeOK
<1>2. CASE CanSend(c)
  <2>1. Len(queue[c]) + 1 <= Buffer
    BY <1>1, <1>2, RealtimeAssumption DEF CanSend, Full
  <2> QED
    BY <1>1, <1>2, <2>1, AppendFacts DEF TrySend
<1> QED
  BY <1>1, <1>2 DEF TrySend

LEMMA InitTypes == Init => TypeOK
<1> SUFFICES ASSUME Init PROVE TypeOK
  OBVIOUS
<1>1. <<>> \in Seq(1..MaxEvents) /\ <<>> \in Seq(Frame) /\ Len(<<>>) = 0
  OBVIOUS
<1>2. 0 \in 0..MaxEvents /\ 0 \in 0..TimeoutTicks /\ 0 <= BusCapacity /\ 0 <= Buffer
  BY RealtimeAssumption
<1> QED
  BY <1>1, <1>2 DEF Init, TypeOK, Waiting

LEMMA BusTypes ==
  ASSUME TypeOK, Publish \/ BridgeForwards \/ BridgeStops
  PROVE  TypeOK'
<1> USE DEF loopVars
<1>0. /\ bus \in Seq(1..MaxEvents) /\ Len(bus) <= BusCapacity /\ Len(bus) \in Nat
      /\ published \in 0..MaxEvents
  BY DEF TypeOK
<1>1. CASE Publish
  <2> DEFINE e == published + 1
  <2>1. e \in 1..MaxEvents /\ e \in 0..MaxEvents
    BY <1>0, <1>1, RealtimeAssumption DEF Publish
  <2>2. Overwrite(e) \in Seq(1..MaxEvents) /\ Len(Overwrite(e)) <= BusCapacity
    <3>1. CASE Len(bus) < BusCapacity
      BY <1>0, <2>1, <3>1, AppendFacts, RealtimeAssumption DEF Overwrite
    <3>2. CASE ~(Len(bus) < BusCapacity)
      <4>1. bus # <<>>
        BY <1>0, <3>2, RealtimeAssumption
      <4>2. Tail(bus) \in Seq(1..MaxEvents) /\ Len(Tail(bus)) = Len(bus) - 1
        BY <1>0, <4>1, TailFacts
      <4>3. Append(Tail(bus), e) \in Seq(1..MaxEvents) /\ Len(Append(Tail(bus), e)) = Len(bus)
        BY <1>0, <2>1, <4>2, AppendFacts
      <4> QED
        BY <1>0, <3>2, <4>3 DEF Overwrite
    <3> QED
      BY <3>1, <3>2
  <2>3. published' = e /\ bus' \in {Overwrite(e), bus}
    BY <1>1 DEF Publish
  <2>4. lagged' \in BOOLEAN
    BY <1>1 DEF Publish, TypeOK
  <2> HIDE DEF e
  <2> QED
    BY <1>0, <1>1, <2>1, <2>2, <2>3, <2>4 DEF Publish, TypeOK
<1>2. CASE BridgeForwards
  <2>1. Head(bus) \in 1..MaxEvents /\ Tail(bus) \in Seq(1..MaxEvents) /\ Len(Tail(bus)) = Len(bus) - 1
    BY <1>0, <1>2, TailFacts DEF BridgeForwards
  <2>2. Event(Head(bus)) \in Frame
    BY <2>1, FramesAreFrames
  <2>3. \A c \in Conns : TrySend(c, Event(Head(bus))) \in Seq(Frame) /\ Len(TrySend(c, Event(Head(bus)))) <= Buffer
    BY <2>2, TrySendFits
  <2>4. queue' = [c \in Conns |-> IF c \in connections THEN TrySend(c, Event(Head(bus))) ELSE queue[c]]
    BY <1>2 DEF BridgeForwards, BroadcastAll
  <2>5. queue' \in [Conns -> Seq(Frame)] /\ \A c \in Conns : Len(queue'[c]) <= Buffer
    BY <2>3, <2>4 DEF TypeOK
  <2>6. bus' = Tail(bus) /\ connections' \subseteq Conns /\ Len(bus') <= BusCapacity
    BY <1>0, <1>2, <2>1, RealtimeAssumption DEF BridgeForwards, TypeOK
  <2> QED
    BY <1>0, <1>2, <2>1, <2>5, <2>6 DEF BridgeForwards, TypeOK
<1>3. CASE BridgeStops
  <2>1. bus' = <<>> /\ <<>> \in Seq(1..MaxEvents) /\ Len(<<>>) <= BusCapacity
    BY <1>3, RealtimeAssumption DEF BridgeStops
  <2> QED
    BY <1>0, <1>3, <2>1 DEF BridgeStops, TypeOK
<1> QED
  BY <1>1, <1>2, <1>3

LEMMA ConnectionTypes ==
  ASSUME TypeOK, NEW c \in Conns, Connection(c)
  PROVE  TypeOK'
<1> USE DEF loopVars, busVars, TypeOK
<1>0. <<>> \in Seq(Frame) /\ Len(<<>>) <= Buffer /\ 0 \in 0..MaxEvents /\ 0 \in 0..TimeoutTicks
  BY RealtimeAssumption
<1>1. CASE Connect(c)
  BY <1>0, <1>1 DEF Connect
<1>2. CASE Refuse(c)
  BY <1>2 DEF Refuse
<1>3. CASE SendFrame(c)
  <2>1. /\ Head(queue[c]) \in Frame /\ Tail(queue[c]) \in Seq(Frame)
        /\ Len(Tail(queue[c])) = Len(queue[c]) - 1
    BY <1>3, TailFacts DEF SendFrame
  <2>2. Len(queue[c]) \in Nat /\ Len(Tail(queue[c])) <= Buffer
    BY <2>1, RealtimeAssumption
  <2>3. Head(queue[c]).n \in 0..MaxEvents
    BY <2>1 DEF Frame
  <2>4. queue' \in [Conns -> Seq(Frame)] /\ \A d \in Conns : Len(queue'[d]) <= Buffer
    BY <1>3, <2>1, <2>2 DEF SendFrame
  <2>5. seen' \in [Conns -> 0..MaxEvents]
    BY <1>3, <2>3 DEF SendFrame
  <2> QED
    BY <1>3, <2>4, <2>5 DEF SendFrame
<1>4. CASE SenderExits(c)
  BY <1>0, <1>4 DEF SenderExits
<1>5. CASE Pong(c)
  BY <1>0, <1>5 DEF Pong
<1>6. CASE ClientText(c)
  <2>1. TrySend(c, Reply) \in Seq(Frame) /\ Len(TrySend(c, Reply)) <= Buffer
    BY TrySendFits, FramesAreFrames
  <2>2. queue' \in [Conns -> Seq(Frame)] /\ \A d \in Conns : Len(queue'[d]) <= Buffer
    BY <1>6, <2>1 DEF ClientText
  <2>3. connections' \subseteq Conns
    BY <1>6 DEF ClientText
  <2> QED
    BY <1>6, <2>2, <2>3 DEF ClientText
<1>7. CASE ReceiverExits(c)
  BY <1>0, <1>7 DEF ReceiverExits
<1>8. CASE HandlerEnds(c)
  BY <1>8 DEF HandlerEnds
<1>9. CASE TokenExpires(c)
  BY <1>9 DEF TokenExpires
<1>10. CASE Vanishes(c)
  BY <1>10 DEF Vanishes
<1> QED
  BY <1>1, <1>2, <1>3, <1>4, <1>5, <1>6, <1>7, <1>8, <1>9, <1>10 DEF Connection

LEMMA HeartbeatTypes ==
  ASSUME TypeOK, HeartbeatVisits \/ HeartbeatRemoves
  PROVE  TypeOK'
<1> USE DEF loopVars, busVars
<1>1. CASE HeartbeatVisits
  <2>1. \A c \in Conns : \A f \in {Ping, Notice} : TrySend(c, f) \in Seq(Frame) /\ Len(TrySend(c, f)) <= Buffer
    BY TrySendFits, FramesAreFrames
  <2>2. queue' = [c \in Conns |->
                 IF c \notin connections THEN queue[c]
                 ELSE TrySend(c, IF TimedOut(c) \/ ~valid[c] THEN Notice ELSE Ping)]
    BY <1>1 DEF HeartbeatVisits
  <2>3. queue' \in [Conns -> Seq(Frame)] /\ \A c \in Conns : Len(queue'[c]) <= Buffer
    BY <2>1, <2>2 DEF TypeOK
  <2>4. silent' \in [Conns -> 0..TimeoutTicks]
    BY <1>1, RealtimeAssumption DEF HeartbeatVisits, TimedOut, TypeOK
  <2>5. beat' \in [visited : BOOLEAN, remove : SUBSET Conns]
    BY <1>1 DEF HeartbeatVisits, TypeOK
  <2> QED
    BY <1>1, <2>3, <2>4, <2>5 DEF HeartbeatVisits, TypeOK
<1>2. CASE HeartbeatRemoves
  BY <1>2 DEF HeartbeatRemoves, TypeOK, Waiting
<1> QED
  BY <1>1, <1>2

LEMMA StepTypes == TypeOK /\ [Next]_vars => TypeOK'
<1> SUFFICES ASSUME TypeOK, [Next]_vars PROVE TypeOK'
  OBVIOUS
<1>1. CASE UNCHANGED vars
  BY <1>1 DEF vars, busVars, loopVars, TypeOK
<1>2. CASE Publish \/ BridgeForwards \/ BridgeStops
  BY <1>2, BusTypes
<1>3. CASE HeartbeatVisits \/ HeartbeatRemoves
  BY <1>3, HeartbeatTypes
<1>4. CASE \E c \in Conns : Connection(c)
  BY <1>4, ConnectionTypes
<1> QED
  BY <1>1, <1>2, <1>3, <1>4 DEF Next

\* Every reachable state is well typed, for any constants; no queue is longer
\* than PER_CONNECTION_BUFFER and the bus no longer than its capacity.
THEOREM RealtimeTypeCorrect == Spec => []TypeOK
BY InitTypes, StepTypes, PTL DEF Spec

-----------------------------------------------------------------------------
(* Registration.                                                           *)

\* Only the handler of a connection puts it into the map, and takes it out at
\* its end at the latest.
Registered == \A c \in connections : handler[c] \in {"receiving", "leaving"}

LEMMA StepRegistered == TypeOK /\ Registered /\ [Next]_vars => Registered'
<1> SUFFICES ASSUME TypeOK, Registered, [Next]_vars PROVE Registered'
  OBVIOUS
<1> USE DEF loopVars, busVars, Registered, TypeOK
<1>1. CASE UNCHANGED vars
  BY <1>1 DEF vars
<1>2. CASE Publish \/ BridgeForwards \/ BridgeStops
  BY <1>2 DEF Publish, BridgeForwards, BridgeStops
<1>3. CASE HeartbeatVisits \/ HeartbeatRemoves
  BY <1>3 DEF HeartbeatVisits, HeartbeatRemoves
<1>4. ASSUME NEW c \in Conns, Connection(c) PROVE Registered'
  <2>1. CASE Connect(c)
    BY <2>1 DEF Connect
  <2>2. CASE Refuse(c)
    BY <2>2 DEF Refuse
  <2>3. CASE ReceiverExits(c)
    BY <2>3 DEF ReceiverExits
  <2>4. CASE HandlerEnds(c)
    BY <2>4 DEF HandlerEnds
  <2>5. CASE ClientText(c)
    BY <2>5 DEF ClientText
  <2>6. CASE SendFrame(c) \/ SenderExits(c) \/ Pong(c) \/ TokenExpires(c) \/ Vanishes(c)
    BY <2>6 DEF SendFrame, SenderExits, Pong, TokenExpires, Vanishes
  <2> QED
    BY <1>4, <2>1, <2>2, <2>3, <2>4, <2>5, <2>6 DEF Connection
<1> QED
  BY <1>1, <1>2, <1>3, <1>4 DEF Next

\* When handle_socket has ended the manager has no entry for the connection,
\* whatever client, heartbeat and broadcasts have done before.
THEOREM GoneIsForgotten == Spec => []GoneIsUnregistered
<1>1. Init => Registered
  BY DEF Init, Registered
<1>2. Registered => GoneIsUnregistered
  BY DEF Registered, GoneIsUnregistered
<1> QED
  BY <1>1, <1>2, StepRegistered, RealtimeTypeCorrect, PTL DEF Spec

-----------------------------------------------------------------------------
(* The order of events.                                                    *)

\* Events in a queue come after event n, and in order; or all before event n.
Ordered(q, n) ==
  \A i \in DOMAIN q : q[i].kind = "event" =>
    /\ n < q[i].n
    /\ \A k \in 1..(i - 1) : q[k].kind = "event" => q[k].n < q[i].n
Below(q, n) == \A i \in DOMAIN q : q[i].kind = "event" => q[i].n < n

\* What is still to come through the bus is newer than all that has passed it.
Upcoming == {bus[j] : j \in DOMAIN bus} \cup {published + 1}
Behind == \A c \in Conns : \A e \in Upcoming : seen[c] < e /\ Below(queue[c], e)
BusInOrder ==
  /\ \A i \in DOMAIN bus : bus[i] <= published
  /\ \A k, i \in DOMAIN bus : k < i => bus[k] < bus[i]

InOrder == EventsInOrder /\ Behind /\ BusInOrder

LEMMA QueuesOrdered == EventsInOrder <=> \A c \in Conns : Ordered(queue[c], seen[c])
BY DEF EventsInOrder, Ordered

LEMMA AppendOrdered ==
  ASSUME NEW q \in Seq(Frame), NEW n \in Nat, NEW f \in Frame, Ordered(q, n),
         f.kind = "event" => n < f.n /\ Below(q, f.n)
  PROVE  Ordered(Append(q, f), n)
<1> DEFINE r == Append(q, f)
<1>1. /\ DOMAIN q = 1..Len(q) /\ DOMAIN r = 1..(Len(q) + 1) /\ Len(q) \in Nat
      /\ \A i \in DOMAIN q : r[i] = q[i]
      /\ r[Len(q) + 1] = f
  BY AppendFacts
<1> HIDE DEF r
<1>2. SUFFICES ASSUME NEW i \in DOMAIN r, r[i].kind = "event"
               PROVE  n < r[i].n /\ \A k \in 1..(i - 1) : r[k].kind = "event" => r[k].n < r[i].n
  BY DEF Ordered, r
<1>3. CASE i \in DOMAIN q
  <2>1. \A k \in 1..(i - 1) : k \in DOMAIN q
    BY <1>1, <1>3
  <2> QED
    BY <1>1, <1>2, <1>3, <2>1 DEF Ordered
<1>4. CASE i = Len(q) + 1
  <2>1. \A k \in 1..(i - 1) : k \in DOMAIN q
    BY <1>1, <1>4
  <2> QED
    BY <1>1, <1>2, <1>4, <2>1 DEF Below
<1> QED
  BY <1>1, <1>2, <1>3, <1>4

LEMMA AppendBelow ==
  ASSUME NEW q \in Seq(Frame), NEW f \in Frame, NEW e, Below(q, e), f.kind = "event" => f.n < e
  PROVE  Below(Append(q, f), e)
<1>1. /\ DOMAIN q = 1..Len(q) /\ DOMAIN Append(q, f) = 1..(Len(q) + 1) /\ Len(q) \in Nat
      /\ \A i \in DOMAIN q : Append(q, f)[i] = q[i]
      /\ Append(q, f)[Len(q) + 1] = f
  BY AppendFacts
<1> QED
  BY <1>1 DEF Below

LEMMA TailOrdered ==
  ASSUME NEW q \in Seq(Frame), NEW n, q # <<>>, Ordered(q, n),
         NEW m \in {n} \cup (IF Head(q).kind = "event" THEN {Head(q).n} ELSE {})
  PROVE  Ordered(Tail(q), m) /\ \A e : Below(q, e) => Below(Tail(q), e)
<1>1. /\ \A i \in DOMAIN Tail(q) : i + 1 \in DOMAIN q /\ Tail(q)[i] = q[i + 1]
      /\ Head(q) = q[1] /\ DOMAIN Tail(q) \subseteq Nat \ {0} /\ DOMAIN q = 1..Len(q)
      /\ DOMAIN Tail(q) = 1..(Len(q) - 1) /\ Len(q) \in Nat
  BY TailFacts
<1>2. ASSUME NEW i \in DOMAIN Tail(q), Tail(q)[i].kind = "event"
      PROVE  m < Tail(q)[i].n /\ \A k \in 1..(i - 1) : Tail(q)[k].kind = "event" => Tail(q)[k].n < Tail(q)[i].n
  <2>1. q[i + 1].kind = "event" /\ i + 1 \in DOMAIN q /\ 1 \in 1..((i + 1) - 1) /\ Tail(q)[i] = q[i + 1]
    BY <1>1, <1>2
  <2>2. n < q[i + 1].n /\ \A k \in 1..((i + 1) - 1) : q[k].kind = "event" => q[k].n < q[i + 1].n
    BY <2>1 DEF Ordered
  <2>3. m < Tail(q)[i].n
    BY <1>1, <2>1, <2>2
  <2>4. \A k \in 1..(i - 1) : k \in DOMAIN Tail(q) /\ k + 1 \in 1..((i + 1) - 1)
    BY <1>1, <1>2
  <2> QED
    BY <1>1, <2>1, <2>2, <2>3, <2>4
<1>3. \A e : Below(q, e) => Below(Tail(q), e)
  BY <1>1 DEF Below
<1> QED
  BY <1>2, <1>3 DEF Ordered

\* try_send of anything but an event, or of an event newer than the queue.
LEMMA TrySendOrdered ==
  ASSUME TypeOK, NEW c \in Conns, NEW f \in Frame, Ordered(queue[c], seen[c]),
         f.kind = "event" => seen[c] < f.n /\ Below(queue[c], f.n)
  PROVE  /\ Ordered(TrySend(c, f), seen[c])
         /\ \A e : Below(queue[c], e) /\ (f.kind = "event" => f.n < e) => Below(TrySend(c, f), e)
<1>1. queue[c] \in Seq(Frame) /\ seen[c] \in Nat
  BY DEF TypeOK
<1> QED
  BY <1>1, AppendOrdered, AppendBelow DEF TrySend

LEMMA FrameNumbers ==
  ASSUME TypeOK, NEW c \in Conns
  PROVE  \A i \in DOMAIN queue[c] : queue[c][i] \in Frame /\ queue[c][i].n \in Nat
<1>1. queue[c] \in Seq(Frame)
  BY DEF TypeOK
<1>2. \A f \in Frame : f.n \in Nat
  BY RealtimeAssumption DEF Frame
<1> QED
  BY <1>1, <1>2, ElementFacts

LEMMA NoEvents == Ping.kind # "event" /\ Reply.kind # "event" /\ Notice.kind # "event"
BY DEF Ping, Reply, Notice

LEMMA BusOrdered ==
  ASSUME TypeOK, InOrder, Publish \/ BridgeForwards \/ BridgeStops
  PROVE  InOrder'
<1> USE DEF loopVars
<1>0. /\ bus \in Seq(1..MaxEvents) /\ Len(bus) \in Nat /\ DOMAIN bus = 1..Len(bus)
      /\ published \in Nat /\ \A i \in DOMAIN bus : bus[i] \in 1..MaxEvents /\ bus[i] \in Nat
  <2>1. bus \in Seq(1..MaxEvents) /\ published \in Nat
    BY DEF TypeOK
  <2>2. \A n \in 1..MaxEvents : n \in Nat
    OBVIOUS
  <2> QED
    BY <2>1, <2>2, ElementFacts
<1>1. CASE Publish
  <2> DEFINE e == published + 1
  <2>1. published' = e /\ e \in 1..MaxEvents
    <3>1. published < MaxEvents /\ published' = published + 1
      BY <1>1 DEF Publish
    <3> QED
      BY <1>0, <3>1, RealtimeAssumption
  <2>2. (\A i \in DOMAIN bus' : bus'[i] <= e /\ bus'[i] \in Upcoming)
        /\ (\A k, i \in DOMAIN bus' : k < i => bus'[k] < bus'[i])
    <3>1. CASE bus' = bus
      BY <1>0, <3>1 DEF InOrder, BusInOrder, Upcoming
    <3>2. CASE bus' = Append(bus, e)
      <4>1. /\ DOMAIN bus' = 1..(Len(bus) + 1) /\ bus'[Len(bus) + 1] = e
            /\ \A i \in DOMAIN bus : bus'[i] = bus[i]
        BY <1>0, <2>1, <3>2, AppendFacts
      <4> QED
        BY <1>0, <4>1 DEF InOrder, BusInOrder, Upcoming
    <3>3. CASE bus' = Append(Tail(bus), e) /\ bus # <<>>
      <4>1. /\ Tail(bus) \in Seq(1..MaxEvents) /\ Len(Tail(bus)) = Len(bus) - 1
            /\ \A i \in DOMAIN Tail(bus) : i + 1 \in DOMAIN bus /\ Tail(bus)[i] = bus[i + 1]
        BY <1>0, <3>3, TailFacts
      <4>2. /\ DOMAIN bus' = 1..Len(bus) /\ bus'[Len(bus)] = e
            /\ \A i \in 1..(Len(bus) - 1) : bus'[i] = bus[i + 1] /\ i + 1 \in DOMAIN bus
        BY <1>0, <2>1, <3>3, <4>1, AppendFacts
      <4>3. \A i \in DOMAIN bus' : i = Len(bus) \/ i \in 1..(Len(bus) - 1)
        BY <1>0, <4>2
      <4>4. \A i \in DOMAIN bus' : bus'[i] <= e /\ bus'[i] \in Upcoming
        <5>1. \A i \in DOMAIN bus : bus[i] <= e /\ bus[i] \in Upcoming
          BY <1>0 DEF InOrder, BusInOrder, Upcoming
        <5>2. e \in Upcoming /\ e <= e
          BY <1>0 DEF Upcoming
        <5> QED
          BY <4>2, <4>3, <5>1, <5>2
      <4>5. ASSUME NEW k \in DOMAIN bus', NEW i \in DOMAIN bus', k < i PROVE bus'[k] < bus'[i]
        <5>1. k \in 1..(Len(bus) - 1) /\ k + 1 < i + 1 /\ k + 1 \in DOMAIN bus /\ bus'[k] = bus[k + 1]
          BY <1>0, <4>2, <4>3, <4>5
        <5>2. CASE i = Len(bus)
          BY <1>0, <4>2, <5>1, <5>2 DEF InOrder, BusInOrder
        <5>3. CASE i \in 1..(Len(bus) - 1)
          BY <1>0, <4>2, <5>1, <5>3 DEF InOrder, BusInOrder
        <5> QED
          BY <4>3, <5>2, <5>3
      <4> QED
        BY <4>4, <4>5
    <3>4. Len(bus) = BusCapacity => bus # <<>>
      BY RealtimeAssumption
    <3>5. ~(Len(bus) < BusCapacity) => bus # <<>>
      BY <1>0, RealtimeAssumption
    <3> QED
      BY <1>1, <3>1, <3>2, <3>3, <3>5 DEF Publish, Overwrite
  <2>3. \A f \in Upcoming' : f \in Upcoming \/ (f \in Nat /\ e < f /\ e \in Upcoming)
    BY <1>0, <2>1, <2>2 DEF Upcoming
  <2>4. UNCHANGED <<queue, seen>>
    BY <1>1 DEF Publish
  <2>5. ASSUME NEW c \in Conns, NEW f \in Upcoming'
        PROVE  seen'[c] < f /\ Below(queue'[c], f)
    <3>1. CASE f \in Upcoming
      BY <2>4, <3>1 DEF InOrder, Behind
    <3>2. CASE f \in Nat /\ e < f /\ e \in Upcoming
      <4>1. seen[c] < e /\ Below(queue[c], e) /\ seen[c] \in Nat
        BY <3>2 DEF InOrder, Behind, TypeOK
      <4>2. \A i \in DOMAIN queue[c] : queue[c][i].n \in Nat
        BY FrameNumbers
      <4>3. Below(queue[c], f)
        BY <1>0, <3>2, <4>1, <4>2 DEF Below
      <4> QED
        BY <1>0, <2>4, <3>2, <4>1, <4>3
    <3> QED
      BY <2>3, <3>1, <3>2
  <2>6. EventsInOrder'
    BY <2>4 DEF InOrder, EventsInOrder
  <2> QED
    BY <2>1, <2>2, <2>5, <2>6 DEF InOrder, Behind, BusInOrder
<1>2. CASE BridgeForwards
  <2> DEFINE e == Head(bus)
  <2>1. /\ bus' = Tail(bus) /\ published' = published /\ seen' = seen /\ bus # <<>>
        /\ queue' = [c \in Conns |-> IF c \in connections THEN TrySend(c, Event(e)) ELSE queue[c]]
    BY <1>2 DEF BridgeForwards, BroadcastAll
  <2>2. /\ Head(bus) = bus[1] /\ Head(bus) \in 1..MaxEvents /\ 1 \in DOMAIN bus
        /\ Tail(bus) \in Seq(1..MaxEvents) /\ Len(Tail(bus)) = Len(bus) - 1
        /\ \A i \in DOMAIN Tail(bus) : i + 1 \in DOMAIN bus /\ Tail(bus)[i] = bus[i + 1]
        /\ DOMAIN Tail(bus) \subseteq Nat \ {0}
    <3>1. /\ Head(bus) = bus[1] /\ Head(bus) \in 1..MaxEvents
          /\ Tail(bus) \in Seq(1..MaxEvents) /\ Len(Tail(bus)) = Len(bus) - 1
          /\ \A i \in DOMAIN Tail(bus) : i + 1 \in DOMAIN bus /\ Tail(bus)[i] = bus[i + 1]
      BY <1>0, <2>1, TailFacts
    <3>2. 1 \in DOMAIN bus
      BY <1>0, <2>1
    <3>3. DOMAIN Tail(bus) = 1..Len(Tail(bus))
      BY <3>1, ElementFacts
    <3> QED
      BY <1>0, <3>1, <3>2, <3>3
  <2>3. BusInOrder'
    BY <1>0, <2>1, <2>2 DEF InOrder, BusInOrder
  <2>4. e \in Upcoming /\ \A f \in Upcoming' : f \in Upcoming /\ e < f
    <3>1. e \in Upcoming
      BY <2>2 DEF Upcoming
    <3>2. \A i \in DOMAIN Tail(bus) : Tail(bus)[i] \in Upcoming /\ e < Tail(bus)[i]
      BY <1>0, <2>2 DEF Upcoming, InOrder, BusInOrder
    <3>3. e < published + 1
      BY <1>0, <2>2 DEF InOrder, BusInOrder
    <3> QED
      BY <2>1, <3>1, <3>2, <3>3 DEF Upcoming
  <2>5. Event(e) \in Frame /\ Event(e).n = e
    BY <2>2, FramesAreFrames DEF Event
  <2> HIDE DEF e
  <2>6. ASSUME NEW c \in Conns
        PROVE  /\ Ordered(queue'[c], seen'[c])
               /\ \A f \in Upcoming' : seen'[c] < f /\ Below(queue'[c], f)
    <3>1. seen[c] < e /\ Below(queue[c], e) /\ Ordered(queue[c], seen[c])
      BY <2>4, QueuesOrdered DEF InOrder, Behind
    <3>2. Ordered(TrySend(c, Event(e)), seen[c])
      BY <2>5, <3>1, TrySendOrdered
    <3>3. \A f : Below(queue[c], f) /\ e < f => Below(TrySend(c, Event(e)), f)
      BY <2>5, <3>1, TrySendOrdered
    <3>4. \A f \in Upcoming' : seen[c] < f /\ Below(queue[c], f) /\ e < f
      BY <2>4 DEF InOrder, Behind
    <3> QED
      BY <2>1, <3>1, <3>2, <3>3, <3>4
  <2>7. EventsInOrder'
    BY <2>6 DEF EventsInOrder, Ordered
  <2> QED
    BY <2>3, <2>6, <2>7 DEF InOrder, Behind
<1>3. CASE BridgeStops
  <2>1. /\ UNCHANGED <<published, queue, seen>> /\ bus' = <<>> /\ DOMAIN bus' = {}
    BY <1>3 DEF BridgeStops
  <2>2. Upcoming' \subseteq Upcoming
    BY <2>1 DEF Upcoming
  <2>3. Behind'
    BY <2>1, <2>2 DEF InOrder, Behind
  <2>4. EventsInOrder'
    BY <2>1 DEF InOrder, EventsInOrder
  <2> QED
    BY <2>1, <2>3, <2>4 DEF InOrder, BusInOrder
<1> QED
  BY <1>1, <1>2, <1>3

\* A step that leaves the bus alone, and each queue in order.
LEMMA BusKept ==
  ASSUME InOrder, UNCHANGED <<published, bus>>,
         \A c \in Conns : /\ Ordered(queue'[c], seen'[c])
                          /\ \A e \in Upcoming : seen'[c] < e /\ Below(queue'[c], e)
  PROVE  InOrder'
<1>1. Upcoming' = Upcoming
  BY DEF Upcoming
<1>2. EventsInOrder'
  BY DEF EventsInOrder, Ordered
<1>3. Behind'
  BY <1>1 DEF Behind
<1> QED
  BY <1>2, <1>3 DEF InOrder, BusInOrder

LEMMA ConnectionOrdered ==
  ASSUME TypeOK, InOrder, NEW c \in Conns, Connection(c)
  PROVE  InOrder'
<1> USE DEF loopVars, busVars
<1>0. /\ queue[c] \in Seq(Frame) /\ Ordered(queue[c], seen[c]) /\ seen[c] \in Nat
      /\ \A e \in Upcoming : seen[c] < e /\ Below(queue[c], e)
  BY QueuesOrdered DEF TypeOK, InOrder, Behind
<1>1. \A e \in Upcoming : e \in Nat /\ 0 < e
  <2>1. bus \in Seq(1..MaxEvents) /\ published \in Nat
    BY DEF TypeOK
  <2>2. \A i \in DOMAIN bus : bus[i] \in 1..MaxEvents
    BY <2>1, ElementFacts
  <2> QED
    BY <2>1, <2>2 DEF Upcoming
<1>2. SUFFICES ASSUME TRUE
               PROVE  /\ UNCHANGED <<published, bus>>
                      /\ \A d \in Conns : d # c => queue'[d] = queue[d] /\ seen'[d] = seen[d]
                      /\ Ordered(queue'[c], seen'[c])
                      /\ \A e \in Upcoming : seen'[c] < e /\ Below(queue'[c], e)
  <2>1. \A d \in Conns : Ordered(queue[d], seen[d]) /\ \A e \in Upcoming : seen[d] < e /\ Below(queue[d], e)
    BY QueuesOrdered DEF InOrder, Behind
  <2> QED
    BY <1>2, <2>1, BusKept
<1>3. CASE Connect(c)
  <2>1. UNCHANGED <<published, bus, queue>> /\ seen' = [seen EXCEPT ![c] = 0]
    BY <1>3 DEF Connect
  <2>2. seen'[c] = 0
    BY <2>1 DEF TypeOK
  <2>3. \A i \in DOMAIN queue[c] : queue[c][i].n \in Nat
    BY FrameNumbers
  <2>4. Ordered(queue[c], 0)
    BY <1>0, <2>3 DEF Ordered
  <2> QED
    BY <1>0, <1>1, <2>1, <2>2, <2>4
<1>4. CASE SendFrame(c)
  <2> DEFINE frame == Head(queue[c])
  <2>1. /\ UNCHANGED <<published, bus>> /\ queue' = [queue EXCEPT ![c] = Tail(@)] /\ queue[c] # <<>>
        /\ seen' = [seen EXCEPT ![c] = IF frame.kind = "event" /\ client[c] = "alive" THEN frame.n ELSE @]
    BY <1>4 DEF SendFrame
  <2>2. queue'[c] = Tail(queue[c]) /\ seen'[c] = IF frame.kind = "event" /\ client[c] = "alive" THEN frame.n ELSE seen[c]
    BY <2>1 DEF TypeOK
  <2>3. seen'[c] \in {seen[c]} \cup (IF frame.kind = "event" THEN {frame.n} ELSE {})
    BY <2>2
  <2>4. Ordered(Tail(queue[c]), seen'[c]) /\ \A e : Below(queue[c], e) => Below(Tail(queue[c]), e)
    BY <1>0, <2>1, <2>3, TailOrdered
  <2>5. frame = queue[c][1] /\ 1 \in DOMAIN queue[c]
    BY <1>0, <2>1
  <2>6. \A e \in Upcoming : seen'[c] < e
    BY <1>0, <2>2, <2>5 DEF Below
  <2> QED
    BY <1>0, <2>1, <2>2, <2>4, <2>6
<1>5. CASE SenderExits(c) \/ ReceiverExits(c)
  <2>1. UNCHANGED <<published, bus, seen>> /\ queue' = [queue EXCEPT ![c] = <<>>]
    BY <1>5 DEF SenderExits, ReceiverExits
  <2>2. queue'[c] = <<>> /\ DOMAIN queue'[c] = {}
    BY <2>1 DEF TypeOK
  <2> QED
    BY <1>0, <2>1, <2>2 DEF Ordered, Below
<1>6. CASE ClientText(c)
  <2>1. UNCHANGED <<published, bus, seen>> /\ queue' = [queue EXCEPT ![c] = TrySend(c, Reply)]
    BY <1>6 DEF ClientText
  <2>2. queue'[c] = TrySend(c, Reply)
    BY <2>1 DEF TypeOK
  <2>3. Ordered(TrySend(c, Reply), seen[c]) /\ \A e : Below(queue[c], e) => Below(TrySend(c, Reply), e)
    BY <1>0, NoEvents, FramesAreFrames, TrySendOrdered
  <2> QED
    BY <1>0, <2>1, <2>2, <2>3
<1>7. CASE Refuse(c) \/ Pong(c) \/ HandlerEnds(c) \/ TokenExpires(c) \/ Vanishes(c)
  <2>1. UNCHANGED <<published, bus, seen, queue>>
    BY <1>7 DEF Refuse, Pong, HandlerEnds, TokenExpires, Vanishes
  <2> QED
    BY <1>0, <2>1
<1> QED
  BY <1>3, <1>4, <1>5, <1>6, <1>7 DEF Connection

LEMMA HeartbeatOrdered ==
  ASSUME TypeOK, InOrder, HeartbeatVisits \/ HeartbeatRemoves
  PROVE  InOrder'
<1> USE DEF loopVars, busVars
<1>1. \A c \in Conns : Ordered(queue[c], seen[c]) /\ \A e \in Upcoming : seen[c] < e /\ Below(queue[c], e)
  BY QueuesOrdered DEF InOrder, Behind
<1>2. \A c \in Conns : \A f \in {Ping, Notice} :
        /\ Ordered(TrySend(c, f), seen[c])
        /\ \A e : Below(queue[c], e) => Below(TrySend(c, f), e)
  BY <1>1, NoEvents, FramesAreFrames, TrySendOrdered
<1>3. UNCHANGED <<published, bus, seen>>
  BY DEF HeartbeatVisits, HeartbeatRemoves
<1>4. \A c \in Conns : queue'[c] \in {queue[c], TrySend(c, Ping), TrySend(c, Notice)}
  BY DEF HeartbeatVisits, HeartbeatRemoves
<1> QED
  BY <1>1, <1>2, <1>3, <1>4, BusKept

LEMMA StepOrdered == TypeOK /\ InOrder /\ [Next]_vars => InOrder'
<1> SUFFICES ASSUME TypeOK, InOrder, [Next]_vars PROVE InOrder'
  OBVIOUS
<1>1. CASE UNCHANGED vars
  <2>1. UNCHANGED <<published, bus, seen, queue>>
    BY <1>1 DEF vars, busVars, loopVars
  <2> QED
    BY <2>1, QueuesOrdered, BusKept DEF InOrder, Behind
<1>2. CASE Publish \/ BridgeForwards \/ BridgeStops
  BY <1>2, BusOrdered
<1>3. CASE HeartbeatVisits \/ HeartbeatRemoves
  BY <1>3, HeartbeatOrdered
<1>4. CASE \E c \in Conns : Connection(c)
  BY <1>4, ConnectionOrdered
<1> QED
  BY <1>1, <1>2, <1>3, <1>4 DEF Next

\* A client gets events in the order they were published in, for any number of
\* connections and events and any loss by full queues and an overrun bus.
THEOREM OrderIsKept == Spec => []EventsInOrder
<1>1. Init => InOrder
  BY DEF Init, InOrder, EventsInOrder, Behind, BusInOrder, Below, Upcoming
<1>2. InOrder => EventsInOrder
  BY DEF InOrder
<1> QED
  BY <1>1, <1>2, StepOrdered, RealtimeTypeCorrect, PTL DEF Spec

-----------------------------------------------------------------------------
(* What a client may rely on.                                              *)

\* The send loop of a connection runs only while its receive loop does, and a
\* connection that is not there yet has received nothing.
LoopsTogether ==
  \A c \in Conns : /\ sender[c] = "running" => handler[c] = "receiving"
                   /\ handler[c] = "none" => seen[c] = 0

LEMMA InitLoops == Init => LoopsTogether
BY DEF Init, LoopsTogether

LEMMA StepLoops == TypeOK /\ LoopsTogether /\ [Next]_vars => LoopsTogether'
<1> SUFFICES ASSUME TypeOK, LoopsTogether, [Next]_vars PROVE LoopsTogether'
  OBVIOUS
<1> USE DEF loopVars, busVars
<1>1. CASE UNCHANGED vars
  BY <1>1 DEF vars, LoopsTogether
<1>2. CASE Publish \/ BridgeForwards \/ BridgeStops \/ HeartbeatVisits \/ HeartbeatRemoves
  <2>1. UNCHANGED <<sender, handler, seen>>
    BY <1>2 DEF Publish, BridgeForwards, BridgeStops, HeartbeatVisits, HeartbeatRemoves
  <2> QED
    BY <2>1 DEF LoopsTogether
<1>3. ASSUME NEW c \in Conns, Connection(c) PROVE LoopsTogether'
  <2> USE DEF TypeOK, LoopsTogether
  <2>1. CASE Connect(c)
    BY <2>1 DEF Connect
  <2>2. CASE Refuse(c)
    BY <2>2 DEF Refuse
  <2>3. CASE SendFrame(c)
    BY <2>3 DEF SendFrame
  <2>4. CASE SenderExits(c)
    BY <2>4 DEF SenderExits
  <2>5. CASE ReceiverExits(c)
    BY <2>5 DEF ReceiverExits
  <2>6. CASE HandlerEnds(c)
    BY <2>6 DEF HandlerEnds
  <2>7. CASE Pong(c) \/ ClientText(c) \/ TokenExpires(c) \/ Vanishes(c)
    BY <2>7 DEF Pong, ClientText, TokenExpires, Vanishes
  <2> QED
    BY <1>3, <2>1, <2>2, <2>3, <2>4, <2>5, <2>6, <2>7 DEF Connection
<1> QED
  BY <1>1, <1>2, <1>3 DEF Next

places == [c \in Conns |-> Place(c)]

\* A step of the connections that moves no client and shows none anything new
\* is a stutter of the stream.
LEMMA QuietStep ==
  ASSUME UNCHANGED <<published, handler, seen>>
  PROVE  UNCHANGED Stream!vars
<1>1. places' = places
  BY DEF places, Place
<1> QED
  BY <1>1 DEF Stream!vars, places

LEMMA PlacesChange ==
  ASSUME TypeOK, NEW c \in Conns, NEW h \in {"none", "receiving", "leaving", "gone"},
         handler' = [handler EXCEPT ![c] = h]
  PROVE  places' = [places EXCEPT ![c] = CASE h = "none" -> "before"
                                           [] h = "receiving" -> "here"
                                           [] OTHER -> "gone"]
BY DEF TypeOK, places, Place

\* A written event is one the client may receive at this point.
LEMMA SentIsReceivable ==
  ASSUME TypeOK, InOrder, LoopsTogether, NEW c \in Conns, SendFrame(c)
  PROVE  Stream!Receive(c) \/ UNCHANGED Stream!vars
<1> USE DEF busVars
<1> DEFINE frame == Head(queue[c])
<1>1. /\ UNCHANGED <<published, handler>> /\ queue[c] # <<>> /\ sender[c] = "running"
      /\ seen' = [seen EXCEPT ![c] = IF frame.kind = "event" /\ client[c] = "alive" THEN frame.n ELSE @]
  BY DEF SendFrame
<1>2. queue[c] \in Seq(Frame) /\ seen[c] \in Nat /\ published \in Nat /\ seen \in [Conns -> 0..MaxEvents]
  BY DEF TypeOK
<1>3. frame = queue[c][1] /\ 1 \in DOMAIN queue[c] /\ frame.n \in Nat
  BY <1>1, <1>2, FrameNumbers
<1>4. Ordered(queue[c], seen[c]) /\ Below(queue[c], published + 1)
  BY QueuesOrdered DEF InOrder, Behind, Upcoming
<1>5. CASE frame.kind = "event" /\ client[c] = "alive"
  <2>1. seen[c] < frame.n /\ frame.n < published + 1
    BY <1>3, <1>4, <1>5 DEF Ordered, Below
  <2>2. frame.n \in (seen[c] + 1)..published
    BY <1>2, <1>3, <2>1
  <2>3. seen' = [seen EXCEPT ![c] = frame.n]
    BY <1>1, <1>5
  <2>4. places[c] = "here"
    BY <1>1 DEF LoopsTogether, places, Place
  <2>5. places' = places
    BY <1>1 DEF places, Place
  <2> HIDE DEF frame
  <2> QED
    BY <1>1, <2>2, <2>3, <2>4, <2>5 DEF Stream!Receive, places
<1>6. CASE ~(frame.kind = "event" /\ client[c] = "alive")
  <2>1. seen' = seen
    BY <1>1, <1>2, <1>6
  <2> QED
    BY <1>1, <2>1, QuietStep
<1> QED
  BY <1>5, <1>6

LEMMA StepStreams ==
  TypeOK /\ InOrder /\ LoopsTogether /\ [Next]_vars => [Stream!Next]_(Stream!vars)
<1> SUFFICES ASSUME TypeOK, InOrder, LoopsTogether, [Next]_vars
             PROVE  Stream!Next \/ UNCHANGED Stream!vars
  OBVIOUS
<1> USE DEF loopVars, busVars
<1>1. CASE UNCHANGED vars
  BY <1>1, QuietStep DEF vars
<1>2. CASE Publish
  <2>1. published' = published + 1 /\ UNCHANGED <<handler, seen>>
    BY <1>2 DEF Publish
  <2>2. places' = places
    BY <2>1 DEF places, Place
  <2> QED
    BY <2>1, <2>2 DEF Stream!Next, Stream!Publish, places
<1>3. CASE BridgeForwards \/ BridgeStops \/ HeartbeatVisits \/ HeartbeatRemoves
  <2>1. UNCHANGED <<published, handler, seen>>
    BY <1>3 DEF BridgeForwards, BridgeStops, HeartbeatVisits, HeartbeatRemoves
  <2> QED
    BY <2>1, QuietStep
<1>4. ASSUME NEW c \in Conns, Connection(c) PROVE Stream!Next \/ UNCHANGED Stream!vars
  <2>1. CASE Connect(c)
    <3>1. /\ handler[c] = "none" /\ handler' = [handler EXCEPT ![c] = "receiving"]
          /\ published' = published /\ seen' = [seen EXCEPT ![c] = 0]
      BY <2>1 DEF Connect
    <3>2. seen' = seen
      BY <3>1 DEF TypeOK, LoopsTogether
    <3>3. places' = [places EXCEPT ![c] = "here"] /\ places[c] = "before"
      BY <3>1, PlacesChange DEF places, Place
    <3>4. Stream!Join(c)
      BY <3>1, <3>2, <3>3 DEF Stream!Join, places
    <3> QED
      BY <3>4 DEF Stream!Next
  <2>2. CASE Refuse(c) \/ ReceiverExits(c)
    <3>1. /\ handler[c] \in {"none", "receiving"} /\ UNCHANGED <<published, seen>>
          /\ \E h \in {"leaving", "gone"} : handler' = [handler EXCEPT ![c] = h]
      BY <2>2 DEF Refuse, ReceiverExits, Receiving
    <3>2. places' = [places EXCEPT ![c] = "gone"] /\ places[c] # "gone"
      BY <3>1, PlacesChange DEF places, Place
    <3>3. Stream!Leave(c)
      BY <3>1, <3>2 DEF Stream!Leave, places
    <3> QED
      BY <3>3 DEF Stream!Next
  <2>3. CASE HandlerEnds(c)
    <3>1. /\ handler[c] = "leaving" /\ UNCHANGED <<published, seen>>
          /\ handler' = [handler EXCEPT ![c] = "gone"]
      BY <2>3 DEF HandlerEnds
    <3>2. places' = [places EXCEPT ![c] = "gone"] /\ places[c] = "gone"
      BY <3>1, PlacesChange DEF places, Place
    <3>3. places' = places
      BY <3>2 DEF places
    <3> QED
      BY <3>1, <3>3 DEF Stream!vars, places
  <2>4. CASE SendFrame(c)
    BY <2>4, SentIsReceivable DEF Stream!Next
  <2>5. CASE SenderExits(c) \/ Pong(c) \/ ClientText(c) \/ TokenExpires(c) \/ Vanishes(c)
    <3>1. UNCHANGED <<published, handler, seen>>
      BY <2>5 DEF SenderExits, Pong, ClientText, TokenExpires, Vanishes
    <3> QED
      BY <3>1, QuietStep
  <2> QED
    BY <1>4, <2>1, <2>2, <2>3, <2>4, <2>5 DEF Connection
<1> QED
  BY <1>1, <1>2, <1>3, <1>4 DEF Next

LEMMA InitStreams == Init => Stream!Init
<1> SUFFICES ASSUME Init PROVE Stream!Init
  OBVIOUS
<1>1. places = [c \in Conns |-> "before"]
  BY DEF Init, places, Place
<1> QED
  BY <1>1 DEF Init, Stream!Init, places

\* Whatever is lost on the way, bus, bridge, queues and loops give every
\* client a stream: only published events, each newer than the one before, and
\* none once its receive loop has ended.
THEOREM RealtimeStreams == Spec => StreamsEvents
<1>1. Init => InOrder
  BY DEF Init, InOrder, EventsInOrder, Behind, BusInOrder, Below, Upcoming
<1>2. Spec => [](TypeOK /\ InOrder /\ LoopsTogether)
  BY <1>1, InitTypes, StepTypes, StepOrdered, InitLoops, StepLoops, PTL DEF Spec
<1> QED
  BY <1>2, InitStreams, StepStreams, PTL DEF Spec, StreamsEvents, Stream!Spec

=============================================================================
