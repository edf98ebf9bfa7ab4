------------------------------ MODULE Realtime ------------------------------
(***************************************************************************)
(* The path of an event to the screens: the event bus every component      *)
(* broadcasts on, the one task that bridges it to the WebSocket manager,   *)
(* the bounded queue of each connection, the send and the receive loop     *)
(* behind it, and the heartbeat that removes connections.  Clients answer, *)
(* leave, or vanish without a word.  Only tests start the heartbeat, so it *)
(* may take steps here but nothing is assumed of it: the behaviours in     *)
(* which it never does are those of the program as it is built.            *)
(*                                                                         *)
(* The connections of the manager do not interact, so broadcast_all is one *)
(* step for all of them; the heartbeat is two, because it decides about    *)
(* its connections while it visits them and removes them afterwards.       *)
(***************************************************************************)
EXTENDS Naturals, Sequences, FiniteSets

CONSTANTS
  Conns,             \* connections, each with an id of its own
  Buffer,            \* PER_CONNECTION_BUFFER
  BusCapacity,       \* capacity of the event bus
  TimeoutTicks,      \* HEARTBEAT_TIMEOUT in units of HEARTBEAT_INTERVAL
  MaxEvents          \* bound: events published

ASSUME RealtimeAssumption ==
  /\ Buffer \in Nat \ {0} /\ BusCapacity \in Nat \ {0}
  /\ TimeoutTicks \in Nat /\ MaxEvents \in Nat

VARIABLES
  published,    \* events published so far, numbered from 1
  bus,          \* published events the bridge has not received
  lagged,       \* the bus has overwritten an event the bridge had not received
  bridge,       \* the bridging task
  connections,  \* the manager's map
  queue,        \* per connection: frames between manager and send loop
  silent,       \* per connection: heartbeat ticks since last_ping
  valid,        \* per connection: what the token validator says
  sender,       \* per connection: its send loop
  handler,      \* per connection: handle_socket
  client,       \* per connection: the other end of the socket
  seen,         \* per connection: the last event the client received
  beat          \* the heartbeat: the connections it is about to remove

busVars == <<published, bus, lagged, bridge>>
loopVars == <<sender, handler, client, seen>>
vars == <<busVars, connections, queue, silent, valid, loopVars, beat>>

-----------------------------------------------------------------------------
Event(n) == [kind |-> "event", n |-> n]
Ping == [kind |-> "ping", n |-> 0]
Reply == [kind |-> "reply", n |-> 0]
Notice == [kind |-> "notice", n |-> 0]   \* TextThenClose(realtime.error, 1008)
Frame == [kind : {"event", "ping", "reply", "notice"}, n : 0..MaxEvents]

TypeOK ==
  /\ published \in 0..MaxEvents
  /\ bus \in Seq(1..MaxEvents) /\ Len(bus) <= BusCapacity
  /\ lagged \in BOOLEAN
  /\ bridge \in {"running", "stopped"}
  /\ connections \subseteq Conns
  /\ queue \in [Conns -> Seq(Frame)]
  /\ \A c \in Conns : Len(queue[c]) <= Buffer
  /\ silent \in [Conns -> 0..TimeoutTicks]
  /\ valid \in [Conns -> BOOLEAN]
  /\ sender \in [Conns -> {"none", "running", "exited"}]
  /\ handler \in [Conns -> {"none", "receiving", "leaving", "gone"}]
  /\ client \in [Conns -> {"away", "alive", "told", "vanished"}]
  /\ seen \in [Conns -> 0..MaxEvents]
  /\ beat \in [visited : BOOLEAN, remove : SUBSET Conns]

Waiting == [visited |-> FALSE, remove |-> {}]

Init ==
  /\ published = 0
  /\ bus = <<>>
  /\ lagged = FALSE
  /\ bridge = "running"
  /\ connections = {}
  /\ queue = [c \in Conns |-> <<>>]
  /\ silent = [c \in Conns |-> 0]
  /\ valid = [c \in Conns |-> TRUE]
  /\ sender = [c \in Conns |-> "none"]
  /\ handler = [c \in Conns |-> "none"]
  /\ client = [c \in Conns |-> "away"]
  /\ seen = [c \in Conns |-> 0]
  /\ beat = Waiting

-----------------------------------------------------------------------------
(* The per-connection channel: try_send on it.  The manager's entry holds  *)
(* the only sender, the send loop the receiver.                            *)

Closed(c) == sender[c] # "running"
Full(c) == Len(queue[c]) = Buffer
CanSend(c) == ~Closed(c) /\ ~Full(c)

\* An unbounded channel (mutant).
TrySendUnbounded(c, frame) == IF ~Closed(c) THEN Append(queue[c], frame) ELSE queue[c]

TrySend(c, frame) == IF CanSend(c) THEN Append(queue[c], frame) ELSE queue[c]

-----------------------------------------------------------------------------
(* The event bus and its bridge.                                           *)

\* A full bus loses its oldest event.
Overwrite(e) ==
  IF Len(bus) < BusCapacity THEN Append(bus, e) ELSE Append(Tail(bus), e)

Publish ==
  /\ published < MaxEvents
  /\ published' = published + 1
  /\ IF bridge = "running"
     THEN /\ bus' = Overwrite(published + 1)
          /\ lagged' = (lagged \/ Len(bus) = BusCapacity)
     ELSE UNCHANGED <<bus, lagged>>
  /\ UNCHANGED <<bridge, connections, queue, silent, valid, loopVars, beat>>

\* An event in front of what is already queued (mutant).
BroadcastInFront(e) ==
  queue' = [c \in Conns |-> IF c \in connections /\ CanSend(c)
                            THEN <<Event(e)>> \o queue[c] ELSE queue[c]]

\* A full queue loses the event, a closed channel loses the connection.
BroadcastAll(e) ==
  queue' = [c \in Conns |-> IF c \in connections THEN TrySend(c, Event(e)) ELSE queue[c]]

BridgeForwards ==
  /\ bridge = "running" /\ ~lagged /\ bus # <<>>
  /\ bus' = Tail(bus)
  /\ BroadcastAll(Head(bus))
  /\ connections' = {c \in connections : ~Closed(c)}
  /\ UNCHANGED <<published, lagged, bridge, silent, valid, loopVars, beat>>

\* recv answers Lagged once after an overwrite, and the loop is `while let Ok`.
BridgeStops ==
  /\ bridge = "running" /\ lagged
  /\ bridge' = "stopped"
  /\ bus' = <<>>
  /\ UNCHANGED <<published, lagged, connections, queue, silent, valid, loopVars, beat>>

-----------------------------------------------------------------------------
(* A connection: handle_socket and its two loops.                          *)

Connect(c) ==
  /\ handler[c] = "none" /\ valid[c]
  /\ connections' = connections \cup {c}
  /\ handler' = [handler EXCEPT ![c] = "receiving"]
  /\ sender' = [sender EXCEPT ![c] = "running"]
  /\ client' = [client EXCEPT ![c] = "alive"]
  /\ seen' = [seen EXCEPT ![c] = 0]
  /\ UNCHANGED <<busVars, queue, silent, valid, beat>>

Refuse(c) ==
  /\ handler[c] = "none" /\ ~valid[c]
  /\ handler' = [handler EXCEPT ![c] = "gone"]
  /\ UNCHANGED <<busVars, connections, queue, silent, valid, sender, client, seen, beat>>

\* A written frame; after a notice the socket is closed for writing.
SendFrame(c) ==
  /\ sender[c] = "running" /\ queue[c] # <<>> /\ client[c] # "told"
  /\ queue' = [queue EXCEPT ![c] = Tail(@)]
  /\ LET frame == Head(queue[c]) IN
       /\ seen' = [seen EXCEPT ![c] = IF frame.kind = "event" /\ client[c] = "alive"
                                      THEN frame.n ELSE @]
       /\ client' = [client EXCEPT ![c] = IF frame.kind = "notice" /\ client[c] = "alive"
                                          THEN "told" ELSE @]
  /\ UNCHANGED <<busVars, connections, silent, valid, sender, handler, beat>>

\* The send loop ends with frames left in its channel (mutant).
SenderExitsEarly(c) ==
  /\ sender[c] = "running"
  /\ \/ queue[c] # <<>> /\ client[c] \in {"told", "vanished"}
     \/ c \notin connections
  /\ sender' = [sender EXCEPT ![c] = "exited"]
  /\ queue' = [queue EXCEPT ![c] = <<>>]
  /\ UNCHANGED <<busVars, connections, silent, valid, handler, client, seen, beat>>

\* The write fails, or the channel is empty and the manager has dropped its end.
SenderExits(c) ==
  /\ sender[c] = "running"
  /\ \/ queue[c] # <<>> /\ client[c] \in {"told", "vanished"}
     \/ queue[c] = <<>> /\ c \notin connections
  /\ sender' = [sender EXCEPT ![c] = "exited"]
  /\ queue' = [queue EXCEPT ![c] = <<>>]
  /\ UNCHANGED <<busVars, connections, silent, valid, handler, client, seen, beat>>

Receiving(c) == handler[c] = "receiving"

\* "pong": update_last_ping, which does nothing for a removed connection.
Pong(c) ==
  /\ Receiving(c) /\ client[c] = "alive"
  /\ c \in connections
  /\ silent' = [silent EXCEPT ![c] = 0]
  /\ UNCHANGED <<busVars, connections, queue, valid, loopVars, beat>>

\* Any other text gets an answer: send_raw_to.
ClientText(c) ==
  /\ Receiving(c) /\ client[c] = "alive" /\ c \in connections
  /\ queue' = [queue EXCEPT ![c] = TrySend(c, Reply)]
  /\ connections' = IF Closed(c) THEN connections \ {c} ELSE connections
  /\ UNCHANGED <<busVars, silent, valid, loopVars, beat>>

\* The send loop is left to end by itself (mutant).
ReceiverExitsLeavingSender(c) ==
  /\ Receiving(c)
  /\ handler' = [handler EXCEPT ![c] = "leaving"]
  /\ UNCHANGED <<busVars, connections, queue, silent, valid, sender, client, seen, beat>>

\* The receive loop sees a close frame, which a client that was told sends
\* back, or an error; handle_socket then aborts the send loop.
ReceiverExits(c) ==
  /\ Receiving(c)
  /\ handler' = [handler EXCEPT ![c] = "leaving"]
  /\ sender' = [sender EXCEPT ![c] = "exited"]
  /\ queue' = [queue EXCEPT ![c] = <<>>]
  /\ UNCHANGED <<busVars, connections, silent, valid, client, seen, beat>>

\* handle_socket ends without remove_client (mutant).
HandlerEndsRegistered(c) ==
  /\ handler[c] = "leaving"
  /\ handler' = [handler EXCEPT ![c] = "gone"]
  /\ UNCHANGED <<busVars, connections, queue, silent, valid, sender, client, seen, beat>>

HandlerEnds(c) ==
  /\ handler[c] = "leaving"
  /\ handler' = [handler EXCEPT ![c] = "gone"]
  /\ connections' = connections \ {c}
  /\ UNCHANGED <<busVars, queue, silent, valid, sender, client, seen, beat>>

-----------------------------------------------------------------------------
(* The heartbeat.                                                          *)

TimedOut(c) == silent[c] + 1 > TimeoutTicks

\* What a visit removes.  It sends a notice or a ping, and either is
\* lost when the queue is full.
Drops(c) == TimedOut(c) \/ ~valid[c] \/ Closed(c)

HeartbeatVisits ==
  /\ ~beat.visited
  /\ silent' = [c \in Conns |-> IF c \in connections /\ ~TimedOut(c)
                                THEN silent[c] + 1 ELSE silent[c]]
  /\ queue' = [c \in Conns |->
                 IF c \notin connections THEN queue[c]
                 ELSE TrySend(c, IF TimedOut(c) \/ ~valid[c] THEN Notice ELSE Ping)]
  /\ beat' = [visited |-> TRUE, remove |-> {c \in connections : Drops(c)}]
  /\ UNCHANGED <<busVars, connections, valid, loopVars>>

HeartbeatRemoves ==
  /\ beat.visited
  /\ connections' = connections \ beat.remove
  /\ beat' = Waiting
  /\ UNCHANGED <<busVars, queue, silent, valid, loopVars>>

-----------------------------------------------------------------------------
(* The environment.                                                        *)

TokenExpires(c) ==
  /\ valid[c]
  /\ valid' = [valid EXCEPT ![c] = FALSE]
  /\ UNCHANGED <<busVars, connections, queue, silent, loopVars, beat>>

\* The host goes away without closing its socket.
Vanishes(c) ==
  /\ client[c] \in {"alive", "told"}
  /\ client' = [client EXCEPT ![c] = "vanished"]
  /\ UNCHANGED <<busVars, connections, queue, silent, valid, sender, handler, seen, beat>>

-----------------------------------------------------------------------------
Connection(c) ==
  \/ Connect(c) \/ Refuse(c) \/ SendFrame(c) \/ SenderExits(c)
  \/ Pong(c) \/ ClientText(c) \/ ReceiverExits(c) \/ HandlerEnds(c)
  \/ TokenExpires(c) \/ Vanishes(c)

Next ==
  \/ Publish \/ BridgeForwards \/ BridgeStops
  \/ HeartbeatVisits \/ HeartbeatRemoves
  \/ \E c \in Conns : Connection(c)

\* The tasks of the process are scheduled.  A client that is there takes what
\* is sent to it and answers a close frame; towards one that has vanished a
\* write may hang for as long as it likes.  The heartbeat is no such task.
Fairness ==
  /\ WF_vars(BridgeForwards) /\ WF_vars(BridgeStops)
  /\ \A c \in Conns :
       /\ WF_vars(client[c] = "alive" /\ SendFrame(c))
       /\ WF_vars(client[c] # "vanished" /\ SenderExits(c))
       /\ WF_vars(client[c] = "told" /\ ReceiverExits(c))
       /\ WF_vars(HandlerEnds(c))

Spec == Init /\ [][Next]_vars /\ Fairness

-----------------------------------------------------------------------------
(* Properties.                                                             *)

\* What a client has received and what is queued for it are events in the
\* order they were published in, however many were lost on the way
\* (BroadcastEventBus, broadcast_all, send_loop).
EventsInOrder ==
  \A c \in Conns : \A i \in DOMAIN queue[c] :
    queue[c][i].kind = "event" =>
      /\ seen[c] < queue[c][i].n
      /\ \A k \in 1..(i - 1) : queue[c][k].kind = "event" => queue[c][k].n < queue[c][i].n

\* When handle_socket has ended, whoever ended the connection first, the
\* manager has no entry for it any more.
GoneIsUnregistered == \A c \in Conns : handler[c] = "gone" => c \notin connections

\* A close notice that has found room in the queue ends the connection: the
\* send loop delivers it although the manager has dropped its entry by then.
NoticedLeaves ==
  \A c \in Conns : (\E i \in DOMAIN queue[c] : queue[c][i] = Notice)
                     ~> (handler[c] = "gone" \/ client[c] = "vanished")

\* What a connection is to its client: it listens from Connect until the
\* receive loop has ended.
Place(c) == CASE handler[c] = "none" -> "before"
              [] handler[c] = "receiving" -> "here"
              [] OTHER -> "gone"

Stream == INSTANCE EventStream
            WITH Clients <- Conns, place <- [c \in Conns |-> Place(c)], last <- seen

\* Bus, bridge, queues and loops implement the stream: a client receives only
\* what has been published and not yet received, and, because handle_socket
\* aborts the send loop, nothing after its receive loop has ended.
StreamsEvents == Stream!Spec

\* "forward all broadcast events to connected WebSocket clients" (routes.rs):
\* no event is published while nobody listens to the bus.
PublishIsHeard == [][published' # published => bridge = "running"]_vars
=============================================================================
