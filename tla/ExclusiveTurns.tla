---------------------------- MODULE ExclusiveTurns ----------------------------
(***************************************************************************)
(* What the requests of one conversation get, with no claim, flag, agent   *)
(* or task manager in sight.  A request is refused, or it has one turn,    *)
(* alone.  In its turn it stores its message at most once, before it talks *)
(* to an agent, and talks a bounded number of times: each attempt goes on  *)
(* at most MaxContinuations times and there is at most one more attempt.   *)
(* When its turn is over it never comes back.                              *)
(***************************************************************************)
EXTENDS Naturals

CONSTANTS Requests, MaxContinuations

VARIABLES
  request,  \* per request: where it is, and what it has used of its turn
  stored    \* requests whose message is stored

vars == <<request, stored>>

Fresh(place) == [at |-> place, replayed |-> FALSE, continued |-> 0]
HasTurn(r) == request[r].at \in {"ready", "talking", "silent"}

Init == request = [r \in Requests |-> Fresh("open")] /\ stored = {}

Move(r, from, next) ==
  /\ request[r].at \in from
  /\ request' = [request EXCEPT ![r] = next]
  /\ UNCHANGED stored

Take(r) ==
  /\ \A q \in Requests : ~HasTurn(q)
  /\ request[r] = Fresh("open") /\ r \notin stored
  /\ Move(r, {"open"}, Fresh("ready"))

Store(r) ==
  /\ request[r] = Fresh("ready") /\ r \notin stored
  /\ stored' = stored \cup {r}
  /\ UNCHANGED request

Talk(r) == Move(r, {"ready"}, [request[r] EXCEPT !.at = "talking"])

Continue(r) ==
  /\ request[r].continued < MaxContinuations
  /\ Move(r, {"talking"}, [at |-> "ready", replayed |-> request[r].replayed,
                          continued |-> request[r].continued + 1])

FallSilent(r) == Move(r, {"ready", "talking"}, [request[r] EXCEPT !.at = "silent"])

Replay(r) ==
  /\ ~request[r].replayed
  /\ Move(r, {"silent"}, [at |-> "ready", replayed |-> TRUE, continued |-> 0])

End(r) == Move(r, {"silent"}, [request[r] EXCEPT !.at = "over"])

Refuse(r) == Move(r, {"open"}, [request[r] EXCEPT !.at = "over"])

Next ==
  \E r \in Requests :
    \/ Take(r) \/ Refuse(r) \/ Store(r)
    \/ Talk(r) \/ Continue(r) \/ FallSilent(r) \/ Replay(r) \/ End(r)

Spec == Init /\ [][Next]_vars
=============================================================================
