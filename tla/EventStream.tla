----------------------------- MODULE EventStream -----------------------------
(***************************************************************************)
(* What a client may rely on about events, with no bus, queue, task or     *)
(* heartbeat in sight: events are numbered as they are published, a client *)
(* that is here receives some of those published, none twice and none      *)
(* before an older one, and one that has left receives no more and does    *)
(* not come back under the same id.                                        *)
(***************************************************************************)
EXTENDS Naturals

CONSTANT Clients

VARIABLES
  published,  \* events published so far
  place,      \* per client: "before", "here" or "gone"
  last        \* per client: the last event received

vars == <<published, place, last>>

Init ==
  /\ published = 0
  /\ place = [c \in Clients |-> "before"]
  /\ last = [c \in Clients |-> 0]

Publish ==
  /\ published' = published + 1
  /\ UNCHANGED <<place, last>>

Join(c) ==
  /\ place[c] = "before"
  /\ place' = [place EXCEPT ![c] = "here"]
  /\ UNCHANGED <<published, last>>

Receive(c) ==
  /\ place[c] = "here"
  /\ \E e \in (last[c] + 1)..published : last' = [last EXCEPT ![c] = e]
  /\ UNCHANGED <<published, place>>

Leave(c) ==
  /\ place[c] # "gone"
  /\ place' = [place EXCEPT ![c] = "gone"]
  /\ UNCHANGED <<published, last>>

Next == Publish \/ \E c \in Clients : Join(c) \/ Receive(c) \/ Leave(c)

Spec == Init /\ [][Next]_vars
=============================================================================
