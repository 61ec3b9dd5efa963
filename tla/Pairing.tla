------------------------------- MODULE Pairing -------------------------------
(***************************************************************************)
(* What the local queue of a server promises: an entry waits from the      *)
(* JOIN_QUEUE that made it until it is put in one room with one other      *)
(* entry, or is sent away to the cluster, and never both.                  *)
(***************************************************************************)
EXTENDS Naturals, Sequences

CONSTANT Player

VARIABLES
  entered,    \* entered[e]: who made entry e
  waiting,    \* the entries that wait
  rooms,      \* the entries of each room
  away        \* the entries that were sent away

vars == <<entered, waiting, rooms, away>>

Init ==
  /\ entered = <<>>
  /\ waiting = {}
  /\ rooms = {}
  /\ away = {}

Enter(p) ==
  /\ entered' = Append(entered, p)
  /\ waiting' = waiting \union {Len(entered) + 1}
  /\ UNCHANGED <<rooms, away>>

(* Some of those that wait are put in new rooms at once.                   *)
Match ==
  LET new == rooms' \ rooms
  IN /\ new # {}
     /\ \A room \in new : \E e, f \in waiting : room = {e, f}
     /\ \A r1, r2 \in new : r1 # r2 => r1 \intersect r2 = {}
     /\ rooms' = rooms \union new
     /\ waiting' = waiting \ UNION new
     /\ UNCHANGED <<entered, away>>

SendAway(e) ==
  /\ e \in waiting
  /\ waiting' = waiting \ {e}
  /\ away' = away \union {e}
  /\ UNCHANGED <<entered, rooms>>

Next ==
  \/ \E p \in Player : Enter(p)
  \/ Match
  \/ \E e \in waiting : SendAway(e)

Spec == Init /\ [][Next]_vars

=============================================================================
