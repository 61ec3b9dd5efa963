------------------------------- MODULE Dealing -------------------------------
(***************************************************************************)
(* What drawing cards promises (OPEN_PACK): a player that asks gets at     *)
(* most one card for it, and the card is one that nobody was ever given,   *)
(* not even a player that lost it since.  The servers fail at any time:    *)
(* then a player gets no card, loses the card that was on its way, or the  *)
(* cards it had.                                                           *)
(***************************************************************************)
EXTENDS Sequences

CONSTANTS
  Desk,     \* where cards are asked for, by one player at a time
  Player,
  Card

VARIABLES
  desk,     \* desk[d]: <<>>, <<the player that asks>>, or <<the player, its card>>
  hand,     \* hand[p]: the cards p has
  taken     \* the cards that were ever given

vars == <<desk, hand, taken>>

Init ==
  /\ desk = [d \in Desk |-> <<>>]
  /\ hand = [p \in Player |-> <<>>]
  /\ taken = {}

Ask(d, p) ==
  /\ desk[d] = <<>>
  /\ desk' = [desk EXCEPT ![d] = <<p>>]
  /\ UNCHANGED <<hand, taken>>

(* The card is the one that becomes taken.                                 *)
Draw(d) ==
  /\ Len(desk[d]) = 1
  /\ \E card \in taken' \ taken :
       /\ card \in Card
       /\ taken' = taken \union {card}
       /\ desk' = [desk EXCEPT ![d] = Append(@, card)]
  /\ UNCHANGED hand

HandOver(d) ==
  /\ Len(desk[d]) = 2
  /\ desk' = [desk EXCEPT ![d] = <<>>]
  /\ hand' = [hand EXCEPT ![desk[d][1]] = Append(@, desk[d][2])]
  /\ UNCHANGED taken

Fail(desks, players) ==
  /\ desk' = [d \in Desk |-> IF d \in desks THEN <<>> ELSE desk[d]]
  /\ hand' = [p \in Player |-> IF p \in players THEN <<>> ELSE hand[p]]
  /\ UNCHANGED taken

Next ==
  \/ \E d \in Desk : Draw(d) \/ HandOver(d) \/ \E p \in Player : Ask(d, p)
  \/ \E desks \in SUBSET Desk, players \in SUBSET Player : Fail(desks, players)

Spec == Init /\ [][Next]_vars

=============================================================================
