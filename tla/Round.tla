------------------------------- MODULE Round -------------------------------
(***************************************************************************)
(* What a game promises its two players: each plays at most one card, and  *)
(* whoever is told a result is told the one the rules on its screen give   *)
(* to both cards.  A player may be left without one, and give the game up. *)
(***************************************************************************)
EXTENDS CardRules

CONSTANTS Player1, Player2

VARIABLES
  card,     \* the card each player has played, or NoCard
  verdict   \* how the game ended for each player

vars == <<card, verdict>>

Player == {Player1, Player2}

Winner ==
  CASE Beats(card[Player1], card[Player2]) -> Player1
    [] Beats(card[Player2], card[Player1]) -> Player2
    [] OTHER                               -> "nobody"

Init ==
  /\ card = [p \in Player |-> NoCard]
  /\ verdict = [p \in Player |-> "unknown"]

Play(p, c) ==
  /\ card[p] = NoCard
  /\ verdict[p] = "unknown"
  /\ card' = [card EXCEPT ![p] = c]
  /\ UNCHANGED verdict

Cancel(p) ==
  /\ verdict[p] = "unknown"
  /\ verdict' = [verdict EXCEPT ![p] = "cancelled"]
  /\ UNCHANGED card

Learn(p) ==
  /\ verdict[p] = "unknown"
  /\ \A q \in Player : card[q] # NoCard
  /\ verdict' = [verdict EXCEPT ![p] = Winner]
  /\ UNCHANGED card

Next == \E p \in Player : (\E c \in Elements : Play(p, c)) \/ Cancel(p) \/ Learn(p)

Spec == Init /\ [][Next]_vars

=============================================================================
