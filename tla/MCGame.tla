------------------------------- MODULE MCGame -------------------------------
(* Two servers and two players, at one of them or one at each, for Game.   *)
EXTENDS Game

CONSTANTS s1, s2

MCHomes == {[p \in Player |-> s1], [p \in Player |-> IF p = Player1 THEN s1 ELSE s2]}

(* The second player wins the first game, the first one the second; a card *)
(* of one game against a card of the other makes a draw.                   *)
MCDeck == [g \in 1 .. MaxGames |-> [p \in Player |->
             IF (p = Player1) = (g = 1) THEN {"FOGO"} ELSE {"AGUA"}]]

(* In the first game either player starts at the first one's server; in    *)
(* the second the host changes.  Each can be local instead.                *)
MCOpenings == [g \in 1 .. MaxGames |->
  {[first |-> Player1, hosting |-> Player1, local |-> TRUE]} \union
    IF g = 1 THEN [first : Player, hosting : {Player1}, local : {FALSE}]
             ELSE {[first |-> Player1, hosting |-> Player2, local |-> FALSE]}]

=============================================================================
