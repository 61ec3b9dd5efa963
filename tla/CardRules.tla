----------------------------- MODULE CardRules -----------------------------
(***************************************************************************)
(* What decides a round (server/game/logic.go), and the rules the client   *)
(* shows its user (client/utils/menus.go, ShowRules).  A card is its       *)
(* element.  NoCard is the zero Card, which a lookup in PlayersCards gives *)
(* for a player that has none there.                                       *)
(***************************************************************************)

Elements == {"AGUA", "TERRA", "FOGO", "AR", "MATO"}
NoCard == ""

Ties == {<<"FOGO", "AR">>, <<"AGUA", "TERRA">>, <<"TERRA", "AGUA">>, <<"AR", "FOGO">>}

Wins == {<<"FOGO", "TERRA">>, <<"FOGO", "MATO">>, <<"AGUA", "FOGO">>, <<"AGUA", "MATO">>,
         <<"TERRA", "AR">>, <<"TERRA", "MATO">>, <<"AR", "AGUA">>, <<"AR", "MATO">>}

Losses == {<<"FOGO", "AGUA">>, <<"AGUA", "AR">>, <<"TERRA", "FOGO">>, <<"AR", "TERRA">>}
            \union ({"MATO"} \X {"TERRA", "AGUA", "FOGO", "AR"})

(* Mutant: fire does not lose to water. *)
CheckWinnerDry(c1, c2) ==
  CASE c1 \in Elements /\ c2 = c1                               -> "EMPATE"
    [] <<c1, c2>> \in Ties \union {<<"FOGO", "AGUA">>}           -> "EMPATE"
    [] <<c1, c2>> \in Wins                                      -> "GANHOU"
    [] <<c1, c2>> \in Losses \ {<<"FOGO", "AGUA">>}              -> "PERDEU"
    [] OTHER                                                    -> ""

(* The result of the first player: nothing when a card is missing.         *)
CheckWinner(c1, c2) ==
  CASE c1 \in Elements /\ c2 = c1 -> "EMPATE"
    [] <<c1, c2>> \in Ties        -> "EMPATE"
    [] <<c1, c2>> \in Wins        -> "GANHOU"
    [] <<c1, c2>> \in Losses      -> "PERDEU"
    [] OTHER                      -> ""

(***************************************************************************)
(* The rules on the screen: what is strong against what.  MATO is only     *)
(* called mysterious there; logic.go says of it that it draws or loses.    *)
(***************************************************************************)
StrongAgainst == [AGUA |-> "FOGO", TERRA |-> "AR", FOGO |-> "TERRA", AR |-> "AGUA"]

Beats(c1, c2) ==
  /\ c1 \in DOMAIN StrongAgainst
  /\ c2 \in {StrongAgainst[c1], "MATO"}

=============================================================================
