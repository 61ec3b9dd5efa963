-------------------------- MODULE CardRules_proofs --------------------------
(***************************************************************************)
(* CheckWinner (server/game/logic.go) against the rules that the client    *)
(* shows (ShowRules), and against itself with the players swapped.         *)
(***************************************************************************)
EXTENDS CardRules, TLAPS

(* The first player wins with the stronger card and loses to it, and two   *)
(* cards always have a result: the code decides as the rules say.          *)
THEOREM RulesAreKept ==
  ASSUME NEW c1 \in Elements, NEW c2 \in Elements
  PROVE  /\ CheckWinner(c1, c2) = "GANHOU" <=> Beats(c1, c2)
         /\ CheckWinner(c1, c2) = "PERDEU" <=> Beats(c2, c1)
         /\ CheckWinner(c1, c2) \in {"GANHOU", "PERDEU", "EMPATE"}
<1> USE DEF Elements, CheckWinner, Ties, Wins, Losses, Beats, StrongAgainst
<1>1. CASE c1 = "AGUA"
  BY <1>1
<1>2. CASE c1 = "TERRA"
  BY <1>2
<1>3. CASE c1 = "FOGO"
  BY <1>3
<1>4. CASE c1 = "AR"
  BY <1>4
<1>5. CASE c1 = "MATO"
  BY <1>5
<1> QED
  BY <1>1, <1>2, <1>3, <1>4, <1>5

(* Nobody is favoured by being Player1: with the players swapped the       *)
(* winner is the same (the comment at the head of CheckWinner).            *)
THEOREM SidesDoNotMatter ==
  ASSUME NEW c1 \in Elements, NEW c2 \in Elements
  PROVE  /\ CheckWinner(c1, c2) = "GANHOU" <=> CheckWinner(c2, c1) = "PERDEU"
         /\ CheckWinner(c1, c2) = "EMPATE" <=> CheckWinner(c2, c1) = "EMPATE"
<1>1. ASSUME NEW a, NEW b,
             /\ CheckWinner(a, b) = "GANHOU" <=> Beats(a, b)
             /\ CheckWinner(a, b) = "PERDEU" <=> Beats(b, a)
             /\ CheckWinner(a, b) \in {"GANHOU", "PERDEU", "EMPATE"}
      PROVE  CheckWinner(a, b) = "EMPATE" <=> ~ Beats(a, b) /\ ~ Beats(b, a)
  BY <1>1
<1> QED
  BY <1>1, RulesAreKept

(* A card that is not there decides nothing: the host that reads an empty  *)
(* map announces no winner.                                                *)
THEOREM MissingCardDecidesNothing ==
  ASSUME NEW c \in Elements
  PROVE  CheckWinner(NoCard, c) = "" /\ CheckWinner(c, NoCard) = ""
BY DEF CheckWinner, Elements, NoCard, Ties, Wins, Losses

=============================================================================
