---------------------------- MODULE MCCardStock ----------------------------
(* Two servers with one player each, for CardStock.  A player is named     *)
(* after its server, so that both are exchanged at once: a symmetry.       *)
EXTENDS CardStock

CONSTANTS s1, s2

MCHome == [u \in User |-> u]
Symmetry == Permutations({s1, s2})

=============================================================================
