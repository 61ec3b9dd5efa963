------------------------ MODULE MCGlobalMatchmaking ------------------------
(* Two servers, up to three players, for GlobalMatchmaking.                *)
EXTENDS GlobalMatchmaking

CONSTANTS s1, s2, u1, u2, u3

(* One player at the first server, the others at the second.               *)
MCHome == [u \in User |-> IF u = u1 THEN s1 ELSE s2]

(* Everyone has a name of its own: each player is its name.                *)
MCNameOf == [u \in User |-> u]

(* The player of the first server has a namesake at the second.            *)
MCNamesakes == [u \in User |-> IF u = u2 THEN u1 ELSE u]

=============================================================================
