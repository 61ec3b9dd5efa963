------------------------------ MODULE MCSession ------------------------------
(* One server and two clients, for Session: the first may log in, draw a   *)
(* card, save a deck, log out and in again; the second logs in once.       *)
EXTENDS Session

CONSTANTS c1, c2, basic, rare

MCMaxRequests == [c \in Client |-> IF c = c1 THEN 6 ELSE 1]

=============================================================================
