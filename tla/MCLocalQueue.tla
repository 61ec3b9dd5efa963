---------------------------- MODULE MCLocalQueue ----------------------------
(* One server and two players, of whom one may ask again, for LocalQueue.  *)
EXTENDS LocalQueue

CONSTANTS u1, u2

MCMaxRequests == [u \in User |-> IF u = u1 THEN 3 ELSE 1]

=============================================================================
