--------------------------- MODULE MCRaftTransport ---------------------------
(* Two calling goroutines, replication and heartbeat, of two calls each.   *)
EXTENDS RaftTransport

CONSTANTS replicate, heartbeat

=============================================================================
