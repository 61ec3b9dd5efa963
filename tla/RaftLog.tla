------------------------------ MODULE RaftLog ------------------------------
(***************************************************************************)
(* What the servers rely on of hashicorp/raft: one replicated log, of      *)
(* which a prefix is committed and never changes, at most one leader that  *)
(* may append, and one goroutine per server that hands it the committed    *)
(* entries in order.  The library is not part of the repository; this      *)
(* module states what server/start.go and server/fsm/fsm.go use of it.     *)
(* The module that EXTENDS it says what an entry is and what applying one  *)
(* does.                                                                   *)
(*                                                                         *)
(* A leader that was deposed and has not noticed yet is not a second       *)
(* leader here: it learns of no new committed entry, so what it still does *)
(* is what it could have done just before StepDown.                        *)
(***************************************************************************)
EXTENDS Naturals, Sequences

CONSTANTS
  Server,             \* the servers of the cluster
  NoServer,           \* the value of leader when no server leads
  MaxLog,             \* bound: entries in the log
  MaxFaults,          \* bound: leader changes, restarts and lost messages
  SnapshotThreshold   \* new entries between two snapshots (8192 in the library)

ASSUME NoServerAssumption == NoServer \notin Server
ASSUME BoundAssumption == MaxLog \in Nat /\ MaxFaults \in Nat
ASSUME ThresholdAssumption == SnapshotThreshold \in Nat \ {0}

VARIABLES
  log,        \* the leader's log: the committed prefix, then what it proposed
  commit,     \* index of the last committed entry
  leader,     \* the server whose State() is raft.Leader, or NoServer
  applied,    \* applied[s]: index of the last entry the FSM of s applied
  snapshot,   \* snapshot[s]: index up to which s restores after a restart
  faults      \* faults so far

raftVars == <<log, commit, leader, applied, snapshot, faults>>

RaftInit ==
  /\ log = <<>>
  /\ commit = 0
  /\ leader = NoServer
  /\ applied = [s \in Server |-> 0]
  /\ snapshot = [s \in Server |-> 0]
  /\ faults = 0

(* What a fault costs: every action that stands for one conjoins this.     *)
Fault ==
  /\ faults < MaxFaults
  /\ faults' = faults + 1

(* A server wins an election.  It has every committed entry, and of the    *)
(* entries its predecessor only proposed it has some prefix.               *)
Elect(s) ==
  /\ leader = NoServer
  /\ leader' = s
  /\ \E kept \in commit .. Len(log) : log' = SubSeq(log, 1, kept)
  /\ UNCHANGED <<commit, applied, snapshot, faults>>

(* The leader loses its quorum; its unanswered proposals fail.             *)
StepDown ==
  /\ leader # NoServer
  /\ Fault
  /\ leader' = NoServer
  /\ UNCHANGED <<log, commit, applied, snapshot>>

(* raft.Apply on the leader s: the entry is in its log, not yet committed. *)
Replicate(s, cmd) ==
  /\ leader = s
  /\ Len(log) < MaxLog
  /\ log' = Append(log, cmd)
  /\ UNCHANGED <<commit, leader, applied, snapshot, faults>>

(* A quorum has stored the next entry.                                     *)
Commit ==
  /\ leader # NoServer
  /\ commit < Len(log)
  /\ commit' = commit + 1
  /\ UNCHANGED <<log, leader, applied, snapshot, faults>>

(* The FSM of s has applied the entry after applied[s].                    *)
Advance(s) ==
  /\ applied[s] < commit
  /\ applied' = [applied EXCEPT ![s] = @ + 1]
  /\ UNCHANGED <<log, commit, leader, snapshot, faults>>

NextEntry(s) == log[applied[s] + 1]

(* The library asks the FSM of s for a snapshot and compacts its log.      *)
TakeSnapshot(s) ==
  /\ applied[s] >= snapshot[s] + SnapshotThreshold
  /\ snapshot' = [snapshot EXCEPT ![s] = applied[s]]
  /\ UNCHANGED <<log, commit, leader, applied, faults>>

(* The process of s stops and starts again.  Its log is on disk; its FSM   *)
(* starts at the last snapshot and is fed the committed entries after it.  *)
RestartRaft(s) ==
  /\ Fault
  /\ applied' = [applied EXCEPT ![s] = snapshot[s]]
  /\ leader' = IF leader = s THEN NoServer ELSE leader
  /\ UNCHANGED <<log, commit, snapshot>>

=============================================================================
