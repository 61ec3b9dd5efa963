--------------------------- MODULE RaftLog_proofs ---------------------------
(***************************************************************************)
(* What every module that EXTENDS RaftLog can count on, whatever commands  *)
(* (Cmd) its log holds: how one step changes the log, and its types.       *)
(***************************************************************************)
EXTENDS RaftLog, TLAPS, SequenceTheorems

USE NoServerAssumption, BoundAssumption, ThresholdAssumption

RaftTyped(Cmd) ==
  /\ log \in Seq(Cmd) /\ Len(log) <= MaxLog
  /\ commit \in 0 .. Len(log)
  /\ leader \in Server \union {NoServer}
  /\ applied \in [Server -> 0 .. commit]
  /\ snapshot \in [Server -> 0 .. commit]
  /\ faults \in 0 .. MaxFaults

(* What a step does to the variables of RaftLog.                           *)
RaftStep(Cmd) ==
  \/ UNCHANGED raftVars
  \/ Fault /\ UNCHANGED <<log, commit, leader, applied, snapshot>>
  \/ \E s \in Server, cmd \in Cmd : Replicate(s, cmd)
  \/ \E s \in Server : Elect(s) \/ Advance(s) \/ TakeSnapshot(s) \/ RestartRaft(s)
  \/ Commit
  \/ StepDown

(* No step changes a committed entry or takes it back; a step of the log   *)
(* keeps its typing.                                                       *)
LEMMA LogStep ==
  ASSUME NEW Cmd, RaftTyped(Cmd), RaftStep(Cmd)
  PROVE  /\ log' \in Seq(Cmd) /\ Len(log') <= MaxLog
         /\ commit' \in 0 .. Len(log') /\ commit <= commit'
         /\ \A i \in 1 .. commit : log'[i] = log[i]
         /\ \A i \in 1 .. Len(log') :
              \/ i \in 1 .. Len(log) /\ log'[i] = log[i]
              \/ i = Len(log) + 1
<1>1. /\ log \in Seq(Cmd) /\ Len(log) \in Nat /\ Len(log) <= MaxLog
      /\ commit \in Nat /\ commit <= Len(log)
      /\ \A i \in 1 .. Len(log) : log[i] \in Cmd
  BY LenProperties, ElementOfSeq DEF RaftTyped
<1>2. ASSUME NEW cmd \in Cmd, NEW s \in Server, Replicate(s, cmd)
      PROVE  /\ log' \in Seq(Cmd) /\ Len(log') = Len(log) + 1
             /\ \A i \in 1 .. Len(log) : log'[i] = log[i]
             /\ commit' = commit /\ Len(log) < MaxLog
  BY <1>1, <1>2, AppendProperties DEF Replicate
<1>3. ASSUME NEW s \in Server, Elect(s)
      PROVE  /\ log' \in Seq(Cmd) /\ Len(log') \in commit .. Len(log)
             /\ \A i \in 1 .. Len(log') : log'[i] = log[i]
             /\ commit' = commit
  <2>1. PICK kept \in commit .. Len(log) : log' = SubSeq(log, 1, kept)
    BY <1>3 DEF Elect
  <2>2. kept \in Nat /\ \A i \in 1 .. kept : log[i] \in Cmd
    BY <1>1, <2>1
  <2>3. /\ log' \in Seq(Cmd) /\ Len(log') = kept
        /\ \A i \in 1 .. kept : log'[i] = log[i]
    BY <2>1, <2>2, SubSeqProperties
  <2> QED
    BY <1>1, <1>3, <2>1, <2>3 DEF Elect
<1>4. CASE \E s \in Server, cmd \in Cmd : Replicate(s, cmd)
  BY <1>1, <1>2, <1>4
<1>5. CASE \E s \in Server : Elect(s)
  BY <1>1, <1>3, <1>5
<1>6. CASE Commit
  BY <1>1, <1>6 DEF Commit
<1>7. CASE UNCHANGED <<log, commit>>
  BY <1>1, <1>7
<1> QED
  BY <1>4, <1>5, <1>6, <1>7 DEF RaftStep, raftVars, Advance, TakeSnapshot, RestartRaft, StepDown

LEMMA RaftTypeNext ==
  ASSUME NEW Cmd, RaftTyped(Cmd), RaftStep(Cmd)
  PROVE  RaftTyped(Cmd)'
<1>1. /\ log' \in Seq(Cmd) /\ Len(log') <= MaxLog
      /\ commit' \in 0 .. Len(log') /\ commit <= commit'
  BY LogStep
<1>2. commit \in Nat /\ commit' \in Nat
  BY <1>1, LenProperties DEF RaftTyped
<1>3. applied' \in [Server -> 0 .. commit'] /\ snapshot' \in [Server -> 0 .. commit']
  <2>1. CASE UNCHANGED <<applied, snapshot>>
    BY <1>1, <1>2, <2>1 DEF RaftTyped
  <2>2. ASSUME NEW s \in Server, Advance(s) \/ TakeSnapshot(s) \/ RestartRaft(s)
        PROVE  applied' \in [Server -> 0 .. commit'] /\ snapshot' \in [Server -> 0 .. commit']
    <3>1. applied[s] \in 0 .. commit /\ snapshot[s] \in 0 .. commit /\ commit' = commit
      BY <2>2 DEF RaftTyped, Advance, TakeSnapshot, RestartRaft
    <3>2. CASE Advance(s)
      BY <1>2, <3>1, <3>2 DEF RaftTyped, Advance
    <3>3. CASE TakeSnapshot(s)
      BY <1>2, <3>1, <3>3 DEF RaftTyped, TakeSnapshot
    <3>4. CASE RestartRaft(s)
      BY <1>2, <3>1, <3>4 DEF RaftTyped, RestartRaft
    <3> QED
      BY <2>2, <3>2, <3>3, <3>4
  <2> QED
    BY <2>1, <2>2 DEF RaftStep, raftVars, Replicate, Elect, Commit, StepDown
<1>4. leader' \in Server \union {NoServer}
  BY DEF RaftStep, RaftTyped, raftVars, Replicate, Elect, Commit, StepDown, Advance,
     TakeSnapshot, RestartRaft
<1>5. faults' \in 0 .. MaxFaults
  BY DEF RaftStep, RaftTyped, raftVars, Replicate, Elect, Commit, StepDown, Advance,
     TakeSnapshot, RestartRaft, Fault
<1> QED
  BY <1>1, <1>3, <1>4, <1>5 DEF RaftTyped

(* While a server leads, its log only grows.                               *)
LEMMA LeaderLog ==
  ASSUME NEW Cmd, RaftTyped(Cmd), RaftStep(Cmd), leader \in Server, leader' = leader
  PROVE  \A i \in 1 .. Len(log) : i \in 1 .. Len(log') /\ log'[i] = log[i]
<1>1. leader # NoServer
  BY NoServerAssumption
<1>2. log \in Seq(Cmd) /\ Len(log) \in Nat
  BY LenProperties DEF RaftTyped
<1>3. ASSUME NEW s \in Server, NEW cmd \in Cmd, Replicate(s, cmd)
      PROVE  Len(log') = Len(log) + 1 /\ \A i \in 1 .. Len(log) : log'[i] = log[i]
  BY <1>2, <1>3, AppendProperties DEF Replicate
<1>4. CASE \E s \in Server, cmd \in Cmd : Replicate(s, cmd)
  BY <1>2, <1>3, <1>4
<1>5. CASE log' = log
  BY <1>5
<1> QED
  BY <1>1, <1>4, <1>5
  DEF RaftStep, raftVars, Elect, Advance, TakeSnapshot, RestartRaft, Commit, StepDown

=============================================================================
