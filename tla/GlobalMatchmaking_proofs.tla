---------------------- MODULE GlobalMatchmaking_proofs ----------------------
(***************************************************************************)
(* Theorems about GlobalMatchmaking, for any servers, players, names and   *)
(* bounds.  The inductive invariant IInv adds to the properties what they  *)
(* depend on: that committed joins stand behind every queued player and    *)
(* every room about to be proposed, and committed rooms behind every       *)
(* notification.  AppliedInv relates each server to what it has applied;   *)
(* ConservedInv and RoundsInv count, as long as nothing fails, the joins   *)
(* and the rooms of each player.                                           *)
(***************************************************************************)
EXTENDS GlobalMatchmaking, RaftLog_proofs, FiniteSetTheorems, FunctionTheorems

USE NoServerAssumption, BoundAssumption, ThresholdAssumption, HomeAssumption,
    NameAssumption, JoinsAssumption, ChanCapAssumption

(***************************************************************************)
(* The parts of the inductive invariant.                                   *)
(***************************************************************************)

(* The rooms a server has yet to announce are committed.                   *)
CreatedAreCommitted ==
  \A s \in Server : \A k \in DOMAIN createdRooms[s] :
    createdRooms[s][k] <= commit /\ IsCreate(log[createdRooms[s][k]])

(* Each copy of the queue holds a player once, and by a committed join.    *)
QueueIsOfJoins ==
  \A s \in Server :
    /\ \A i, j \in DOMAIN globalQueue[s] :
         globalQueue[s][i] = globalQueue[s][j] => i = j
    /\ \A i \in DOMAIN globalQueue[s] : JoinedBy(globalQueue[s][i], commit)

(* The same of the rooms that left the queue but are not proposed.         *)
WellPaired(room, bound) ==
  /\ room.p1 # room.p2
  /\ JoinedBy(room.p1, bound)
  /\ JoinedBy(room.p2, bound)

CreatingIsOfJoins ==
  \A s \in Server : \A i \in DOMAIN creating[s] : WellPaired(creating[s][i], commit)

IInv ==
  /\ TypeOK
  /\ CreatedAreCommitted
  /\ PlaysCommitted
  /\ QueueIsOfJoins
  /\ CreatingIsOfJoins
  /\ NoSelfMatch
  /\ RoomFromJoins

(***************************************************************************)
(* Data.                                                                   *)
(***************************************************************************)
LEMMA CommandKinds ==
  ASSUME NEW cmd \in Command
  PROVE  /\ IsJoin(cmd) => cmd.user \in User /\ cmd = Join(cmd.user)
         /\ IsCreate(cmd) => cmd.room \in Room
         /\ ~ (IsJoin(cmd) /\ IsCreate(cmd))
BY DEF Command, Join, Create, IsJoin, IsCreate

LEMMA JoinIsCommand ==
  ASSUME NEW u \in User
  PROVE  Join(u) \in Command /\ IsJoin(Join(u)) /\ ~ IsCreate(Join(u))
BY DEF Command, Join, IsJoin, IsCreate

LEMMA CreateIsCommand ==
  ASSUME NEW room \in Room
  PROVE  /\ Create(room) \in Command
         /\ IsCreate(Create(room)) /\ ~ IsJoin(Create(room))
         /\ Create(room).room = room
BY DEF Command, Create, IsCreate, IsJoin

LEMMA RoomParts ==
  ASSUME NEW room \in Room
  PROVE  /\ room.p1 \in User /\ room.p2 \in User
         /\ Players(room) \subseteq User
         /\ RoomID(room) \in Name \X Name
BY DEF Room, Players, RoomID

(* RemoveAt keeps the type, and what remains was there before.             *)
LEMMA RemoveAtProperties ==
  ASSUME NEW S, NEW seq \in Seq(S), NEW i \in 1 .. Len(seq)
  PROVE  /\ RemoveAt(seq, i) \in Seq(S)
         /\ Len(RemoveAt(seq, i)) = Len(seq) - 1
         /\ \A j \in 1 .. Len(RemoveAt(seq, i)) :
              RemoveAt(seq, i)[j] = seq[IF j <= i - 1 THEN j ELSE j + 1]
         /\ \A j \in 1 .. Len(RemoveAt(seq, i)) :
              \E k \in 1 .. Len(seq) : RemoveAt(seq, i)[j] = seq[k]
<1> DEFINE front == SubSeq(seq, 1, i - 1)
           back == SubSeq(seq, i + 1, Len(seq))
<1>1. Len(seq) \in Nat /\ \A k \in 1 .. Len(seq) : seq[k] \in S
  BY LenProperties, ElementOfSeq
<1>2. /\ front \in Seq(S)
      /\ Len(front) = i - 1
      /\ \A k \in 1 .. i - 1 : front[k] = seq[k]
  <2>1. \A k \in 1 .. i - 1 : seq[k] \in S
    BY <1>1
  <2> QED
    BY <1>1, <2>1, SubSeqProperties
<1>3. /\ back \in Seq(S)
      /\ Len(back) = Len(seq) - i
      /\ \A k \in 1 .. Len(seq) - i : back[k] = seq[i + k]
  <2>1. \A k \in i + 1 .. Len(seq) : seq[k] \in S
    BY <1>1
  <2>2. /\ back \in Seq(S)
        /\ Len(back) = IF i + 1 <= Len(seq) THEN Len(seq) - (i + 1) + 1 ELSE 0
        /\ \A k \in 1 .. Len(seq) - (i + 1) + 1 : back[k] = seq[i + 1 + k - 1]
    <3> HIDE DEF back
    <3>1. i + 1 \in Int /\ Len(seq) \in Int
      BY <1>1
    <3> QED
      BY <2>1, <3>1, SubSeqProperties DEF back
  <2> HIDE DEF back
  <2> QED
    BY <1>1, <2>2
<1> HIDE DEF front, back
<1>4. RemoveAt(seq, i) = front \o back
  BY DEF RemoveAt, front, back
<1>5. /\ RemoveAt(seq, i) \in Seq(S)
      /\ Len(RemoveAt(seq, i)) = Len(seq) - 1
      /\ \A j \in 1 .. Len(seq) - 1 :
           RemoveAt(seq, i)[j] = IF j <= i - 1 THEN front[j] ELSE back[j - (i - 1)]
  BY <1>1, <1>2, <1>3, <1>4, ConcatProperties
<1>6. ASSUME NEW j \in 1 .. Len(seq) - 1
      PROVE  RemoveAt(seq, i)[j] = seq[IF j <= i - 1 THEN j ELSE j + 1]
  BY <1>1, <1>2, <1>3, <1>5
<1> QED
  BY <1>1, <1>5, <1>6

LEMMA PairCountBounds ==
  ASSUME NEW queue \in Seq(User)
  PROVE  /\ PairCount(queue) \in Nat
         /\ 2 * PairCount(queue) <= Len(queue)
<1>1. Len(queue) \in Nat
  BY LenProperties
<1> QED
  BY <1>1 DEF PairCount

(* Each room that TryMatchPlayers makes is of two places of the queue.     *)
LEMMA PairingsProperties ==
  ASSUME NEW queue \in Seq(User), NEW rooms \in Pairings(queue)
  PROVE  /\ rooms \in Seq(Room)
         /\ \A i \in 1 .. Len(rooms) : \E j, k \in 1 .. Len(queue) :
              j # k /\ rooms[i].p1 = queue[j] /\ rooms[i].p2 = queue[k]
<1> DEFINE P == 1 .. PairCount(queue)
           PlayerOf(i, k) == queue[2 * i - 2 + k]
<1>1. PICK pick \in [P -> {1, 2}] :
        rooms = [i \in P |-> [p1 |-> PlayerOf(i, 1), p2 |-> PlayerOf(i, 2),
                              host |-> Home[PlayerOf(i, pick[i])]]]
  BY DEF Pairings
<1>2. ASSUME NEW i \in P, NEW k \in {1, 2}
      PROVE  2 * i - 2 + k \in 1 .. Len(queue) /\ PlayerOf(i, k) \in User
  <2>1. Len(queue) \in Nat /\ PairCount(queue) \in Nat /\ 2 * PairCount(queue) <= Len(queue)
    BY PairCountBounds, LenProperties
  <2>2. 2 * i - 2 + k \in 1 .. Len(queue)
    BY <2>1
  <2> QED
    BY <2>2, ElementOfSeq
<1> HIDE DEF PlayerOf
<1>3. \A i \in P : rooms[i] \in Room
  <2> SUFFICES ASSUME NEW i \in P PROVE rooms[i] \in Room
    OBVIOUS
  <2>1. /\ PlayerOf(i, 1) \in User /\ PlayerOf(i, 2) \in User
        /\ PlayerOf(i, pick[i]) \in User
    BY <1>2
  <2>2. Home[PlayerOf(i, pick[i])] \in Server
    BY <2>1
  <2> QED
    BY <1>1, <2>1, <2>2 DEF Room
<1>4. rooms \in [P -> Room]
  BY <1>1, <1>3
<1>5. rooms \in Seq(Room) /\ Len(rooms) = PairCount(queue)
  BY <1>4, PairCountBounds
<1>6. ASSUME NEW i \in P
      PROVE  \E j, k \in 1 .. Len(queue) :
               j # k /\ rooms[i].p1 = queue[j] /\ rooms[i].p2 = queue[k]
  <2>1. rooms[i].p1 = PlayerOf(i, 1) /\ rooms[i].p2 = PlayerOf(i, 2)
    BY <1>1
  <2>2. 2 * i - 2 + 1 \in 1 .. Len(queue) /\ 2 * i - 2 + 2 \in 1 .. Len(queue)
    BY <1>2
  <2>3. 2 * i - 2 + 1 # 2 * i - 2 + 2
    BY PairCountBounds
  <2> QED
    BY <2>1, <2>2, <2>3 DEF PlayerOf
<1> QED
  BY <1>5, <1>6

(* What TryMatchPlayers leaves is the end of the queue.                    *)
LEMMA UnpairedProperties ==
  ASSUME NEW queue \in Seq(User)
  PROVE  /\ Unpaired(queue) \in Seq(User)
         /\ Len(Unpaired(queue)) = Len(queue) - 2 * PairCount(queue)
         /\ \A i \in 1 .. Len(Unpaired(queue)) :
              /\ i + 2 * PairCount(queue) \in 1 .. Len(queue)
              /\ Unpaired(queue)[i] = queue[i + 2 * PairCount(queue)]
<1> DEFINE m == 2 * PairCount(queue) + 1
<1>1. /\ Len(queue) \in Nat /\ PairCount(queue) \in Nat
      /\ 2 * PairCount(queue) <= Len(queue)
  BY PairCountBounds, LenProperties
<1>2. m \in Int /\ Len(queue) \in Int /\ \A i \in m .. Len(queue) : queue[i] \in User
  BY <1>1, ElementOfSeq
<1>3. Unpaired(queue) = SubSeq(queue, m, Len(queue))
  BY DEF Unpaired
<1> HIDE DEF m
<1>4. /\ Unpaired(queue) \in Seq(User)
      /\ Len(Unpaired(queue)) = IF m <= Len(queue) THEN Len(queue) - m + 1 ELSE 0
      /\ \A i \in 1 .. Len(queue) - m + 1 : Unpaired(queue)[i] = queue[m + i - 1]
  BY <1>2, <1>3, SubSeqProperties
<1>5. m = 2 * PairCount(queue) + 1
  BY DEF m
<1>6. Len(Unpaired(queue)) = Len(queue) - 2 * PairCount(queue)
  BY <1>1, <1>4, <1>5
<1>7. ASSUME NEW i \in 1 .. Len(Unpaired(queue))
      PROVE  /\ i + 2 * PairCount(queue) \in 1 .. Len(queue)
             /\ i \in 1 .. Len(queue) - m + 1
             /\ m + i - 1 = i + 2 * PairCount(queue)
  BY <1>1, <1>5, <1>6
<1> QED
  BY <1>4, <1>6, <1>7

(***************************************************************************)
(* Type correctness.                                                       *)
(***************************************************************************)
LEMMA TypeInit ==
  ASSUME Init
  PROVE  TypeOK
<1>1. /\ <<>> \in Seq(Command) /\ <<>> \in Seq(User)
      /\ <<>> \in Seq(Index) /\ <<>> \in Seq(Room)
      /\ Len(<<>>) = 0
  BY EmptySeq
<1>2. RaftTypeOK
  BY <1>1 DEF Init, RaftInit, RaftTypeOK
<1>3. FSMTypeOK
  BY <1>1 DEF Init, FSMTypeOK
<1>4. ClientTypeOK /\ LocalTypeOK
  BY DEF Init, ClientTypeOK, LocalTypeOK, NotSending
<1> QED
  BY <1>2, <1>3, <1>4 DEF TypeOK

LEMMA NextIsRaftStep ==
  ASSUME TypeOK, [Next]_vars
  PROVE  RaftStep(Command)
<1>1. ASSUME NEW u \in User, UserStep(u) PROVE RaftStep(Command)
  <2>1. CASE SendToGlobalQueue(u)
    BY <2>1, JoinIsCommand DEF SendToGlobalQueue, RaftStep, TypeOK, RaftTypeOK
  <2>2. CASE JoinUnanswered(u) \/ SendRefused(u)
    BY <2>2 DEF JoinUnanswered, SendRefused, RaftStep
  <2> QED
    BY <1>1, <2>1, <2>2 DEF UserStep, JoinQueue, SendWithoutLeader, EndGame, RaftStep
<1>2. ASSUME NEW s \in Server, ServerStep(s) PROVE RaftStep(Command)
  <2>1. CASE ProposeRoom(s)
    <3>1. creating[s] \in Seq(Room) /\ DOMAIN creating[s] = 1 .. Len(creating[s])
      BY LenProperties DEF TypeOK, FSMTypeOK
    <3>2. PICK i \in 1 .. Len(creating[s]) : Replicate(s, Create(creating[s][i]))
      BY <2>1, <3>1 DEF ProposeRoom
    <3>3. Create(creating[s][i]) \in Command
      BY <3>1, ElementOfSeq, CreateIsCommand
    <3> QED
      BY <3>2, <3>3 DEF RaftStep
  <2>2. CASE ApplyNewJoin(s) \/ ApplyDuplicateJoin(s) \/ ApplyCreateRoom(s)
    BY <2>2 DEF ApplyNewJoin, ApplyDuplicateJoin, ApplyJoin, ApplyCreateRoom, RaftStep
  <2>3. CASE ElectLeader(s) \/ Snapshot(s) \/ Restart(s)
    BY <2>3 DEF ElectLeader, Snapshot, Restart, NewFSM, NewQueue, RaftStep
  <2> QED
    BY <1>2, <2>1, <2>2, <2>3
    DEF ServerStep, SendAnswered, BlockOnQueueMu, TryMatchPlayers, ProposalRefused,
        ConsumeCreatedRoom, RaftStep
<1>3. ASSUME NEW m \in msgs, Deliver(m) \/ Lose(m) PROVE RaftStep(Command)
  BY <1>3 DEF Deliver, Lose, RaftStep
<1>4. ASSUME CommitEntry \/ LoseLeadership PROVE RaftStep(Command)
  BY <1>4 DEF CommitEntry, LoseLeadership, RaftStep
<1>5. CASE UNCHANGED vars
  BY <1>5 DEF vars, RaftStep
<1> QED
  BY <1>1, <1>2, <1>3, <1>4, <1>5 DEF Next

(* A step takes back no committed entry and changes none.                  *)
LEMMA CommittedStays ==
  ASSUME TypeOK, [Next]_vars
  PROVE  /\ commit \in Nat /\ commit' \in Nat /\ commit <= commit'
         /\ \A k \in 1 .. commit : log'[k] = log[k]
<1>1. RaftTyped(Command) /\ RaftStep(Command)
  BY NextIsRaftStep DEF TypeOK, RaftTypeOK, RaftTyped
<1>2. /\ log' \in Seq(Command) /\ commit' \in 0 .. Len(log') /\ commit <= commit'
      /\ \A k \in 1 .. commit : log'[k] = log[k]
  BY <1>1, LogStep
<1>3. Len(log) \in Nat /\ Len(log') \in Nat
  BY <1>2, LenProperties DEF TypeOK, RaftTypeOK
<1> QED
  BY <1>2, <1>3 DEF TypeOK, RaftTypeOK

LEMMA FSMTypeNext ==
  ASSUME TypeOK, [Next]_vars
  PROVE  FSMTypeOK'
<1>0. /\ Len(log) \in Nat /\ commit \in Nat /\ commit <= Len(log) /\ Len(log) <= MaxLog
      /\ \A i \in 1 .. Len(log) : log[i] \in Command
      /\ \A s \in Server : applied[s] \in 0 .. commit
  BY LenProperties, ElementOfSeq DEF TypeOK, RaftTypeOK
<1>1. CASE UNCHANGED fsmVars
  BY <1>1 DEF fsmVars, TypeOK, FSMTypeOK
<1>2. ASSUME NEW s \in Server, ApplyNewJoin(s) PROVE FSMTypeOK'
  <2>1. NextEntry(s).user \in User
    BY <1>0, <1>2, CommandKinds DEF ApplyNewJoin, ApplyJoin, Advance, NextEntry
  <2>2. Append(globalQueue[s], NextEntry(s).user) \in Seq(User)
    BY <2>1, AppendProperties DEF TypeOK, FSMTypeOK
  <2> QED
    BY <1>2, <2>2 DEF ApplyNewJoin, ApplyJoin, TypeOK, FSMTypeOK
<1>3. ASSUME NEW s \in Server, ApplyDuplicateJoin(s) PROVE FSMTypeOK'
  BY <1>3 DEF ApplyDuplicateJoin, ApplyJoin, TypeOK, FSMTypeOK
<1>4. ASSUME NEW s \in Server, ApplyCreateRoom(s) PROVE FSMTypeOK'
  <2> DEFINE i == applied[s] + 1
  <2>1. i \in Index /\ i \in 0 .. MaxLog /\ NextEntry(s) \in Command
    BY <1>0, <1>4 DEF ApplyCreateRoom, Advance, NextEntry, Index
  <2>2. RoomID(NextEntry(s).room) \in Name \X Name
    BY <1>4, <2>1, CommandKinds, RoomParts DEF ApplyCreateRoom
  <2> HIDE DEF i
  <2>3. Put(createdRooms[s], i) \in Seq(Index) /\ Len(Put(createdRooms[s], i)) <= ChanCap
    <3>1. createdRooms[s] \in Seq(Index) /\ Len(createdRooms[s]) \in Nat
      BY LenProperties DEF TypeOK, FSMTypeOK
    <3>2. Append(createdRooms[s], i) \in Seq(Index)
          /\ Len(Append(createdRooms[s], i)) = Len(createdRooms[s]) + 1
      BY <2>1, <3>1, AppendProperties
    <3>3. Len(createdRooms[s]) <= ChanCap
      BY DEF TypeOK, FSMTypeOK
    <3> QED
      BY <3>1, <3>2, <3>3 DEF Put
  <2>4. /\ globalRooms' = [globalRooms EXCEPT ![s][RoomID(NextEntry(s).room)] = i]
        /\ createdRooms' = [createdRooms EXCEPT ![s] = Put(@, i)]
        /\ UNCHANGED <<globalQueue, globalQueueMu, fsmMu, creating>>
    BY <1>4 DEF ApplyCreateRoom, i
  <2>5. globalRooms' \in [Server -> [Name \X Name -> 0 .. MaxLog]]
    BY <2>1, <2>2, <2>4 DEF TypeOK, FSMTypeOK
  <2>6. /\ createdRooms' \in [Server -> Seq(Index)]
        /\ \A t \in Server : Len(createdRooms'[t]) <= ChanCap
    BY <2>3, <2>4 DEF TypeOK, FSMTypeOK
  <2> QED
    BY <2>4, <2>5, <2>6 DEF TypeOK, FSMTypeOK
<1>5. ASSUME NEW s \in Server, BlockOnQueueMu(s) PROVE FSMTypeOK'
  BY <1>5 DEF BlockOnQueueMu, TypeOK, FSMTypeOK
<1>6. ASSUME NEW s \in Server, TryMatchPlayers(s) PROVE FSMTypeOK'
  <2>1. PICK rooms \in Pairings(globalQueue[s]) :
          creating' = [creating EXCEPT ![s] = @ \o rooms]
    BY <1>6 DEF TryMatchPlayers
  <2>2. globalQueue[s] \in Seq(User) /\ creating[s] \in Seq(Room)
    BY DEF TypeOK, FSMTypeOK
  <2>3. /\ creating[s] \o rooms \in Seq(Room)
        /\ Unpaired(globalQueue[s]) \in Seq(User)
    BY <2>2, PairingsProperties, UnpairedProperties, ConcatProperties
  <2> QED
    BY <1>6, <2>1, <2>3 DEF TryMatchPlayers, TypeOK, FSMTypeOK
<1>7. ASSUME NEW s \in Server, ProposeRoom(s) \/ ProposalRefused(s) PROVE FSMTypeOK'
  <2>1. creating[s] \in Seq(Room) /\ DOMAIN creating[s] = 1 .. Len(creating[s])
    BY LenProperties DEF TypeOK, FSMTypeOK
  <2>2. PICK i \in 1 .. Len(creating[s]) :
          creating' = [creating EXCEPT ![s] = RemoveAt(@, i)]
    BY <1>7, <2>1 DEF ProposeRoom, ProposalRefused
  <2>3. RemoveAt(creating[s], i) \in Seq(Room)
    BY <2>1, RemoveAtProperties
  <2> QED
    BY <1>7, <2>2, <2>3 DEF ProposeRoom, ProposalRefused, TypeOK, FSMTypeOK
<1>8. ASSUME NEW s \in Server, ConsumeCreatedRoom(s) PROVE FSMTypeOK'
  <2>1. createdRooms[s] \in Seq(Index) /\ createdRooms[s] # <<>>
        /\ Len(createdRooms[s]) \in Nat /\ Len(createdRooms[s]) <= ChanCap
    BY <1>8, LenProperties DEF ConsumeCreatedRoom, TypeOK, FSMTypeOK
  <2>2. Tail(createdRooms[s]) \in Seq(Index) /\ Len(Tail(createdRooms[s])) <= ChanCap
    BY <2>1, HeadTailProperties
  <2> QED
    BY <1>8, <2>2 DEF ConsumeCreatedRoom, TypeOK, FSMTypeOK
<1>9. ASSUME NEW s \in Server, Restart(s) PROVE FSMTypeOK'
  <2>1. <<>> \in Seq(User) /\ <<>> \in Seq(Index) /\ <<>> \in Seq(Room) /\ Len(<<>>) = 0
    BY EmptySeq
  <2> QED
    BY <1>9, <2>1 DEF Restart, NewFSM, NewQueue, TypeOK, FSMTypeOK
<1>10. ASSUME NEW s \in Server, ServerStep(s) PROVE FSMTypeOK'
  BY <1>1, <1>2, <1>3, <1>4, <1>5, <1>6, <1>7, <1>8, <1>9, <1>10
  DEF ServerStep, SendAnswered, ElectLeader, Snapshot
<1>11. ASSUME NEW u \in User, UserStep(u) PROVE UNCHANGED fsmVars
  BY <1>11 DEF UserStep, JoinQueue, JoinUnanswered, Enqueue, SendWithoutLeader, SendRefused,
     SendToGlobalQueue, EndGame
<1>12. ASSUME NEW m \in msgs, Deliver(m) \/ Lose(m) PROVE UNCHANGED fsmVars
  BY <1>12 DEF Deliver, Lose
<1>13. ASSUME CommitEntry \/ LoseLeadership PROVE UNCHANGED fsmVars
  BY <1>13 DEF CommitEntry, LoseLeadership
<1>14. CASE UNCHANGED vars
  BY <1>1, <1>14 DEF vars
<1> QED
  BY <1>1, <1>10, <1>11, <1>12, <1>13, <1>14 DEF Next

LEMMA LocalTypeNext ==
  ASSUME TypeOK, [Next]_vars
  PROVE  LocalTypeOK'
<1>0. Len(log) \in Nat
  BY LenProperties DEF TypeOK, RaftTypeOK
<1>1. CASE UNCHANGED <<localVars, joins>>
  BY <1>1 DEF localVars, TypeOK, LocalTypeOK
<1>2. ASSUME NEW u \in User, UserStep(u) PROVE LocalTypeOK'
  <2>1. CASE JoinQueue(u) \/ JoinUnanswered(u)
    BY <2>1 DEF JoinQueue, JoinUnanswered, Enqueue, TypeOK, LocalTypeOK, ClientTypeOK
  <2>2. CASE SendWithoutLeader(u) \/ SendRefused(u)
    BY <2>2 DEF SendWithoutLeader, SendRefused, clientVars, TypeOK, LocalTypeOK, ClientTypeOK
  <2>3. CASE SendToGlobalQueue(u)
    <3>1. Len(log) + 1 \in 0 .. MaxLog /\ leader \in Server \union {NoServer}
      BY <1>0, <2>3 DEF SendToGlobalQueue, Replicate, TypeOK, RaftTypeOK
    <3>2. sending' \in [Server -> [to : Server \union {NoServer}, index : 0 .. MaxLog]]
      BY <2>3, <3>1 DEF SendToGlobalQueue, TypeOK, LocalTypeOK
    <3>3. unsent' \in [User -> Nat] /\ \A v \in User : unsent'[v] <= joins'[v]
      BY <2>3 DEF SendToGlobalQueue, clientVars, TypeOK, LocalTypeOK, ClientTypeOK
    <3> QED
      BY <3>2, <3>3 DEF LocalTypeOK
  <2>4. CASE EndGame(u)
    BY <1>1, <2>4 DEF EndGame
  <2> QED
    BY <1>2, <2>1, <2>2, <2>3, <2>4 DEF UserStep
<1>3. ASSUME NEW s \in Server, ServerStep(s) PROVE LocalTypeOK'
  <2>1. CASE SendAnswered(s)
    BY <2>1 DEF SendAnswered, NotSending, clientVars, TypeOK, LocalTypeOK
  <2>2. CASE Restart(s)
    <3>1. sending' \in [Server -> [to : Server \union {NoServer}, index : 0 .. MaxLog]]
      BY <2>2 DEF Restart, NewFSM, NewQueue, NotSending, TypeOK, LocalTypeOK
    <3>2. unsent' \in [User -> Nat] /\ \A v \in User : unsent'[v] <= joins'[v]
      BY <2>2 DEF Restart, NewFSM, NewQueue, clientVars, TypeOK, LocalTypeOK, ClientTypeOK
    <3> QED
      BY <3>1, <3>2 DEF LocalTypeOK
  <2> QED
    BY <1>1, <1>3, <2>1, <2>2
    DEF ServerStep, ApplyNewJoin, ApplyDuplicateJoin, ApplyJoin, ApplyCreateRoom,
        BlockOnQueueMu, TryMatchPlayers, ProposeRoom, ProposalRefused, ConsumeCreatedRoom,
        ElectLeader, Snapshot, clientVars
<1>4. ASSUME NEW m \in msgs, Deliver(m) \/ Lose(m) PROVE LocalTypeOK'
  BY <1>1, <1>4 DEF Deliver, Lose, clientVars
<1>5. CASE CommitEntry
  BY <1>1, <1>5 DEF CommitEntry, clientVars
<1>6. CASE LoseLeadership
  BY <1>6 DEF LoseLeadership, NotSending, clientVars, TypeOK, LocalTypeOK
<1>7. CASE UNCHANGED vars
  BY <1>1, <1>7 DEF vars, clientVars
<1> QED
  BY <1>2, <1>3, <1>4, <1>5, <1>6, <1>7 DEF Next

(* What waits first in CreatedRooms, and its announcements.                *)
LEMMA HeadOfCreated ==
  ASSUME TypeOK, CreatedAreCommitted, NEW s \in Server, createdRooms[s] # <<>>
  PROVE  LET i == Head(createdRooms[s])
         IN /\ i \in Index /\ i <= commit /\ IsCreate(log[i])
            /\ Announcements(i) \subseteq Message
            /\ \A m \in Announcements(i) : CommittedRoomOf(m.room, m.to)
<1> DEFINE i == Head(createdRooms[s])
<1>1. createdRooms[s] \in Seq(Index)
  BY DEF TypeOK, FSMTypeOK
<1>2. 1 \in DOMAIN createdRooms[s] /\ i = createdRooms[s][1]
  BY <1>1, EmptySeq, LenProperties
<1>3. i \in Index /\ i <= commit /\ IsCreate(log[i])
  BY <1>1, <1>2, HeadTailProperties DEF CreatedAreCommitted
<1>4. log[i] \in Command
  <2>1. i \in 1 .. Len(log)
    BY <1>3, LenProperties DEF TypeOK, RaftTypeOK, Index
  <2> QED
    BY <2>1, ElementOfSeq DEF TypeOK, RaftTypeOK
<1>5. Players(log[i].room) \subseteq User
  BY <1>3, <1>4, CommandKinds, RoomParts
<1> HIDE DEF i
<1>6. Announcements(i) \subseteq Message
  BY <1>3, <1>5 DEF Announcements, Message
<1>7. \A m \in Announcements(i) : CommittedRoomOf(m.room, m.to)
  <2>1. i \in 1 .. commit
    BY <1>3, LenProperties DEF Index, TypeOK, RaftTypeOK
  <2>2. ASSUME NEW m \in Announcements(i) PROVE m.room = i /\ m.to \in Players(log[i].room)
    BY DEF Announcements
  <2> QED
    BY <1>3, <2>1, <2>2 DEF CommittedRoomOf
<1> QED
  BY <1>3, <1>6, <1>7 DEF i

LEMMA ClientTypeNext ==
  ASSUME TypeOK, CreatedAreCommitted, [Next]_vars
  PROVE  ClientTypeOK'
<1>1. CASE UNCHANGED <<clientVars, msgs>>
  BY <1>1 DEF clientVars, TypeOK, ClientTypeOK
<1>2. ASSUME NEW u \in User, UserStep(u) PROVE ClientTypeOK'
  <2>1. CASE JoinQueue(u) \/ JoinUnanswered(u)
    <3>1. joins[u] + 1 \in 0 .. MaxJoins
      BY <2>1 DEF JoinQueue, JoinUnanswered, Enqueue, TypeOK, ClientTypeOK
    <3>2. joins' = [joins EXCEPT ![u] = joins[u] + 1] /\ UNCHANGED <<match, msgs>>
      BY <2>1 DEF JoinQueue, JoinUnanswered, Enqueue
    <3>3. phase' \in [User -> {"idle", "waiting", "playing"}]
      BY <2>1 DEF JoinQueue, JoinUnanswered, TypeOK, ClientTypeOK
    <3> QED
      BY <3>1, <3>2, <3>3 DEF TypeOK, ClientTypeOK
  <2>2. CASE SendWithoutLeader(u) \/ SendRefused(u) \/ SendToGlobalQueue(u)
    BY <1>1, <2>2 DEF SendWithoutLeader, SendRefused, SendToGlobalQueue
  <2>3. CASE EndGame(u)
    BY <2>3 DEF EndGame, TypeOK, ClientTypeOK
  <2> QED
    BY <1>2, <2>1, <2>2, <2>3 DEF UserStep
<1>3. ASSUME NEW s \in Server, ConsumeCreatedRoom(s) PROVE ClientTypeOK'
  BY <1>3, HeadOfCreated DEF ConsumeCreatedRoom, clientVars, TypeOK, ClientTypeOK
<1>4. ASSUME NEW s \in Server, ServerStep(s) PROVE ClientTypeOK'
  BY <1>1, <1>3, <1>4
  DEF ServerStep, SendAnswered, ApplyNewJoin, ApplyDuplicateJoin, ApplyJoin, ApplyCreateRoom,
      BlockOnQueueMu, TryMatchPlayers, ProposeRoom, ProposalRefused, ElectLeader, Snapshot,
      Restart, NewFSM, NewQueue
<1>5. ASSUME NEW m \in msgs, Deliver(m) \/ Lose(m) PROVE ClientTypeOK'
  <2>1. m.to \in User /\ m.room \in 0 .. MaxLog
    BY DEF TypeOK, ClientTypeOK, Message, Index
  <2> QED
    BY <1>5, <2>1 DEF Deliver, Lose, clientVars, TypeOK, ClientTypeOK
<1>6. CASE CommitEntry \/ LoseLeadership
  BY <1>1, <1>6 DEF CommitEntry, LoseLeadership
<1>7. CASE UNCHANGED vars
  BY <1>1, <1>7 DEF vars
<1> QED
  BY <1>2, <1>4, <1>5, <1>6, <1>7 DEF Next

LEMMA TypeNext ==
  ASSUME TypeOK, CreatedAreCommitted, [Next]_vars
  PROVE  TypeOK'
<1>1. RaftTypeOK'
  BY NextIsRaftStep, RaftTypeNext DEF TypeOK, RaftTypeOK, RaftTyped
<1> QED
  BY <1>1, FSMTypeNext, ClientTypeNext, LocalTypeNext DEF TypeOK

(***************************************************************************)
(* Rooms that are announced are committed.                                 *)
(***************************************************************************)
LEMMA CommittedRoomStays ==
  ASSUME TypeOK, [Next]_vars, NEW i \in Index, NEW u, CommittedRoomOf(i, u)
  PROVE  CommittedRoomOf(i, u)'
<1>1. /\ commit \in Nat /\ commit' \in Nat /\ commit <= commit'
      /\ \A k \in 1 .. commit : log'[k] = log[k]
  BY CommittedStays
<1> QED
  BY <1>1 DEF CommittedRoomOf, Index

LEMMA CreatedNext ==
  ASSUME TypeOK, CreatedAreCommitted, [Next]_vars
  PROVE  CreatedAreCommitted'
<1>0. /\ commit \in Nat /\ commit' \in Nat /\ commit <= commit'
      /\ \A k \in 1 .. commit : log'[k] = log[k]
  BY CommittedStays
<1> SUFFICES ASSUME NEW s \in Server, NEW k \in DOMAIN createdRooms'[s]
             PROVE  createdRooms'[s][k] <= commit' /\ IsCreate(log'[createdRooms'[s][k]])
  BY DEF CreatedAreCommitted, IsCreate
<1> DEFINE Committed(i) == i \in Index /\ i <= commit /\ IsCreate(log[i])
<1>1. createdRooms \in [Server -> Seq(Index)] /\ createdRooms[s] \in Seq(Index)
  BY DEF TypeOK, FSMTypeOK
<1>2. ASSUME Committed(createdRooms'[s][k])
      PROVE  createdRooms'[s][k] <= commit' /\ IsCreate(log'[createdRooms'[s][k]])
  BY <1>0, <1>2 DEF Index, IsCreate
<1>3. \A j \in DOMAIN createdRooms[s] : Committed(createdRooms[s][j])
  BY <1>1, LenProperties, ElementOfSeq DEF CreatedAreCommitted
<1> HIDE DEF Committed
<1>4. CASE createdRooms'[s] = createdRooms[s]
  BY <1>2, <1>3, <1>4
<1>5. CASE ApplyCreateRoom(s)
  <2> DEFINE i == applied[s] + 1
  <2>1. Committed(i)
    <3>1. applied[s] \in 0 .. commit /\ applied[s] < commit /\ commit <= MaxLog
      BY <1>0, <1>5, LenProperties DEF ApplyCreateRoom, Advance, TypeOK, RaftTypeOK
    <3> QED
      BY <1>0, <1>5, <3>1 DEF ApplyCreateRoom, NextEntry, Index, Committed
  <2>2. createdRooms'[s] = Put(createdRooms[s], i)
    BY <1>1, <1>5 DEF ApplyCreateRoom
  <2>3. CASE Put(createdRooms[s], i) = createdRooms[s]
    BY <1>4, <2>2, <2>3
  <2>4. CASE createdRooms'[s] = Append(createdRooms[s], i)
    <3>1. i \in Index
      BY <2>1 DEF Committed
    <3> HIDE DEF i
    <3>2. /\ DOMAIN createdRooms'[s] = 1 .. Len(createdRooms[s]) + 1
          /\ DOMAIN createdRooms[s] = 1 .. Len(createdRooms[s])
          /\ Len(createdRooms[s]) \in Nat
      BY <1>1, <2>4, <3>1, AppendProperties, LenProperties
    <3>3. \/ k \in DOMAIN createdRooms[s] /\ createdRooms'[s][k] = createdRooms[s][k]
          \/ createdRooms'[s][k] = i
      BY <1>1, <2>4, <3>1, <3>2, AppendProperties
    <3> QED
      BY <1>2, <1>3, <2>1, <3>3
  <2> QED
    BY <2>2, <2>3, <2>4 DEF Put
<1>6. CASE ConsumeCreatedRoom(s)
  <2>1. createdRooms[s] # <<>> /\ createdRooms'[s] = Tail(createdRooms[s])
    BY <1>1, <1>6 DEF ConsumeCreatedRoom
  <2>2. k + 1 \in DOMAIN createdRooms[s] /\ createdRooms'[s][k] = createdRooms[s][k + 1]
    BY <1>1, <2>1, HeadTailProperties, LenProperties
  <2> QED
    BY <1>2, <1>3, <2>2
<1>7. CASE Restart(s)
  <2>1. createdRooms'[s] = <<>>
    BY <1>1, <1>7 DEF Restart, NewFSM, NewQueue
  <2> QED
    BY <2>1
<1>8. \/ createdRooms'[s] = createdRooms[s]
      \/ ApplyCreateRoom(s) \/ ConsumeCreatedRoom(s) \/ Restart(s)
  <2>1. ASSUME NEW t \in Server, ServerStep(t)
        PROVE  \/ createdRooms'[s] = createdRooms[s]
               \/ ApplyCreateRoom(s) \/ ConsumeCreatedRoom(s) \/ Restart(s)
    <3>1. CASE t = s
      BY <2>1, <3>1 DEF ServerStep, SendAnswered, ApplyNewJoin, ApplyDuplicateJoin, ApplyJoin,
         BlockOnQueueMu, TryMatchPlayers, ProposeRoom, ProposalRefused, ElectLeader, Snapshot,
         fsmVars
    <3>2. CASE t # s
      BY <1>1, <2>1, <3>2 DEF ServerStep, SendAnswered, ApplyNewJoin, ApplyDuplicateJoin,
         ApplyJoin, ApplyCreateRoom, BlockOnQueueMu, TryMatchPlayers, ProposeRoom,
         ProposalRefused, ConsumeCreatedRoom, ElectLeader, Snapshot, Restart, NewFSM, NewQueue, fsmVars
    <3> QED
      BY <3>1, <3>2
  <2>2. ASSUME NEW u \in User, UserStep(u) PROVE createdRooms' = createdRooms
    BY <2>2 DEF UserStep, JoinQueue, JoinUnanswered, Enqueue, SendWithoutLeader, SendRefused,
       SendToGlobalQueue, EndGame, fsmVars
  <2>3. ASSUME NEW m \in msgs, Deliver(m) \/ Lose(m) PROVE createdRooms' = createdRooms
    BY <2>3 DEF Deliver, Lose, fsmVars
  <2>4. CASE CommitEntry \/ LoseLeadership \/ UNCHANGED vars
    BY <2>4 DEF CommitEntry, LoseLeadership, fsmVars, vars
  <2> QED
    BY <2>1, <2>2, <2>3, <2>4 DEF Next
<1> QED
  BY <1>4, <1>5, <1>6, <1>7, <1>8

LEMMA PlaysNext ==
  ASSUME TypeOK, CreatedAreCommitted, PlaysCommitted, [Next]_vars
  PROVE  PlaysCommitted'
<1>0. commit \in Nat /\ commit <= MaxLog
  BY LenProperties DEF TypeOK, RaftTypeOK
<1>1. ASSUME NEW i, NEW u, CommittedRoomOf(i, u) PROVE CommittedRoomOf(i, u)'
  <2>1. i \in Index
    BY <1>0, <1>1 DEF CommittedRoomOf, Index
  <2> QED
    BY <1>1, <2>1, CommittedRoomStays
<1> DEFINE New == \E s \in Server : createdRooms[s] # <<>>
                    /\ msgs' \subseteq msgs \union Announcements(Head(createdRooms[s]))
<1>2. msgs' \subseteq msgs \/ New
  <2>1. ASSUME NEW s \in Server, ServerStep(s) PROVE msgs' \subseteq msgs \/ New
    BY <2>1 DEF ServerStep, SendAnswered, ApplyNewJoin, ApplyDuplicateJoin, ApplyJoin,
       ApplyCreateRoom, BlockOnQueueMu, TryMatchPlayers, ProposeRoom, ProposalRefused,
       ConsumeCreatedRoom, ElectLeader, Snapshot, Restart, NewFSM, NewQueue
  <2>2. ASSUME NEW u \in User, UserStep(u) PROVE msgs' = msgs
    BY <2>2 DEF UserStep, JoinQueue, JoinUnanswered, Enqueue, SendWithoutLeader, SendRefused,
       SendToGlobalQueue, EndGame
  <2>3. ASSUME NEW m \in msgs, Deliver(m) \/ Lose(m) PROVE msgs' \subseteq msgs
    BY <2>3 DEF Deliver, Lose
  <2>4. CASE CommitEntry \/ LoseLeadership \/ UNCHANGED vars
    BY <2>4 DEF CommitEntry, LoseLeadership, vars
  <2> QED
    BY <2>1, <2>2, <2>3, <2>4 DEF Next
<1>3. ASSUME NEW m \in msgs' PROVE CommittedRoomOf(m.room, m.to)'
  <2>1. CASE m \in msgs
    BY <1>1, <2>1 DEF PlaysCommitted
  <2>2. CASE New /\ m \notin msgs
    <3>1. PICK s \in Server : createdRooms[s] # <<>> /\ m \in Announcements(Head(createdRooms[s]))
      BY <1>2, <1>3, <2>2
    <3> QED
      BY <1>1, <3>1, HeadOfCreated
  <2> QED
    BY <1>2, <1>3, <2>1, <2>2
<1>4. ASSUME NEW u \in User, phase'[u] = "playing"
      PROVE  \/ phase[u] = "playing" /\ match'[u] = match[u]
             \/ CommittedRoomOf(match'[u], u)
  <2>1. CASE UNCHANGED <<phase, match>>
    BY <1>4, <2>1
  <2>2. ASSUME NEW m \in msgs, Deliver(m)
        PROVE  \/ phase[u] = "playing" /\ match'[u] = match[u]
               \/ CommittedRoomOf(match'[u], u)
    BY <1>4, <2>2 DEF Deliver, PlaysCommitted, TypeOK, ClientTypeOK
  <2>3. ASSUME NEW v \in User, UserStep(v)
        PROVE  phase[u] = "playing" /\ match'[u] = match[u]
    <3>1. CASE JoinQueue(v)
      BY <1>4, <3>1 DEF JoinQueue, Enqueue, TypeOK, ClientTypeOK
    <3>2. CASE EndGame(v)
      BY <1>4, <3>2 DEF EndGame, TypeOK, ClientTypeOK
    <3> QED
      BY <1>4, <2>3, <3>1, <3>2 DEF UserStep, JoinUnanswered, Enqueue, SendWithoutLeader,
         SendRefused, SendToGlobalQueue, clientVars
  <2>4. ASSUME NEW s \in Server, ServerStep(s) PROVE UNCHANGED <<phase, match>>
    BY <2>4 DEF ServerStep, SendAnswered, ApplyNewJoin, ApplyDuplicateJoin, ApplyJoin,
       ApplyCreateRoom, BlockOnQueueMu, TryMatchPlayers, ProposeRoom, ProposalRefused,
       ConsumeCreatedRoom, ElectLeader, Snapshot, Restart, NewFSM, NewQueue, clientVars
  <2>5. ASSUME NEW m \in msgs, Lose(m) PROVE UNCHANGED <<phase, match>>
    BY <2>5 DEF Lose, clientVars
  <2>6. CASE CommitEntry \/ LoseLeadership \/ UNCHANGED vars
    BY <2>1, <2>6 DEF CommitEntry, LoseLeadership, vars, clientVars
  <2> QED
    BY <2>1, <2>2, <2>3, <2>4, <2>5, <2>6 DEF Next
<1>5. ASSUME NEW u \in User, phase'[u] = "playing" PROVE CommittedRoomOf(match[u], u)'
  BY <1>1, <1>4, <1>5 DEF PlaysCommitted
<1> QED
  BY <1>3, <1>5 DEF PlaysCommitted

(***************************************************************************)
(* Joins stand behind the queues, and the queues behind the rooms.         *)
(***************************************************************************)
JoinedAfter(u) == \E i \in 1 .. commit' : log'[i] = Join(u)

WellPairedAfter(room) ==
  room.p1 # room.p2 /\ JoinedAfter(room.p1) /\ JoinedAfter(room.p2)

LEMMA JoinedStays ==
  ASSUME TypeOK, [Next]_vars, NEW u, JoinedBy(u, commit)
  PROVE  JoinedAfter(u)
<1>1. /\ commit \in Nat /\ commit' \in Nat /\ commit <= commit'
      /\ \A k \in 1 .. commit : log'[k] = log[k]
  BY CommittedStays
<1> QED
  BY <1>1 DEF JoinedBy, JoinedAfter

LEMMA WellPairedStays ==
  ASSUME TypeOK, [Next]_vars, NEW room, WellPaired(room, commit)
  PROVE  WellPairedAfter(room)
BY JoinedStays DEF WellPaired, WellPairedAfter

(* Which steps touch the queue of a server, and the rooms it proposes.     *)
LEMMA QueueSteps ==
  ASSUME TypeOK, [Next]_vars, NEW s \in Server
  PROVE  /\ \/ globalQueue'[s] = globalQueue[s]
            \/ ApplyNewJoin(s) \/ TryMatchPlayers(s) \/ Restart(s)
         /\ \/ creating'[s] = creating[s]
            \/ TryMatchPlayers(s) \/ ProposeRoom(s) \/ ProposalRefused(s) \/ Restart(s)
<1>1. ASSUME NEW t \in Server, ServerStep(t), t = s
      PROVE  /\ \/ globalQueue' = globalQueue
                \/ ApplyNewJoin(s) \/ TryMatchPlayers(s) \/ Restart(s)
             /\ \/ creating' = creating
                \/ TryMatchPlayers(s) \/ ProposeRoom(s) \/ ProposalRefused(s) \/ Restart(s)
  <2>1. CASE ApplyNewJoin(s) \/ ApplyDuplicateJoin(s) \/ ApplyCreateRoom(s) \/ BlockOnQueueMu(s)
    BY <2>1 DEF ApplyNewJoin, ApplyDuplicateJoin, ApplyJoin, ApplyCreateRoom, BlockOnQueueMu
  <2>2. CASE \/ SendAnswered(s) \/ ConsumeCreatedRoom(s) \/ ElectLeader(s) \/ Snapshot(s)
             \/ ProposeRoom(s) \/ ProposalRefused(s)
    BY <2>2 DEF SendAnswered, ConsumeCreatedRoom, ElectLeader, Snapshot, ProposeRoom,
       ProposalRefused, fsmVars
  <2> QED
    BY <1>1, <2>1, <2>2 DEF ServerStep
<1>2. ASSUME NEW t \in Server, ServerStep(t), t # s
      PROVE  globalQueue'[s] = globalQueue[s] /\ creating'[s] = creating[s]
  <2>0. /\ globalQueue \in [Server -> Seq(User)] /\ creating \in [Server -> Seq(Room)]
    BY DEF TypeOK, FSMTypeOK
  <2>1. CASE ApplyNewJoin(t) \/ ApplyDuplicateJoin(t) \/ ApplyCreateRoom(t) \/ BlockOnQueueMu(t)
    BY <1>2, <2>0, <2>1
    DEF ApplyNewJoin, ApplyDuplicateJoin, ApplyJoin, ApplyCreateRoom, BlockOnQueueMu
  <2>2. CASE SendAnswered(t) \/ ConsumeCreatedRoom(t) \/ ElectLeader(t) \/ Snapshot(t)
    BY <2>2 DEF SendAnswered, ConsumeCreatedRoom, ElectLeader, Snapshot, fsmVars
  <2>3. CASE TryMatchPlayers(t) \/ ProposeRoom(t) \/ ProposalRefused(t) \/ Restart(t)
    BY <1>2, <2>0, <2>3 DEF TryMatchPlayers, ProposeRoom, ProposalRefused, Restart, NewFSM, NewQueue
  <2> QED
    BY <1>2, <2>1, <2>2, <2>3 DEF ServerStep
<1>3. ASSUME NEW u \in User, UserStep(u) PROVE UNCHANGED fsmVars
  BY <1>3 DEF UserStep, JoinQueue, JoinUnanswered, Enqueue, SendWithoutLeader, SendRefused,
     SendToGlobalQueue, EndGame
<1>4. ASSUME NEW m \in msgs, Deliver(m) \/ Lose(m) PROVE UNCHANGED fsmVars
  BY <1>4 DEF Deliver, Lose
<1>5. CASE CommitEntry \/ LoseLeadership \/ UNCHANGED vars
  BY <1>5 DEF CommitEntry, LoseLeadership, vars, fsmVars
<1> QED
  BY <1>1, <1>2, <1>3, <1>4, <1>5 DEF Next, fsmVars

LEMMA QueueNext ==
  ASSUME TypeOK, QueueIsOfJoins, [Next]_vars
  PROVE  QueueIsOfJoins'
<1> SUFFICES ASSUME NEW s \in Server
             PROVE  /\ \A i, j \in DOMAIN globalQueue'[s] :
                         globalQueue'[s][i] = globalQueue'[s][j] => i = j
                    /\ \A i \in DOMAIN globalQueue'[s] :
                         JoinedAfter(globalQueue'[s][i])
  BY DEF QueueIsOfJoins, JoinedBy, JoinedAfter, Join
<1> DEFINE q == globalQueue[s]
<1>1. /\ globalQueue \in [Server -> Seq(User)] /\ q \in Seq(User)
      /\ Len(q) \in Nat /\ DOMAIN q = 1 .. Len(q)
  BY LenProperties DEF TypeOK, FSMTypeOK
<1>2. /\ \A i, j \in DOMAIN q : q[i] = q[j] => i = j
      /\ \A i \in DOMAIN q : JoinedBy(q[i], commit)
  BY DEF QueueIsOfJoins
<1>3. \A i \in DOMAIN q : JoinedAfter(q[i])
  BY <1>2, JoinedStays
<1>4. CASE globalQueue'[s] = q
  BY <1>2, <1>3, <1>4
<1>5. CASE ApplyNewJoin(s)
  <2> DEFINE u == NextEntry(s).user
  <2>1. applied[s] + 1 \in 1 .. commit /\ commit \in Nat /\ commit <= Len(log)
    BY <1>5, LenProperties DEF ApplyNewJoin, ApplyJoin, Advance, TypeOK, RaftTypeOK
  <2>2. NextEntry(s) \in Command
    <3>1. Len(log) \in Nat
      BY LenProperties DEF TypeOK, RaftTypeOK
    <3>2. applied[s] + 1 \in 1 .. Len(log)
      BY <2>1, <3>1
    <3> QED
      BY <3>2, ElementOfSeq DEF NextEntry, TypeOK, RaftTypeOK
  <2>3. u \in User /\ log[applied[s] + 1] = Join(u)
    BY <1>5, <2>2, CommandKinds DEF ApplyNewJoin, ApplyJoin, NextEntry
  <2>4. JoinedAfter(u)
    BY <2>1, <2>3, JoinedStays DEF JoinedBy
  <2>5. globalQueue'[s] = Append(q, u)
    BY <1>1, <1>5 DEF ApplyNewJoin
  <2>6. \A i \in DOMAIN q : q[i] # u
    BY <1>5 DEF ApplyNewJoin, Queued
  <2> HIDE DEF u, q
  <2>7. /\ DOMAIN globalQueue'[s] = 1 .. Len(q) + 1
        /\ \A i \in 1 .. Len(q) : globalQueue'[s][i] = q[i]
        /\ globalQueue'[s][Len(q) + 1] = u
    BY <1>1, <2>3, <2>5, AppendProperties, LenProperties
  <2>8. ASSUME NEW i \in DOMAIN globalQueue'[s], NEW j \in DOMAIN globalQueue'[s],
               globalQueue'[s][i] = globalQueue'[s][j]
        PROVE  i = j
    <3>1. i \in DOMAIN q \/ i = Len(q) + 1
      BY <1>1, <2>7
    <3>2. j \in DOMAIN q \/ j = Len(q) + 1
      BY <1>1, <2>7
    <3> QED
      BY <1>1, <1>2, <2>6, <2>7, <2>8, <3>1, <3>2
  <2>9. ASSUME NEW i \in DOMAIN globalQueue'[s] PROVE JoinedAfter(globalQueue'[s][i])
    <3>1. CASE i \in DOMAIN q
      BY <1>1, <1>3, <2>7, <3>1
    <3>2. CASE i = Len(q) + 1
      BY <2>4, <2>7, <3>2
    <3> QED
      BY <1>1, <2>7, <3>1, <3>2
  <2> QED
    BY <2>8, <2>9
<1>6. CASE TryMatchPlayers(s)
  <2>1. globalQueue'[s] = Unpaired(q)
    BY <1>1, <1>6 DEF TryMatchPlayers
  <2>2. /\ Unpaired(q) \in Seq(User)
        /\ DOMAIN Unpaired(q) = 1 .. Len(Unpaired(q))
        /\ PairCount(q) \in Nat
    BY <1>1, UnpairedProperties, PairCountBounds, LenProperties
  <2> HIDE DEF q
  <2>3. ASSUME NEW i \in DOMAIN Unpaired(q)
        PROVE  /\ i \in Int /\ i + 2 * PairCount(q) \in DOMAIN q
               /\ Unpaired(q)[i] = q[i + 2 * PairCount(q)]
    <3>1. \A k \in 1 .. Len(Unpaired(q)) :
            /\ k + 2 * PairCount(q) \in 1 .. Len(q)
            /\ Unpaired(q)[k] = q[k + 2 * PairCount(q)]
      BY <1>1, UnpairedProperties
    <3>2. i \in 1 .. Len(Unpaired(q)) /\ i \in Int
      BY <2>2, LenProperties
    <3> QED
      BY <1>1, <3>1, <3>2
  <2>4. ASSUME NEW i \in DOMAIN Unpaired(q), NEW j \in DOMAIN Unpaired(q),
               Unpaired(q)[i] = Unpaired(q)[j]
        PROVE  i = j
    <3>1. i + 2 * PairCount(q) = j + 2 * PairCount(q)
      BY <1>2, <2>3, <2>4
    <3> QED
      BY <2>2, <2>3, <3>1
  <2>5. \A i \in DOMAIN Unpaired(q) : JoinedAfter(Unpaired(q)[i])
    BY <1>3, <2>3
  <2> QED
    BY <2>1, <2>4, <2>5
<1>7. CASE Restart(s)
  <2>1. globalQueue'[s] = <<>>
    BY <1>1, <1>7 DEF Restart, NewFSM, NewQueue
  <2> QED
    BY <2>1
<1> QED
  BY <1>4, <1>5, <1>6, <1>7, QueueSteps

LEMMA CreatingNext ==
  ASSUME TypeOK, QueueIsOfJoins, CreatingIsOfJoins, [Next]_vars
  PROVE  CreatingIsOfJoins'
<1> SUFFICES ASSUME NEW s \in Server, NEW i \in DOMAIN creating'[s]
             PROVE  WellPairedAfter(creating'[s][i])
  BY DEF CreatingIsOfJoins, WellPaired, WellPairedAfter, JoinedBy, JoinedAfter, Join
<1> DEFINE c == creating[s]
<1>1. /\ creating \in [Server -> Seq(Room)] /\ c \in Seq(Room)
      /\ Len(c) \in Nat /\ DOMAIN c = 1 .. Len(c)
  BY LenProperties DEF TypeOK, FSMTypeOK
<1>2. \A k \in 1 .. Len(c) : WellPairedAfter(c[k])
  BY <1>1, WellPairedStays DEF CreatingIsOfJoins
<1>3. CASE creating'[s] = c
  BY <1>1, <1>2, <1>3
<1>4. CASE TryMatchPlayers(s)
  <2> DEFINE q == globalQueue[s]
  <2>1. PICK rooms \in Pairings(q) : creating' = [creating EXCEPT ![s] = @ \o rooms]
    BY <1>4 DEF TryMatchPlayers
  <2>2. q \in Seq(User) /\ DOMAIN q = 1 .. Len(q)
    BY LenProperties DEF TypeOK, FSMTypeOK
  <2>3. ASSUME NEW k \in 1 .. Len(rooms) PROVE WellPairedAfter(rooms[k])
    <3>1. PICK x, y \in 1 .. Len(q) :
            x # y /\ rooms[k].p1 = q[x] /\ rooms[k].p2 = q[y]
      BY <2>2, PairingsProperties
    <3>2. WellPaired(rooms[k], commit)
      BY <2>2, <3>1 DEF WellPaired, QueueIsOfJoins
    <3> QED
      BY <3>2, WellPairedStays
  <2>4. rooms \in Seq(Room) /\ Len(rooms) \in Nat
    BY <2>2, PairingsProperties, LenProperties
  <2>5. creating'[s] = c \o rooms
    BY <1>1, <2>1
  <2> HIDE DEF c
  <2>6. \/ i \in 1 .. Len(c) /\ creating'[s][i] = c[i]
        \/ i - Len(c) \in 1 .. Len(rooms) /\ creating'[s][i] = rooms[i - Len(c)]
    <3>1. /\ DOMAIN creating'[s] = 1 .. Len(c) + Len(rooms)
          /\ \A k \in 1 .. Len(c) + Len(rooms) :
               creating'[s][k] = IF k <= Len(c) THEN c[k] ELSE rooms[k - Len(c)]
      BY <1>1, <2>4, <2>5, ConcatProperties, LenProperties
    <3> QED
      BY <1>1, <2>4, <3>1
  <2> QED
    BY <1>2, <2>3, <2>6
<1>5. CASE ProposeRoom(s) \/ ProposalRefused(s)
  <2>1. PICK j \in 1 .. Len(c) : creating' = [creating EXCEPT ![s] = RemoveAt(@, j)]
    BY <1>1, <1>5 DEF ProposeRoom, ProposalRefused
  <2>2. creating'[s] = RemoveAt(c, j)
    BY <1>1, <2>1
  <2> HIDE DEF c
  <2>3. RemoveAt(c, j) \in Seq(Room) /\ i \in 1 .. Len(RemoveAt(c, j))
    BY <1>1, <2>2, RemoveAtProperties, LenProperties
  <2>4. \E k \in 1 .. Len(c) : creating'[s][i] = c[k]
    BY <1>1, <2>2, <2>3, RemoveAtProperties
  <2> QED
    BY <1>2, <2>4
<1>6. CASE Restart(s)
  <2>1. creating'[s] = <<>>
    BY <1>1, <1>6 DEF Restart, NewFSM, NewQueue
  <2> QED
    BY <2>1
<1> QED
  BY <1>3, <1>4, <1>5, <1>6, QueueSteps

(***************************************************************************)
(* The rooms of the log.                                                   *)
(***************************************************************************)

(* An entry of the log was there before, or it is new, and then a room     *)
(* comes from creating.                                                    *)
LEMMA NewEntry ==
  ASSUME TypeOK, CreatingIsOfJoins, [Next]_vars, NEW i \in 1 .. Len(log')
  PROVE  \/ i \in 1 .. Len(log) /\ log'[i] = log[i]
         \/ /\ i = Len(log) + 1
            /\ ~ IsCreate(log'[i]) \/ WellPaired(log'[i].room, commit)
<1>0. /\ log \in Seq(Command) /\ Len(log) \in Nat
      /\ \A k \in 1 .. Len(log') :
           (k \in 1 .. Len(log) /\ log'[k] = log[k]) \/ k = Len(log) + 1
  BY NextIsRaftStep, LogStep, LenProperties DEF TypeOK, RaftTypeOK, RaftTyped
<1> DEFINE Added(cmd) == log' = Append(log, cmd)
<1>1. ASSUME NEW cmd \in Command, Added(cmd)
      PROVE  log'[Len(log) + 1] = cmd
  BY <1>0, <1>1, AppendProperties
<1>2. CASE UNCHANGED log
  BY <1>2
<1>3. ASSUME NEW s \in Server, ElectLeader(s)
      PROVE  i \in 1 .. Len(log) /\ log'[i] = log[i]
  <2>1. PICK kept \in commit .. Len(log) : log' = SubSeq(log, 1, kept)
    BY <1>3 DEF ElectLeader, Elect
  <2>2. kept \in Int /\ \A k \in 1 .. kept : log[k] \in Command
    BY <1>0, <2>1, ElementOfSeq DEF TypeOK, RaftTypeOK
  <2>3. kept \in Nat /\ kept <= Len(log) /\ Len(log') = kept
    BY <1>0, <2>1, <2>2, SubSeqProperties, LenProperties DEF TypeOK, RaftTypeOK
  <2> QED
    BY <1>0, <2>3
<1>4. ASSUME NEW u \in User, SendToGlobalQueue(u)
      PROVE  i = Len(log) + 1 => ~ IsCreate(log'[i])
  <2>1. Added(Join(u))
    BY <1>4 DEF SendToGlobalQueue, Replicate
  <2> QED
    BY <1>1, <2>1, JoinIsCommand
<1>5. ASSUME NEW s \in Server, ProposeRoom(s)
      PROVE  i = Len(log) + 1 => WellPaired(log'[i].room, commit)
  <2>1. creating[s] \in Seq(Room) /\ DOMAIN creating[s] = 1 .. Len(creating[s])
    BY LenProperties DEF TypeOK, FSMTypeOK
  <2>2. PICK k \in 1 .. Len(creating[s]) : Replicate(s, Create(creating[s][k]))
    BY <1>5, <2>1 DEF ProposeRoom
  <2>3. creating[s][k] \in Room /\ WellPaired(creating[s][k], commit)
    BY <2>1, ElementOfSeq DEF CreatingIsOfJoins
  <2>4. Added(Create(creating[s][k]))
    BY <2>2 DEF Replicate
  <2> QED
    BY <1>1, <2>3, <2>4, CreateIsCommand
<1>6. ASSUME NEW u \in User, UserStep(u)
      PROVE  UNCHANGED log \/ SendToGlobalQueue(u)
  BY <1>6 DEF UserStep, JoinQueue, JoinUnanswered, SendWithoutLeader, SendRefused, EndGame, raftVars
<1>7. ASSUME NEW s \in Server, ServerStep(s)
      PROVE  UNCHANGED log \/ ElectLeader(s) \/ ProposeRoom(s)
  BY <1>7 DEF ServerStep, SendAnswered, ApplyNewJoin, ApplyDuplicateJoin, ApplyJoin,
     ApplyCreateRoom, Advance, BlockOnQueueMu, TryMatchPlayers, ProposalRefused,
     ConsumeCreatedRoom, Snapshot, TakeSnapshot, Restart, NewFSM, NewQueue, RestartRaft, raftVars
<1>8. ASSUME NEW m \in msgs, Deliver(m) \/ Lose(m) PROVE UNCHANGED log
  BY <1>8 DEF Deliver, Lose, raftVars
<1>9. ASSUME CommitEntry \/ LoseLeadership \/ UNCHANGED vars PROVE UNCHANGED log
  BY <1>9 DEF CommitEntry, Commit, LoseLeadership, StepDown, vars, raftVars
<1> HIDE DEF Added
<1> QED
  BY <1>0, <1>2, <1>3, <1>4, <1>5, <1>6, <1>7, <1>8, <1>9 DEF Next

LEMMA RoomsNext ==
  ASSUME TypeOK, CreatingIsOfJoins, RoomFromJoins, [Next]_vars
  PROVE  RoomFromJoins'
<1>0. /\ Len(log) \in Nat /\ commit \in Nat /\ commit <= Len(log)
      /\ DOMAIN log = 1 .. Len(log)
      /\ log' \in Seq(Command) /\ Len(log') \in Nat /\ DOMAIN log' = 1 .. Len(log')
  BY NextIsRaftStep, LogStep, LenProperties DEF TypeOK, RaftTypeOK, RaftTyped
<1> SUFFICES ASSUME NEW i \in 1 .. Len(log'), IsCreate(log'[i]),
                    NEW u \in Players(log'[i].room)
             PROVE  \E k \in 1 .. i - 1 : log'[k] = Join(u)
  BY <1>0 DEF RoomFromJoins, JoinedBy, IsCreate, Players, Join
<1>1. ASSUME NEW k \in 1 .. i - 1, k \in 1 .. Len(log) PROVE log'[k] = log[k]
  <2>1. k \in 1 .. Len(log') /\ k # Len(log) + 1
    BY <1>0, <1>1
  <2> QED
    BY <2>1, NewEntry
<1>2. CASE i \in 1 .. Len(log) /\ log'[i] = log[i]
  <2>1. \E k \in 1 .. i - 1 : log[k] = Join(u)
    BY <1>0, <1>2 DEF RoomFromJoins, JoinedBy
  <2> QED
    BY <1>0, <1>1, <1>2, <2>1
<1>3. CASE i = Len(log) + 1 /\ WellPaired(log'[i].room, commit)
  <2>1. \E k \in 1 .. commit : log[k] = Join(u)
    BY <1>3 DEF WellPaired, JoinedBy, Players
  <2> QED
    BY <1>0, <1>1, <1>3, <2>1
<1> QED
  BY <1>2, <1>3, NewEntry

LEMMA SelfMatchNext ==
  ASSUME TypeOK, QueueIsOfJoins, CreatingIsOfJoins, NoSelfMatch, [Next]_vars
  PROVE  NoSelfMatch'
<1>0. /\ DOMAIN log = 1 .. Len(log)
      /\ DOMAIN log' = 1 .. Len(log')
  BY NextIsRaftStep, LogStep, LenProperties DEF TypeOK, RaftTypeOK, RaftTyped
<1>1. ASSUME NEW i \in 1 .. Len(log'), IsCreate(log'[i])
      PROVE  log'[i].room.p1 # log'[i].room.p2
  BY <1>0, <1>1, NewEntry DEF NoSelfMatch, WellPaired
<1>2. ASSUME NEW s \in Server, NEW i \in DOMAIN creating'[s]
      PROVE  creating'[s][i].p1 # creating'[s][i].p2
  BY CreatingNext DEF CreatingIsOfJoins, WellPaired
<1> QED
  BY <1>0, <1>1, <1>2 DEF NoSelfMatch, IsCreate

(***************************************************************************)
(* The invariant, and what follows from it.                                *)
(***************************************************************************)
LEMMA InvInit ==
  ASSUME Init
  PROVE  IInv
<1>1. TypeOK
  BY TypeInit
<1>2. CreatedAreCommitted /\ QueueIsOfJoins /\ CreatingIsOfJoins
  BY DEF Init, CreatedAreCommitted, QueueIsOfJoins, CreatingIsOfJoins
<1>3. PlaysCommitted
  BY DEF Init, PlaysCommitted
<1>4. NoSelfMatch /\ RoomFromJoins
  BY DEF Init, RaftInit, NoSelfMatch, RoomFromJoins
<1> QED
  BY <1>1, <1>2, <1>3, <1>4 DEF IInv

LEMMA InvNext ==
  ASSUME IInv, [Next]_vars
  PROVE  IInv'
BY TypeNext, CreatedNext, PlaysNext, QueueNext, CreatingNext, SelfMatchNext, RoomsNext
DEF IInv

(* Every server copy of the queue and every room on its way stays backed   *)
(* by committed entries of the log (fsm.go, Apply and TryMatchPlayers).    *)
THEOREM Invariance == Spec => []IInv
BY InvInit, InvNext, PTL DEF Spec

(* Every variable keeps its type: in particular no copy of the queue, no   *)
(* room and no message is of anyone but a player, and CreatedRooms never   *)
(* holds more than its capacity (fsm.go, the non-blocking send).           *)
THEOREM TypeCorrect == Spec => []TypeOK
<1>1. IInv => TypeOK
  BY DEF IInv
<1> QED
  BY <1>1, Invariance, PTL

(* No player is paired with itself, however often it joins and whichever   *)
(* servers lead or restart (the duplicate check of QUEUE_JOIN_GLOBAL).     *)
THEOREM NeverSelfMatched == Spec => []NoSelfMatch
<1>1. IInv => NoSelfMatch
  BY DEF IInv
<1> QED
  BY <1>1, Invariance, PTL

(* Every room of the log comes after a join of both its players            *)
(* (TryMatchPlayers reads a queue that only committed joins fill).         *)
THEOREM RoomsComeFromJoins == Spec => []RoomFromJoins
<1>1. IInv => RoomFromJoins
  BY DEF IInv
<1> QED
  BY <1>1, Invariance, PTL

(* A player plays in, and is told of, committed rooms of its own only (the *)
(* consumer of CreatedRooms announces what Apply has put there).           *)
THEOREM PlayersPlayCommittedRooms == Spec => []PlaysCommitted
<1>1. IInv => PlaysCommitted
  BY DEF IInv
<1> QED
  BY <1>1, Invariance, PTL

(***************************************************************************)
(* What a server has applied: its lost lock, and its rooms.                *)
(***************************************************************************)

(* Each copy of the queue is of joins that its server has applied.         *)
QueueIsApplied ==
  \A s \in Server : \A i \in DOMAIN globalQueue[s] : JoinedBy(globalQueue[s][i], applied[s])

(* Only who waits for the lost GlobalQueueMu keeps FSM.mu.                 *)
BlockedOnQueueMu == \A s \in Server : fsmMu[s] => globalQueueMu[s]

AppliedInv ==
  /\ QueueIsApplied
  /\ BlockedOnQueueMu
  /\ WedgeNeedsRejoin
  /\ RoomsAreLatest

(* Which steps touch the locks and the rooms of a server, and what it has  *)
(* applied.                                                                *)
LEMMA ApplySteps ==
  ASSUME TypeOK, [Next]_vars, NEW s \in Server
  PROVE  \/ Restart(s)
         \/ ApplyNewJoin(s) \/ ApplyDuplicateJoin(s) \/ ApplyCreateRoom(s)
         \/ /\ applied'[s] = applied[s]
            /\ globalRooms'[s] = globalRooms[s]
            /\ globalQueueMu'[s] = globalQueueMu[s]
            /\ fsmMu'[s] = fsmMu[s] \/ globalQueueMu[s]
<1> DEFINE Same == /\ applied'[s] = applied[s]
                   /\ globalRooms'[s] = globalRooms[s]
                   /\ globalQueueMu'[s] = globalQueueMu[s]
                   /\ fsmMu'[s] = fsmMu[s] \/ globalQueueMu[s]
<1>0. /\ applied \in [Server -> 0 .. commit]
      /\ globalRooms \in [Server -> [Name \X Name -> 0 .. MaxLog]]
      /\ globalQueueMu \in [Server -> BOOLEAN]
      /\ fsmMu \in [Server -> BOOLEAN]
  BY DEF TypeOK, RaftTypeOK, FSMTypeOK
<1>1. ASSUME NEW t \in Server, BlockOnQueueMu(t) PROVE Same
  <2>1. UNCHANGED <<applied, globalRooms, globalQueueMu>>
    BY <1>1 DEF BlockOnQueueMu, raftVars
  <2>2. t = s => globalQueueMu[s]
    BY <1>1 DEF BlockOnQueueMu
  <2>3. t # s => fsmMu'[s] = fsmMu[s]
    BY <1>0, <1>1 DEF BlockOnQueueMu
  <2> QED
    BY <2>1, <2>2, <2>3
<1>2. ASSUME NEW t \in Server, t # s,
             ApplyNewJoin(t) \/ ApplyDuplicateJoin(t) \/ ApplyCreateRoom(t)
      PROVE  Same
  BY <1>0, <1>2 DEF ApplyNewJoin, ApplyDuplicateJoin, ApplyJoin, ApplyCreateRoom, Advance
<1>3. ASSUME NEW t \in Server, t # s, Restart(t) PROVE Same
  BY <1>0, <1>3 DEF Restart, RestartRaft, NewFSM, NewQueue
<1>4. ASSUME NEW t \in Server,
             \/ SendAnswered(t) \/ TryMatchPlayers(t) \/ ProposeRoom(t) \/ ProposalRefused(t)
             \/ ConsumeCreatedRoom(t) \/ ElectLeader(t) \/ Snapshot(t)
      PROVE  Same
  BY <1>4 DEF SendAnswered, TryMatchPlayers, ProposeRoom, ProposalRefused, ConsumeCreatedRoom,
     ElectLeader, Elect, Snapshot, TakeSnapshot, Replicate, raftVars, fsmVars
<1>5. ASSUME NEW u \in User, UserStep(u) PROVE Same
  BY <1>5 DEF UserStep, JoinQueue, JoinUnanswered, Enqueue, SendWithoutLeader, SendRefused,
     SendToGlobalQueue, EndGame, Replicate, raftVars, fsmVars
<1>6. ASSUME NEW m \in msgs, Deliver(m) \/ Lose(m) PROVE Same
  BY <1>6 DEF Deliver, Lose, raftVars, fsmVars
<1>7. CASE CommitEntry \/ LoseLeadership \/ UNCHANGED vars
  BY <1>7 DEF CommitEntry, Commit, LoseLeadership, StepDown, vars, raftVars, fsmVars
<1> QED
  BY <1>1, <1>2, <1>3, <1>4, <1>5, <1>6, <1>7 DEF Next, ServerStep

(* The entry that Apply is given is committed, and stays.                  *)
LEMMA AppliedEntry ==
  ASSUME TypeOK, [Next]_vars, NEW s \in Server
  PROVE  /\ applied[s] \in Nat /\ applied[s] <= commit
         /\ \A k \in 1 .. commit : log'[k] = log[k]
         /\ Advance(s) => /\ applied'[s] = applied[s] + 1
                          /\ applied[s] + 1 \in 1 .. commit
                          /\ log[applied[s] + 1] \in Command
<1>1. /\ applied \in [Server -> 0 .. commit] /\ commit \in Nat /\ commit <= Len(log)
      /\ log \in Seq(Command) /\ Len(log) \in Nat
  BY LenProperties DEF TypeOK, RaftTypeOK
<1>2. \A k \in 1 .. commit : log'[k] = log[k]
  BY NextIsRaftStep, LogStep DEF TypeOK, RaftTypeOK, RaftTyped
<1>3. ASSUME Advance(s)
      PROVE  applied'[s] = applied[s] + 1 /\ applied[s] + 1 \in 1 .. commit
  BY <1>1, <1>3 DEF Advance
<1>4. ASSUME Advance(s) PROVE log[applied[s] + 1] \in Command
  BY <1>1, <1>3, <1>4, ElementOfSeq
<1> QED
  BY <1>1, <1>2, <1>3, <1>4

LEMMA QueueAppliedNext ==
  ASSUME TypeOK, QueueIsApplied, [Next]_vars
  PROVE  QueueIsApplied'
<1> DEFINE Done(s, u) == \E k \in 1 .. applied'[s] : log'[k] = Join(u)
<1> SUFFICES ASSUME NEW s \in Server, NEW i \in DOMAIN globalQueue'[s]
             PROVE  Done(s, globalQueue'[s][i])
  BY DEF QueueIsApplied, JoinedBy, Join
<1> DEFINE q == globalQueue[s]
<1>1. /\ globalQueue \in [Server -> Seq(User)] /\ q \in Seq(User)
      /\ Len(q) \in Nat /\ DOMAIN q = 1 .. Len(q)
  BY LenProperties DEF TypeOK, FSMTypeOK
<1>2. CASE Restart(s)
  <2>1. globalQueue'[s] = <<>>
    BY <1>1, <1>2 DEF Restart, NewFSM, NewQueue
  <2> QED
    BY <2>1
<1>3. ASSUME ~ Restart(s), NEW u, JoinedBy(u, applied[s]) PROVE Done(s, u)
  <2>1. applied'[s] = applied[s] \/ applied'[s] = applied[s] + 1
    BY <1>3, ApplySteps, AppliedEntry
    DEF ApplyNewJoin, ApplyDuplicateJoin, ApplyJoin, ApplyCreateRoom
  <2>2. commit \in Nat
    BY LenProperties DEF TypeOK, RaftTypeOK
  <2>3. PICK k \in 1 .. applied[s] : log[k] = Join(u)
    BY <1>3 DEF JoinedBy
  <2> QED
    BY <2>1, <2>2, <2>3, AppliedEntry
<1>4. CASE ~ Restart(s) /\ globalQueue'[s] = q
  BY <1>3, <1>4 DEF QueueIsApplied
<1>5. CASE ~ Restart(s) /\ ApplyNewJoin(s)
  <2> DEFINE u == NextEntry(s).user
  <2>1. /\ applied'[s] = applied[s] + 1 /\ applied[s] + 1 \in 1 .. commit
        /\ NextEntry(s) \in Command /\ IsJoin(NextEntry(s))
    BY <1>5, AppliedEntry DEF ApplyNewJoin, ApplyJoin, NextEntry
  <2>2. u \in User /\ log[applied[s] + 1] = Join(u)
    BY <2>1, CommandKinds DEF NextEntry
  <2>3. Done(s, u)
    BY <2>1, <2>2, AppliedEntry
  <2>4. globalQueue'[s] = Append(q, u)
    BY <1>1, <1>5 DEF ApplyNewJoin
  <2> HIDE DEF u, q, Done
  <2>5. \/ i \in DOMAIN q /\ globalQueue'[s][i] = q[i]
        \/ globalQueue'[s][i] = u
    BY <1>1, <2>2, <2>4, AppendProperties, LenProperties
  <2>6. ASSUME i \in DOMAIN q PROVE Done(s, q[i])
    BY <1>3, <1>5, <2>6 DEF QueueIsApplied, q
  <2> QED
    BY <2>3, <2>5, <2>6
<1>6. CASE ~ Restart(s) /\ TryMatchPlayers(s)
  <2>1. globalQueue'[s] = Unpaired(q)
    BY <1>1, <1>6 DEF TryMatchPlayers
  <2> HIDE DEF q
  <2>2. /\ Unpaired(q) \in Seq(User)
        /\ DOMAIN Unpaired(q) = 1 .. Len(Unpaired(q))
    BY <1>1, UnpairedProperties, LenProperties
  <2>3. i \in 1 .. Len(Unpaired(q))
    BY <2>1, <2>2
  <2>4. /\ i + 2 * PairCount(q) \in DOMAIN q
        /\ globalQueue'[s][i] = q[i + 2 * PairCount(q)]
    BY <1>1, <2>1, <2>3, UnpairedProperties
  <2>5. JoinedBy(q[i + 2 * PairCount(q)], applied[s])
    BY <2>4 DEF QueueIsApplied, q
  <2> QED
    BY <1>3, <1>6, <2>4, <2>5
<1> QED
  BY <1>2, <1>4, <1>5, <1>6, QueueSteps

LEMMA BlockedNext ==
  ASSUME TypeOK, BlockedOnQueueMu, [Next]_vars
  PROVE  BlockedOnQueueMu'
<1> SUFFICES ASSUME NEW s \in Server, fsmMu'[s] PROVE globalQueueMu'[s]
  BY DEF BlockedOnQueueMu
<1>0. globalQueueMu \in [Server -> BOOLEAN] /\ fsmMu \in [Server -> BOOLEAN]
  BY DEF TypeOK, FSMTypeOK
<1>1. CASE Restart(s)
  BY <1>0, <1>1 DEF Restart, NewFSM, NewQueue
<1>2. CASE ApplyNewJoin(s) \/ ApplyDuplicateJoin(s) \/ ApplyCreateRoom(s)
  <2>1. UNCHANGED fsmMu /\ ~ fsmMu[s]
    BY <1>2 DEF ApplyNewJoin, ApplyDuplicateJoin, ApplyJoin, ApplyCreateRoom
  <2> QED
    BY <2>1
<1>3. CASE globalQueueMu'[s] = globalQueueMu[s] /\ (fsmMu'[s] = fsmMu[s] \/ globalQueueMu[s])
  BY <1>3 DEF BlockedOnQueueMu
<1> QED
  BY <1>1, <1>2, <1>3, ApplySteps

LEMMA WedgeNext ==
  ASSUME TypeOK, QueueIsApplied, BlockedOnQueueMu, WedgeNeedsRejoin, [Next]_vars
  PROVE  WedgeNeedsRejoin'
<1> DEFINE Twice(s) == \E i, j \in 1 .. applied'[s] :
                         i # j /\ IsJoin(log'[i]) /\ log'[i] = log'[j]
<1> SUFFICES ASSUME NEW s \in Server, globalQueueMu'[s] PROVE Twice(s)
  BY BlockedNext DEF WedgeNeedsRejoin, BlockedOnQueueMu, IsJoin
<1>0. globalQueueMu \in [Server -> BOOLEAN] /\ commit \in Nat
  BY LenProperties DEF TypeOK, FSMTypeOK, RaftTypeOK
<1>1. CASE Restart(s)
  BY <1>0, <1>1 DEF Restart, NewFSM, NewQueue
<1>2. CASE ApplyDuplicateJoin(s)
  <2> DEFINE j == applied[s] + 1
  <2>1. /\ applied'[s] = j /\ j \in 1 .. commit
        /\ log[j] \in Command /\ IsJoin(log[j]) /\ Queued(s, log[j].user)
    BY <1>2, AppliedEntry DEF ApplyDuplicateJoin, ApplyJoin, NextEntry
  <2>2. log[j] = Join(log[j].user)
    BY <2>1, CommandKinds
  <2>3. PICK i \in 1 .. applied[s] : log[i] = Join(log[j].user)
    BY <2>1 DEF Queued, QueueIsApplied, JoinedBy
  <2>4. log'[i] = log[i] /\ log'[j] = log[j] /\ i # j /\ i \in 1 .. applied'[s]
    BY <1>0, <2>1, <2>3, AppliedEntry
  <2> HIDE DEF j
  <2> QED
    BY <1>0, <2>1, <2>2, <2>3, <2>4
<1>3. CASE ~ ApplyDuplicateJoin(s) /\ ~ Restart(s)
  <2>1. /\ globalQueueMu[s]
        /\ applied'[s] = applied[s] \/ applied'[s] = applied[s] + 1
    BY <1>3, ApplySteps, AppliedEntry DEF ApplyNewJoin, ApplyJoin, ApplyCreateRoom
  <2>2. PICK i, j \in 1 .. applied[s] : i # j /\ IsJoin(log[i]) /\ log[i] = log[j]
    BY <2>1 DEF WedgeNeedsRejoin
  <2>3. /\ i \in 1 .. applied'[s] /\ j \in 1 .. applied'[s]
        /\ log'[i] = log[i] /\ log'[j] = log[j]
    BY <1>0, <2>1, <2>2, AppliedEntry
  <2> QED
    BY <2>2, <2>3
<1> QED
  BY <1>1, <1>2, <1>3

IsOfID(cmd, id) == IsCreate(cmd) /\ RoomID(cmd.room) = id

LEMMA RoomsLatestNext ==
  ASSUME TypeOK, RoomsAreLatest, [Next]_vars
  PROVE  RoomsAreLatest'
<1> DEFINE Latest(i, s, id) ==
             i # 0 => /\ i <= applied'[s]
                      /\ IsOfID(log'[i], id)
                      /\ \A k \in i + 1 .. applied'[s] : ~ IsOfID(log'[k], id)
<1> SUFFICES ASSUME NEW s \in Server, NEW id \in Name \X Name
             PROVE  Latest(globalRooms'[s][id], s, id)
  BY DEF RoomsAreLatest, IsOfID, IsCreate, RoomID
<1> DEFINE i == globalRooms[s][id]
<1>0. /\ globalRooms \in [Server -> [Name \X Name -> 0 .. MaxLog]] /\ i \in Nat
      /\ commit \in Nat /\ applied[s] \in Nat /\ applied[s] <= commit
      /\ \A k \in 1 .. commit : log'[k] = log[k]
  <2>1. globalRooms \in [Server -> [Name \X Name -> 0 .. MaxLog]] /\ MaxLog \in Nat
    BY BoundAssumption DEF TypeOK, FSMTypeOK
  <2>2. globalRooms[s] \in [Name \X Name -> 0 .. MaxLog]
    BY <2>1
  <2>3. i \in 0 .. MaxLog
    BY <2>2
  <2>4. i \in Nat
    BY <2>1, <2>3
  <2>5. commit \in Nat
    BY LenProperties DEF TypeOK, RaftTypeOK
  <2> QED
    BY <2>1, <2>4, <2>5, AppliedEntry
<1>1. i # 0 => /\ i <= applied[s]
               /\ IsOfID(log[i], id)
               /\ \A k \in i + 1 .. applied[s] : ~ IsOfID(log[k], id)
  BY DEF RoomsAreLatest, IsOfID
<1> HIDE DEF i
<1>2. CASE Restart(s)
  <2>1. globalRooms'[s][id] = 0
    BY <1>0, <1>2 DEF Restart, NewFSM
  <2> QED
    BY <2>1
<1>3. ASSUME globalRooms'[s][id] = i,
             \/ applied'[s] = applied[s]
             \/ /\ applied'[s] = applied[s] + 1 /\ applied[s] + 1 \in 1 .. commit
                /\ ~ IsOfID(log[applied[s] + 1], id)
      PROVE  Latest(globalRooms'[s][id], s, id)
  <2>1. CASE i = 0
    BY <1>3, <2>1
  <2>2. CASE i # 0
    <3>1. i <= applied'[s] /\ i \in 1 .. commit /\ IsOfID(log'[i], id)
      BY <1>0, <1>1, <1>3, <2>2
    <3>2. ASSUME NEW k \in i + 1 .. applied'[s] PROVE ~ IsOfID(log'[k], id)
      <4>1. k \in 1 .. commit /\ (k \in i + 1 .. applied[s] \/ k = applied[s] + 1)
        <5>1. i \in Nat /\ k \in Int /\ i + 1 <= k /\ k <= applied'[s]
          BY <1>0, <1>3
        <5>2. CASE applied'[s] = applied[s]
          BY <1>0, <5>1, <5>2
        <5>3. CASE applied'[s] = applied[s] + 1 /\ applied[s] + 1 \in 1 .. commit
          BY <1>0, <5>1, <5>3
        <5> QED
          BY <1>3, <5>2, <5>3
      <4> QED
        BY <1>0, <1>1, <1>3, <2>2, <3>2, <4>1
    <3> QED
      BY <1>3, <3>1, <3>2
  <2> QED
    BY <2>1, <2>2
<1>4. CASE ApplyNewJoin(s) \/ ApplyDuplicateJoin(s)
  <2>1. /\ applied'[s] = applied[s] + 1 /\ applied[s] + 1 \in 1 .. commit
        /\ log[applied[s] + 1] \in Command /\ IsJoin(log[applied[s] + 1])
        /\ UNCHANGED globalRooms
    BY <1>4, AppliedEntry DEF ApplyNewJoin, ApplyDuplicateJoin, ApplyJoin, NextEntry
  <2>2. ~ IsOfID(log[applied[s] + 1], id)
    BY <2>1, CommandKinds DEF IsOfID
  <2>3. globalRooms'[s][id] = i
    BY <2>1 DEF i
  <2> QED
    BY <1>3, <2>1, <2>2, <2>3
<1>5. CASE ApplyCreateRoom(s)
  <2> DEFINE n == applied[s] + 1
  <2>1. /\ applied'[s] = n /\ n \in 1 .. commit
        /\ log[n] \in Command /\ IsCreate(log[n])
        /\ globalRooms' = [globalRooms EXCEPT ![s][RoomID(log[n].room)] = n]
    BY <1>5, AppliedEntry DEF ApplyCreateRoom, NextEntry
  <2> HIDE DEF n
  <2>2. RoomID(log[n].room) \in Name \X Name
    BY <2>1, CommandKinds, RoomParts
  <2>3. CASE RoomID(log[n].room) = id
    <3>1. globalRooms'[s][id] = n
      BY <1>0, <2>1, <2>2, <2>3
    <3>2. IsOfID(log'[n], id)
      BY <1>0, <2>1, <2>3 DEF IsOfID
    <3> QED
      BY <1>0, <2>1, <3>1, <3>2
  <2>4. CASE RoomID(log[n].room) # id
    <3>1. globalRooms'[s][id] = i
      BY <1>0, <2>1, <2>2, <2>4 DEF i
    <3>2. ~ IsOfID(log[n], id)
      BY <2>4 DEF IsOfID
    <3> QED
      BY <1>3, <2>1, <3>1, <3>2 DEF n
  <2> QED
    BY <2>3, <2>4
<1>6. CASE applied'[s] = applied[s] /\ globalRooms'[s] = globalRooms[s]
  <2>1. globalRooms'[s][id] = i
    BY <1>6 DEF i
  <2> QED
    BY <1>3, <1>6, <2>1
<1> QED
  BY <1>2, <1>4, <1>5, <1>6, ApplySteps

LEMMA AppliedInit ==
  ASSUME Init
  PROVE  AppliedInv
BY DEF Init, AppliedInv, QueueIsApplied, BlockedOnQueueMu, WedgeNeedsRejoin, RoomsAreLatest

LEMMA AppliedNext ==
  ASSUME TypeOK, AppliedInv, [Next]_vars
  PROVE  AppliedInv'
BY QueueAppliedNext, BlockedNext, WedgeNext, RoomsLatestNext DEF AppliedInv

(* What a server holds in memory is what the entries it has applied made   *)
(* of it (fsm.go, Apply): its queue, its lost lock, its rooms.             *)
THEOREM AppliedInvariance == Spec => []AppliedInv
<1>1. IInv => TypeOK
  BY DEF IInv
<1> QED
  BY <1>1, AppliedInit, AppliedNext, Invariance, PTL DEF Spec

(* A server loses GlobalQueueMu, and waits for ever, only after it applied *)
(* two joins of one player (the early return of QUEUE_JOIN_GLOBAL).        *)
THEOREM WedgedOnlyByRejoin == Spec => []WedgeNeedsRejoin
<1>1. AppliedInv => WedgeNeedsRejoin
  BY DEF AppliedInv
<1> QED
  BY <1>1, AppliedInvariance, PTL

(* GlobalRooms holds, for each room id, the last room of that id among the *)
(* entries the server has applied (CREATE_ROOM, NewFSM).                   *)
THEOREM RoomsStayLatest == Spec => []RoomsAreLatest
<1>1. AppliedInv => RoomsAreLatest
  BY DEF AppliedInv
<1> QED
  BY <1>1, AppliedInvariance, PTL

(***************************************************************************)
(* What the monitors of the local queues wait for.                         *)
(***************************************************************************)
Awaiting(s) ==
  LET i == sending[s].index
  IN /\ sending[s].to \in Server
     /\ i \in 1 .. Len(log) /\ IsJoin(log[i]) /\ Home[log[i].user] = s
     /\ leader = sending[s].to \/ i <= commit

(* AwaitedJoinIsLogged, and that the awaited answer is a server's: so an   *)
(* election, which truncates the log, finds only committed ones awaited.   *)
AwaitedInv == \A s \in Server : sending[s] # NotSending => Awaiting(s)

(* An awaited entry stays, unless its leader steps down before it commits. *)
LEMMA AwaitingStays ==
  ASSUME TypeOK, RaftStep(Command), NEW s \in Server, Awaiting(s), sending'[s] = sending[s],
         leader' = leader \/ leader # sending[s].to \/ sending[s].index <= commit
  PROVE  Awaiting(s)'
<1> DEFINE i == sending[s].index
<1>1. /\ i \in 1 .. Len(log) /\ IsJoin(log[i]) /\ Home[log[i].user] = s
      /\ sending[s].to \in Server
      /\ leader = sending[s].to \/ i <= commit
      /\ sending'[s].index = i /\ sending'[s].to = sending[s].to
  BY DEF Awaiting
<1>2. /\ Len(log) \in Nat /\ commit \in Nat
      /\ Len(log') \in Nat /\ commit' \in 0 .. Len(log') /\ commit <= commit'
      /\ \A k \in 1 .. commit : log'[k] = log[k]
  BY LogStep, LenProperties DEF TypeOK, RaftTypeOK, RaftTyped
<1> HIDE DEF i
<1>3. CASE i <= commit
  <2>1. i \in 1 .. commit /\ i \in 1 .. Len(log') /\ i <= commit'
    BY <1>1, <1>2, <1>3
  <2> QED
    BY <1>1, <1>2, <2>1 DEF Awaiting, IsJoin
<1>4. CASE leader = sending[s].to /\ leader' = leader
  <2>1. i \in 1 .. Len(log') /\ log'[i] = log[i]
    BY <1>1, <1>4, LeaderLog DEF TypeOK, RaftTypeOK, RaftTyped
  <2> QED
    BY <1>1, <1>4, <2>1 DEF Awaiting, IsJoin
<1> QED
  BY <1>1, <1>3, <1>4 DEF i

LEMMA AwaitedNext ==
  ASSUME TypeOK, AwaitedInv, [Next]_vars
  PROVE  AwaitedInv'
<1> SUFFICES ASSUME NEW s \in Server, sending'[s] # NotSending
             PROVE  Awaiting(s)'
  BY DEF AwaitedInv
<1>0. /\ RaftStep(Command)
      /\ sending \in [Server -> [to : Server \union {NoServer}, index : 0 .. MaxLog]]
  BY NextIsRaftStep DEF TypeOK, LocalTypeOK
<1>1. ASSUME sending'[s] = sending[s],
             leader' = leader \/ leader # sending[s].to \/ sending[s].index <= commit
      PROVE  Awaiting(s)'
  BY <1>0, <1>1, AwaitingStays DEF AwaitedInv
<1>2. CASE UNCHANGED <<sending, leader>>
  BY <1>1, <1>2
<1>3. ASSUME NEW u \in User, UserStep(u) PROVE Awaiting(s)'
  <2>1. CASE SendToGlobalQueue(u) /\ Home[u] = s
    <3>1. /\ leader \in Server /\ leader' = leader
          /\ log \in Seq(Command) /\ Len(log) \in Nat
          /\ log' = Append(log, Join(u))
          /\ sending'[s] = [to |-> leader, index |-> Len(log) + 1]
      BY <1>0, <2>1, LenProperties DEF SendToGlobalQueue, Replicate, TypeOK, RaftTypeOK
    <3>2. Len(log') = Len(log) + 1 /\ log'[Len(log) + 1] = Join(u)
      BY <3>1, JoinIsCommand, AppendProperties
    <3>3. IsJoin(Join(u)) /\ Join(u).user = u
      BY JoinIsCommand DEF Join
    <3> QED
      BY <2>1, <3>1, <3>2, <3>3 DEF Awaiting, IsJoin
  <2>2. CASE SendToGlobalQueue(u) /\ Home[u] # s
    BY <1>0, <1>1, <2>2 DEF SendToGlobalQueue, Replicate
  <2> QED
    BY <1>2, <1>3, <2>1, <2>2
    DEF UserStep, JoinQueue, JoinUnanswered, Enqueue, SendWithoutLeader, SendRefused, EndGame,
        raftVars, localVars
<1>4. ASSUME NEW t \in Server, ServerStep(t) PROVE Awaiting(s)'
  <2>1. CASE SendAnswered(t)
    BY <1>0, <1>1, <2>1 DEF SendAnswered, raftVars
  <2>2. CASE Restart(t)
    <3>1. sending'[s] = sending[s] /\ sending[s].to # t
      BY <1>0, <2>2 DEF Restart
    <3>2. leader' = leader \/ leader = t
      BY <2>2 DEF Restart, RestartRaft
    <3> QED
      BY <1>1, <3>1, <3>2
  <2>3. CASE ElectLeader(t)
    <3>1. sending'[s] = sending[s] /\ leader = NoServer
      BY <2>3 DEF ElectLeader, Elect, localVars
    <3>2. sending[s].to \in Server
      BY <3>1 DEF AwaitedInv, Awaiting
    <3> QED
      BY <1>1, <3>1, <3>2, NoServerAssumption
  <2> QED
    BY <1>2, <1>4, <2>1, <2>2, <2>3
    DEF ServerStep, ApplyNewJoin, ApplyDuplicateJoin, ApplyJoin, ApplyCreateRoom, Advance,
        BlockOnQueueMu, TryMatchPlayers, ProposeRoom, Replicate, ProposalRefused,
        ConsumeCreatedRoom, Snapshot, TakeSnapshot, raftVars, localVars
<1>5. ASSUME NEW m \in msgs, Deliver(m) \/ Lose(m) PROVE Awaiting(s)'
  BY <1>2, <1>5 DEF Deliver, Lose, raftVars, localVars
<1>6. CASE CommitEntry
  BY <1>2, <1>6 DEF CommitEntry, Commit, localVars
<1>7. CASE LoseLeadership
  <2>1. sending'[s] = sending[s] /\ ~ (sending[s].index > commit)
    BY <1>0, <1>7 DEF LoseLeadership
  <2>2. sending[s].index \in Nat /\ commit \in Nat
    <3>1. sending[s].index \in 0 .. MaxLog
      BY <1>0
    <3> QED
      BY <3>1, LenProperties, BoundAssumption DEF TypeOK, RaftTypeOK
  <2> QED
    BY <1>1, <2>1, <2>2
<1>8. CASE UNCHANGED vars
  BY <1>2, <1>8 DEF vars, raftVars, localVars
<1> QED
  BY <1>3, <1>4, <1>5, <1>6, <1>7, <1>8 DEF Next

(* The monitor of a local queue, which holds the mutex of JOIN_QUEUE while *)
(* it waits, waits for an entry in the leader's log or a committed one:    *)
(* never for one an election removed (SendToGlobalQueue, Raft.Apply).      *)
THEOREM AwaitedJoinsAreLogged == Spec => []AwaitedJoinIsLogged
<1>1. Init => AwaitedInv
  BY DEF Init, AwaitedInv
<1>2. TypeOK /\ AwaitedInv => AwaitedJoinIsLogged
  BY LenProperties DEF AwaitedInv, Awaiting, AwaitedJoinIsLogged, TypeOK, RaftTypeOK
<1>3. TypeOK /\ AwaitedInv /\ [Next]_vars => AwaitedInv'
  BY AwaitedNext
<1>4. IInv => TypeOK
  BY DEF IInv
<1> QED
  BY <1>1, <1>2, <1>3, <1>4, Invariance, PTL DEF Spec

(***************************************************************************)
(* Counting entries.                                                       *)
(***************************************************************************)

(* The places of a sequence that hold a member of R.                       *)
At(seq, R) == {i \in DOMAIN seq : seq[i] \in R}

LEMMA AtIsFinite ==
  ASSUME NEW T, NEW seq \in Seq(T), NEW R
  PROVE  /\ At(seq, R) \subseteq 1 .. Len(seq)
         /\ IsFiniteSet(At(seq, R)) /\ Cardinality(At(seq, R)) \in Nat
         /\ (\A i \in DOMAIN seq : seq[i] \notin R) => Cardinality(At(seq, R)) = 0
<1>1. Len(seq) \in Nat /\ DOMAIN seq = 1 .. Len(seq)
  BY LenProperties
<1>2. At(seq, R) \subseteq 1 .. Len(seq) /\ IsFiniteSet(1 .. Len(seq))
  BY <1>1, FS_Interval DEF At
<1>3. IsFiniteSet(At(seq, R)) /\ Cardinality(At(seq, R)) \in Nat
  BY <1>2, FS_Subset, FS_CardinalityType
<1>4. ASSUME \A i \in DOMAIN seq : seq[i] \notin R PROVE Cardinality(At(seq, R)) = 0
  <2>1. At(seq, R) = {}
    BY <1>4 DEF At
  <2> QED
    BY <2>1, FS_EmptySet
<1> QED
  BY <1>2, <1>3, <1>4

LEMMA AtAppend ==
  ASSUME NEW T, NEW seq \in Seq(T), NEW e \in T, NEW R
  PROVE  Cardinality(At(Append(seq, e), R)) =
           Cardinality(At(seq, R)) + (IF e \in R THEN 1 ELSE 0)
<1> DEFINE n == Len(seq) + 1
<1>1. /\ Len(seq) \in Nat /\ DOMAIN seq = 1 .. Len(seq)
      /\ DOMAIN Append(seq, e) = 1 .. n
      /\ \A i \in 1 .. Len(seq) : Append(seq, e)[i] = seq[i]
      /\ Append(seq, e)[n] = e
  BY AppendProperties, LenProperties
<1>2. 1 .. n = (1 .. Len(seq)) \union {n} /\ n \notin 1 .. Len(seq)
  BY <1>1
<1>3. IsFiniteSet(At(seq, R)) /\ Cardinality(At(seq, R)) \in Nat
  BY AtIsFinite
<1> HIDE DEF n
<1>4. CASE e \in R
  <2>1. At(Append(seq, e), R) = At(seq, R) \union {n} /\ n \notin At(seq, R)
    BY <1>1, <1>2, <1>4 DEF At
  <2> QED
    BY <1>3, <1>4, <2>1, FS_AddElement
<1>5. CASE e \notin R
  <2>1. At(Append(seq, e), R) = At(seq, R)
    BY <1>1, <1>2, <1>5 DEF At
  <2> QED
    BY <1>3, <1>5, <2>1
<1> QED
  BY <1>4, <1>5

LEMMA AtRemove ==
  ASSUME NEW T, NEW seq \in Seq(T), NEW i \in 1 .. Len(seq), NEW R
  PROVE  Cardinality(At(RemoveAt(seq, i), R)) =
           Cardinality(At(seq, R)) - (IF seq[i] \in R THEN 1 ELSE 0)
<1> DEFINE rest == RemoveAt(seq, i)
           f == [j \in At(rest, R) |-> IF j <= i - 1 THEN j ELSE j + 1]
           g == [j \in At(seq, R) \ {i} |-> IF j <= i - 1 THEN j ELSE j - 1]
<1>1. /\ rest \in Seq(T) /\ Len(rest) = Len(seq) - 1
      /\ \A j \in 1 .. Len(rest) : rest[j] = seq[IF j <= i - 1 THEN j ELSE j + 1]
  BY RemoveAtProperties
<1>2. /\ Len(seq) \in Nat /\ DOMAIN seq = 1 .. Len(seq) /\ DOMAIN rest = 1 .. Len(rest)
  BY <1>1, LenProperties
<1> HIDE DEF rest
<1>3. ASSUME NEW j \in At(rest, R)
      PROVE  (IF j <= i - 1 THEN j ELSE j + 1) \in At(seq, R) \ {i}
  BY <1>1, <1>2 DEF At
<1>4. ASSUME NEW j \in At(seq, R) \ {i}
      PROVE  LET k == IF j <= i - 1 THEN j ELSE j - 1
             IN k \in At(rest, R) /\ (IF k <= i - 1 THEN k ELSE k + 1) = j
  <2> DEFINE k == IF j <= i - 1 THEN j ELSE j - 1
  <2>1. j \in 1 .. Len(seq) /\ j # i /\ seq[j] \in R
    BY <1>2 DEF At
  <2>2. k \in 1 .. Len(rest) /\ (IF k <= i - 1 THEN k ELSE k + 1) = j
    BY <1>1, <1>2, <2>1
  <2> HIDE DEF k
  <2>3. rest[k] = seq[j]
    BY <1>1, <2>2
  <2>4. k \in At(rest, R)
    BY <1>2, <2>1, <2>2, <2>3 DEF At
  <2> QED
    BY <2>2, <2>4 DEF k
<1>5. f \in [At(rest, R) -> At(seq, R) \ {i}]
  BY <1>3
<1>6. \A j, k \in At(rest, R) : f[j] = f[k] => j = k
  <2>1. At(rest, R) \subseteq Int
    BY <1>1, AtIsFinite
  <2> QED
    BY <2>1
<1>7. \A j \in At(seq, R) \ {i} : \E k \in At(rest, R) : f[k] = j
  BY <1>4
<1> HIDE DEF f
<1>8. f \in Bijection(At(rest, R), At(seq, R) \ {i})
  BY <1>5, <1>6, <1>7, Fun_IsBij
<1>9. ExistsBijection(At(rest, R), At(seq, R) \ {i})
  BY <1>8 DEF ExistsBijection
<1>10. Cardinality(At(seq, R) \ {i}) = Cardinality(At(rest, R))
  BY <1>1, <1>9, AtIsFinite, FS_Bijection
<1>11. Cardinality(At(seq, R) \ {i}) =
         Cardinality(At(seq, R)) - (IF i \in At(seq, R) THEN 1 ELSE 0)
  <2>1. IsFiniteSet(At(seq, R)) /\ Cardinality(At(seq, R)) \in Nat
    BY AtIsFinite
  <2>2. Cardinality(At(seq, R) \ {i}) =
          IF i \in At(seq, R) THEN Cardinality(At(seq, R)) - 1 ELSE Cardinality(At(seq, R))
    BY <2>1, FS_RemoveElement
  <2> QED
    BY <2>1, <2>2
<1>12. i \in At(seq, R) <=> seq[i] \in R
  BY <1>2 DEF At
<1> QED
  BY <1>10, <1>11, <1>12 DEF rest

(* Rooms that TryMatchPlayers adds hold u at one place, or at none.        *)
LEMMA AtConcat ==
  ASSUME NEW T, NEW seq \in Seq(T), NEW more \in Seq(T), NEW R,
         NEW k \in 1 .. Len(more), \A j \in 1 .. Len(more) : more[j] \in R <=> j = k
  PROVE  Cardinality(At(seq \o more, R)) = Cardinality(At(seq, R)) + 1
<1> DEFINE n == Len(seq) + k
<1>1. /\ Len(seq) \in Nat /\ DOMAIN seq = 1 .. Len(seq) /\ Len(more) \in Nat
      /\ DOMAIN (seq \o more) = 1 .. Len(seq) + Len(more)
      /\ \A i \in 1 .. Len(seq) + Len(more) :
           (seq \o more)[i] = IF i <= Len(seq) THEN seq[i] ELSE more[i - Len(seq)]
  BY ConcatProperties, LenProperties
<1>2. n \in DOMAIN (seq \o more) /\ n \notin DOMAIN seq /\ (seq \o more)[n] = more[k]
  BY <1>1
<1>3. ASSUME NEW i \in DOMAIN (seq \o more), i \notin DOMAIN seq, i # n
      PROVE  (seq \o more)[i] \notin R
  <2>1. i \in 1 .. Len(seq) + Len(more) /\ i \notin 1 .. Len(seq) /\ i # Len(seq) + k
        /\ Len(seq) \in Nat /\ Len(more) \in Nat /\ k \in Nat
    BY <1>1, <1>3
  <2>2. i - Len(seq) \in 1 .. Len(more) /\ i - Len(seq) # k
    BY <2>1
  <2> QED
    BY <1>1, <2>1, <2>2
<1>4. ASSUME NEW i \in DOMAIN seq
      PROVE  i \in DOMAIN (seq \o more) /\ (seq \o more)[i] = seq[i]
  BY <1>1
<1> HIDE DEF n
<1>5. At(seq \o more, R) = At(seq, R) \union {n} /\ n \notin At(seq, R)
  BY <1>2, <1>3, <1>4 DEF At
<1> QED
  BY <1>5, AtIsFinite, FS_AddElement

LEMMA AtConcatNone ==
  ASSUME NEW T, NEW seq \in Seq(T), NEW more \in Seq(T), NEW R,
         \A j \in 1 .. Len(more) : more[j] \notin R
  PROVE  Cardinality(At(seq \o more, R)) = Cardinality(At(seq, R))
<1>1. /\ Len(seq) \in Nat /\ DOMAIN seq = 1 .. Len(seq) /\ Len(more) \in Nat
      /\ DOMAIN (seq \o more) = 1 .. Len(seq) + Len(more)
      /\ \A i \in 1 .. Len(seq) + Len(more) :
           (seq \o more)[i] = IF i <= Len(seq) THEN seq[i] ELSE more[i - Len(seq)]
  BY ConcatProperties, LenProperties
<1>2. ASSUME NEW i \in DOMAIN (seq \o more), i \notin DOMAIN seq
      PROVE  (seq \o more)[i] \notin R
  <2>1. i - Len(seq) \in 1 .. Len(more)
    BY <1>1, <1>2
  <2> QED
    BY <1>1, <1>2, <2>1
<1>3. ASSUME NEW i \in DOMAIN seq
      PROVE  i \in DOMAIN (seq \o more) /\ (seq \o more)[i] = seq[i]
  BY <1>1
<1>4. At(seq \o more, R) = At(seq, R)
  BY <1>2, <1>3 DEF At
<1> QED
  BY <1>4

TimesIn(q, u) == IF \E i \in DOMAIN q : q[i] = u THEN 1 ELSE 0

(* A queue that holds each player once gives each to one room or keeps it. *)
LEMMA PairedOnce ==
  ASSUME NEW queue \in Seq(User), NEW rooms \in Pairings(queue),
         \A i, j \in DOMAIN queue : queue[i] = queue[j] => i = j,
         NEW u \in User
  PROVE  \/ /\ TimesIn(Unpaired(queue), u) = TimesIn(queue, u)
            /\ \A j \in 1 .. Len(rooms) : u \notin Players(rooms[j])
         \/ /\ TimesIn(queue, u) = 1 /\ TimesIn(Unpaired(queue), u) = 0
            /\ \E k \in 1 .. Len(rooms) : \A j \in 1 .. Len(rooms) :
                 u \in Players(rooms[j]) <=> j = k
<1> DEFINE In(q) == \E i \in DOMAIN q : q[i] = u
           P == 1 .. PairCount(queue)
<1>1. PICK pick \in [P -> {1, 2}] :
        rooms = [i \in P |-> [p1 |-> queue[2 * i - 2 + 1], p2 |-> queue[2 * i - 2 + 2],
                              host |-> Home[queue[2 * i - 2 + pick[i]]]]]
  BY DEF Pairings
<1>2. /\ Len(queue) \in Nat /\ DOMAIN queue = 1 .. Len(queue)
      /\ PairCount(queue) \in Nat /\ 2 * PairCount(queue) <= Len(queue)
  BY PairCountBounds, LenProperties
<1>3. rooms \in Seq(Room) /\ Len(rooms) = PairCount(queue)
  <2>1. rooms \in Seq(Room) /\ DOMAIN rooms = P
    BY <1>1, PairingsProperties
  <2> QED
    BY <1>2, <2>1, LenProperties
<1>4. \A j \in P : Players(rooms[j]) = {queue[2 * j - 1], queue[2 * j]}
  <2> SUFFICES ASSUME NEW j \in P PROVE Players(rooms[j]) = {queue[2 * j - 1], queue[2 * j]}
    OBVIOUS
  <2>1. rooms[j].p1 = queue[2 * j - 2 + 1] /\ rooms[j].p2 = queue[2 * j - 2 + 2]
    BY <1>1
  <2>2. 2 * j - 2 + 1 = 2 * j - 1 /\ 2 * j - 2 + 2 = 2 * j
    BY <1>2
  <2> QED
    BY <2>1, <2>2 DEF Players
<1>5. \A j \in P : 2 * j - 1 \in 1 .. 2 * PairCount(queue) /\ 2 * j \in 1 .. 2 * PairCount(queue)
  BY <1>2
<1>6. /\ DOMAIN Unpaired(queue) = 1 .. Len(queue) - 2 * PairCount(queue)
      /\ \A i \in 1 .. Len(queue) - 2 * PairCount(queue) :
           Unpaired(queue)[i] = queue[i + 2 * PairCount(queue)]
  <2>1. /\ Unpaired(queue) \in Seq(User)
        /\ \A i \in 1 .. Len(Unpaired(queue)) :
              Unpaired(queue)[i] = queue[i + 2 * PairCount(queue)]
    BY UnpairedProperties
  <2>2. Len(Unpaired(queue)) = Len(queue) - 2 * PairCount(queue)
    BY UnpairedProperties
  <2> QED
    BY <2>1, <2>2, LenProperties
<1>7. ASSUME ~ In(queue)
      PROVE  ~ In(Unpaired(queue)) /\ \A j \in 1 .. Len(rooms) : u \notin Players(rooms[j])
  <2>1. ~ In(Unpaired(queue))
    <3>1. \A i \in DOMAIN Unpaired(queue) : i + 2 * PairCount(queue) \in DOMAIN queue
      BY <1>2, <1>6
    <3> QED
      BY <1>6, <1>7, <3>1
  <2>2. \A i \in 1 .. 2 * PairCount(queue) : i \in DOMAIN queue
    BY <1>2
  <2> QED
    BY <1>3, <1>4, <1>5, <1>7, <2>1, <2>2
<1>8. ASSUME NEW i \in 1 .. Len(queue), queue[i] = u, i > 2 * PairCount(queue)
      PROVE  In(Unpaired(queue)) /\ \A j \in 1 .. Len(rooms) : u \notin Players(rooms[j])
  <2>1. i - 2 * PairCount(queue) \in DOMAIN Unpaired(queue)
    BY <1>2, <1>6, <1>8
  <2>2. Unpaired(queue)[i - 2 * PairCount(queue)] = u
    BY <1>2, <1>6, <1>8, <2>1
  <2>3. \A k \in 1 .. 2 * PairCount(queue) : k \in DOMAIN queue /\ k # i
    BY <1>2, <1>8
  <2>4. \A k \in 1 .. 2 * PairCount(queue) : queue[k] # u
    BY <1>2, <1>8, <2>3
  <2>5. ASSUME NEW j \in P PROVE u \notin Players(rooms[j])
    <3>1. queue[2 * j - 1] # u /\ queue[2 * j] # u
      BY <1>5, <2>4
    <3> QED
      BY <1>4, <3>1
  <2> QED
    BY <1>3, <2>1, <2>2, <2>5
<1>9. ASSUME NEW i \in 1 .. Len(queue), queue[i] = u, i <= 2 * PairCount(queue)
      PROVE  /\ ~ In(Unpaired(queue))
             /\ \E k \in 1 .. Len(rooms) : \A j \in 1 .. Len(rooms) :
                  u \in Players(rooms[j]) <=> j = k
  <2>1. ~ In(Unpaired(queue))
    <3>1. \A k \in DOMAIN Unpaired(queue) :
            k + 2 * PairCount(queue) \in DOMAIN queue /\ k + 2 * PairCount(queue) # i
      BY <1>2, <1>6, <1>9
    <3> QED
      BY <1>2, <1>6, <1>9, <3>1
  <2>2. PICK k \in P : i = 2 * k - 1 \/ i = 2 * k
    <3> DEFINE h == (i + 1) \div 2
    <3>1. h \in P /\ (i = 2 * h - 1 \/ i = 2 * h)
      BY <1>2, <1>9
    <3> QED
      BY <3>1
  <2>3. ASSUME NEW j \in P PROVE u \in Players(rooms[j]) <=> j = k
    <3>1. 2 * j - 1 \in DOMAIN queue /\ 2 * j \in DOMAIN queue
      BY <1>2
    <3>2. u \in Players(rooms[j]) <=> 2 * j - 1 = i \/ 2 * j = i
      BY <1>2, <1>4, <1>9, <3>1
    <3>3. (2 * j - 1 = i \/ 2 * j = i) <=> j = k
      BY <1>2, <2>2
    <3> QED
      BY <3>2, <3>3
  <2> QED
    BY <1>3, <2>1, <2>2, <2>3
<1> HIDE DEF In
<1>10. \/ /\ In(queue) <=> In(Unpaired(queue))
          /\ \A j \in 1 .. Len(rooms) : u \notin Players(rooms[j])
       \/ /\ In(queue) /\ ~ In(Unpaired(queue))
          /\ \E k \in 1 .. Len(rooms) : \A j \in 1 .. Len(rooms) :
               u \in Players(rooms[j]) <=> j = k
  <2>1. CASE ~ In(queue)
    BY <1>7, <2>1
  <2>2. CASE In(queue)
    <3>1. PICK i \in 1 .. Len(queue) : queue[i] = u
      BY <1>2, <2>2 DEF In
    <3>2. CASE i <= 2 * PairCount(queue)
      BY <1>9, <2>2, <3>1, <3>2
    <3>3. CASE i > 2 * PairCount(queue)
      BY <1>8, <2>2, <3>1, <3>3
    <3> QED
      BY <1>2, <3>2, <3>3
  <2> QED
    BY <2>1, <2>2
<1> QED
  BY <1>10 DEF In, TimesIn

(***************************************************************************)
(* As long as nothing fails, joins are conserved.                          *)
(***************************************************************************)
RoomsWith(u) == {room \in Room : u \in Players(room)}
CreatesWith(u) == {Create(room) : room \in RoomsWith(u)}

LEMMA RoomsWithAt ==
  ASSUME NEW c \in Seq(Room), NEW u
  PROVE  {i \in DOMAIN c : u \in Players(c[i])} = At(c, RoomsWith(u))
<1>1. \A i \in DOMAIN c : c[i] \in Room
  BY LenProperties, ElementOfSeq
<1> QED
  BY <1>1 DEF At, RoomsWith

LEMMA CreatesWithAt ==
  ASSUME NEW l \in Seq(Command), NEW u
  PROVE  {i \in DOMAIN l : IsCreate(l[i]) /\ u \in Players(l[i].room)} = At(l, CreatesWith(u))
<1>1. \A i \in DOMAIN l : l[i] \in Command
  BY LenProperties, ElementOfSeq
<1>2. ASSUME NEW cmd \in Command
      PROVE  IsCreate(cmd) /\ u \in Players(cmd.room) <=> cmd \in CreatesWith(u)
  <2>1. CASE IsCreate(cmd)
    <3>1. cmd.room \in Room /\ cmd = Create(cmd.room)
      BY <2>1 DEF Command, Create, Join, IsCreate
    <3>2. \A room \in Room : cmd = Create(room) => room = cmd.room
      BY DEF Create
    <3> QED
      BY <2>1, <3>1, <3>2 DEF CreatesWith, RoomsWith
  <2>2. CASE ~ IsCreate(cmd)
    BY <2>2, CreateIsCommand DEF CreatesWith, RoomsWith
  <2> QED
    BY <2>1, <2>2
<1> QED
  BY <1>1, <1>2 DEF At

(* One more entry is counted or not.                                       *)
LEMMA CountToNext ==
  ASSUME NEW S, NEW b \in Nat
  PROVE  /\ IsFiniteSet(S \intersect (1 .. b))
         /\ Cardinality(S \intersect (1 .. b)) \in Nat
         /\ Cardinality(S \intersect (1 .. b + 1)) =
              Cardinality(S \intersect (1 .. b)) + (IF b + 1 \in S THEN 1 ELSE 0)
<1> DEFINE U == S \intersect (1 .. b)
           T == S \intersect (1 .. b + 1)
<1>1. IsFiniteSet(U) /\ Cardinality(U) \in Nat
  <2>1. U \in SUBSET (1 .. b) /\ IsFiniteSet(1 .. b)
    BY FS_Interval
  <2> QED
    BY <2>1, FS_Subset, FS_CardinalityType
<1>2. 1 .. b + 1 = (1 .. b) \union {b + 1} /\ b + 1 \notin 1 .. b
  OBVIOUS
<1>3. CASE b + 1 \in S
  <2>1. T = U \union {b + 1} /\ b + 1 \notin U
    BY <1>2, <1>3
  <2>2. Cardinality(U \union {b + 1}) = Cardinality(U) + 1
    BY <1>1, <2>1, FS_AddElement
  <2> QED
    BY <1>1, <1>3, <2>1, <2>2
<1>4. CASE b + 1 \notin S
  <2>1. T = U
    BY <1>2, <1>4
  <2> QED
    BY <1>1, <1>4, <2>1
<1> QED
  BY <1>3, <1>4

(* Without faults the first leader stays, its log starts empty, and only it*)
(* proposes rooms.                                                         *)
OneLeader ==
  faults = 0 =>
    /\ leader = NoServer => log = <<>>
    /\ \A s \in Server : s # leader => creating[s] = <<>>

(* A step that is no fault leaves a leader its office.                     *)
LEMMA LeaderStays ==
  ASSUME TypeOK, [Next]_vars, faults' = faults
  PROVE  \/ leader' = leader
         \/ \E s \in Server : leader = NoServer /\ ElectLeader(s)
<1>1. faults \in Nat
  BY BoundAssumption DEF TypeOK, RaftTypeOK
<1>2. ASSUME Fault PROVE FALSE
  BY <1>1, <1>2 DEF Fault
<1>3. ASSUME NEW s \in Server, ServerStep(s)
      PROVE  leader' = leader \/ (leader = NoServer /\ ElectLeader(s))
  BY <1>2, <1>3
  DEF ServerStep, SendAnswered, ApplyNewJoin, ApplyDuplicateJoin, ApplyJoin, ApplyCreateRoom,
      Advance, BlockOnQueueMu, TryMatchPlayers, ProposeRoom, Replicate, ProposalRefused,
      ConsumeCreatedRoom, ElectLeader, Elect, Snapshot, TakeSnapshot, Restart, RestartRaft, raftVars
<1>4. ASSUME NEW u \in User, UserStep(u) PROVE leader' = leader
  BY <1>4 DEF UserStep, JoinQueue, JoinUnanswered, SendWithoutLeader, SendRefused,
     SendToGlobalQueue, Replicate, EndGame, raftVars
<1>5. ASSUME NEW m \in msgs, Deliver(m) \/ Lose(m) PROVE leader' = leader
  BY <1>5 DEF Deliver, Lose, raftVars
<1>6. CASE CommitEntry \/ LoseLeadership \/ UNCHANGED vars
  BY <1>2, <1>6 DEF CommitEntry, Commit, LoseLeadership, StepDown, vars, raftVars
<1> QED
  BY <1>3, <1>4, <1>5, <1>6 DEF Next

(* Faults are counted: a step after which there were none is none.         *)
LEMMA NoFaultSoFar ==
  ASSUME TypeOK, [Next]_vars, faults' = 0
  PROVE  faults = 0
<1>1. faults \in Nat
  BY BoundAssumption DEF TypeOK, RaftTypeOK
<1>2. faults' = faults \/ faults' = faults + 1
  BY NextIsRaftStep DEF RaftStep, raftVars, Replicate, Elect, Advance, TakeSnapshot,
     RestartRaft, Commit, StepDown, Fault
<1> QED
  BY <1>1, <1>2

LEMMA OneLeaderNext ==
  ASSUME TypeOK, OneLeader, [Next]_vars
  PROVE  OneLeader'
<1> SUFFICES ASSUME faults' = 0
             PROVE  /\ leader' = NoServer => log' = <<>>
                    /\ \A s \in Server : s # leader' => creating'[s] = <<>>
  BY DEF OneLeader
<1>0. /\ faults = 0
      /\ leader = NoServer => log = <<>>
      /\ \A s \in Server : s # leader => creating[s] = <<>>
  BY NoFaultSoFar DEF OneLeader
<1>1. \/ leader' = leader
      \/ \E s \in Server : leader = NoServer /\ ElectLeader(s)
  BY <1>0, LeaderStays
<1>2. ASSUME leader' = NoServer PROVE log' = <<>>
  <2>1. leader = NoServer /\ leader' = leader
    BY <1>1, <1>2, NoServerAssumption DEF ElectLeader, Elect
  <2>2. log' = log
    BY <2>1, NextIsRaftStep, NoServerAssumption DEF RaftStep, raftVars, Replicate, Elect,
       Advance, TakeSnapshot, RestartRaft, Commit, StepDown
  <2> QED
    BY <1>0, <2>1, <2>2
<1>3. ASSUME NEW s \in Server, s # leader' PROVE creating'[s] = <<>>
  <2>1. s # leader
    BY <1>1, <1>3, NoServerAssumption
  <2>2. creating[s] = <<>>
    BY <1>0, <2>1
  <2>3. ~ TryMatchPlayers(s)
    BY <2>1 DEF TryMatchPlayers
  <2>4. ~ ProposeRoom(s) /\ ~ ProposalRefused(s)
    BY <2>2 DEF ProposeRoom, ProposalRefused
  <2>5. CASE Restart(s)
    BY <2>5 DEF Restart, NewFSM, NewQueue, TypeOK, FSMTypeOK
  <2> QED
    BY <2>2, <2>3, <2>4, <2>5, QueueSteps
<1> QED
  BY <1>2, <1>3

(* What a step that is no fault may do to the log, and to the leader's     *)
(* queue, proposals and place in the log.                                  *)
LEMMA LeaderSteps ==
  ASSUME TypeOK, [Next]_vars, faults' = faults, leader \in Server
  PROVE  \/ \E u \in User : SendToGlobalQueue(u)
         \/ ApplyNewJoin(leader) \/ ApplyDuplicateJoin(leader) \/ ApplyCreateRoom(leader)
         \/ TryMatchPlayers(leader)
         \/ ProposeRoom(leader)
         \/ /\ log' = log
            /\ applied'[leader] = applied[leader]
            /\ creating'[leader] = creating[leader]
            /\ globalQueue'[leader] = globalQueue[leader]
<1> DEFINE Same == /\ log' = log
                   /\ applied'[leader] = applied[leader]
                   /\ creating'[leader] = creating[leader]
                   /\ globalQueue'[leader] = globalQueue[leader]
<1>0. /\ leader # NoServer
      /\ applied \in [Server -> 0 .. commit]
      /\ globalQueue \in [Server -> Seq(User)]
      /\ creating \in [Server -> Seq(Room)]
  BY NoServerAssumption DEF TypeOK, RaftTypeOK, FSMTypeOK
<1>1. ASSUME Fault PROVE FALSE
  BY <1>1, BoundAssumption DEF Fault, TypeOK, RaftTypeOK
<1>2. ASSUME NEW t \in Server, t # leader,
             ApplyNewJoin(t) \/ ApplyDuplicateJoin(t) \/ ApplyCreateRoom(t)
      PROVE  Same
  BY <1>0, <1>2 DEF ApplyNewJoin, ApplyDuplicateJoin, ApplyJoin, ApplyCreateRoom, Advance
<1>3. ASSUME NEW t \in Server, ProposalRefused(t) PROVE Same
  BY <1>0, <1>3 DEF ProposalRefused, raftVars
<1>4. ASSUME NEW t \in Server, TryMatchPlayers(t) \/ ProposeRoom(t) PROVE t = leader
  BY <1>4 DEF TryMatchPlayers, ProposeRoom, Replicate
<1>5. ASSUME NEW t \in Server,
             \/ SendAnswered(t) \/ BlockOnQueueMu(t) \/ ConsumeCreatedRoom(t)
             \/ ElectLeader(t) \/ Snapshot(t) \/ Restart(t)
      PROVE  Same
  BY <1>0, <1>1, <1>5 DEF SendAnswered, BlockOnQueueMu, ConsumeCreatedRoom, ElectLeader, Elect,
     Snapshot, TakeSnapshot, Restart, RestartRaft, raftVars, fsmVars
<1>6. ASSUME NEW u \in User, UserStep(u), ~ SendToGlobalQueue(u) PROVE Same
  BY <1>6 DEF UserStep, JoinQueue, JoinUnanswered, Enqueue, SendWithoutLeader, SendRefused, EndGame,
     raftVars, fsmVars
<1>7. ASSUME NEW m \in msgs, Deliver(m) \/ Lose(m) PROVE Same
  BY <1>7 DEF Deliver, Lose, raftVars, fsmVars
<1>8. CASE CommitEntry \/ LoseLeadership \/ UNCHANGED vars
  BY <1>8 DEF CommitEntry, Commit, LoseLeadership, StepDown, vars, raftVars, fsmVars
<1> QED
  BY <1>2, <1>3, <1>4, <1>5, <1>6, <1>7, <1>8 DEF Next, ServerStep

(* JoinsAreConserved of one player.                                        *)
Balanced(u) ==
  JoinsOf(u, applied[leader]) = QueuedTimes(leader, u) + PendingRoomsOf(leader, u) + RoomsOf(u)

(* The same by counts of the four things a step may change.                *)
JoinCount(l, b, u) == Cardinality({i \in 1 .. b : l[i] = Join(u)})
BalanceOf(l, b, q, c, u) ==
  JoinCount(l, b, u) =
    TimesIn(q, u) + Cardinality(At(c, RoomsWith(u))) + Cardinality(At(l, CreatesWith(u)))

LEMMA BalancedIs ==
  ASSUME TypeOK, leader \in Server, NEW u
  PROVE  Balanced(u) <=>
           BalanceOf(log, applied[leader], globalQueue[leader], creating[leader], u)
<1>1. PendingRoomsOf(leader, u) = Cardinality(At(creating[leader], RoomsWith(u)))
  BY RoomsWithAt DEF PendingRoomsOf, TypeOK, FSMTypeOK
<1>2. RoomsOf(u) = Cardinality(At(log, CreatesWith(u)))
  BY CreatesWithAt DEF RoomsOf, TypeOK, RaftTypeOK
<1> QED
  BY <1>1, <1>2 DEF Balanced, BalanceOf, JoinsOf, JoinCount, QueuedTimes, Queued, TimesIn

LEMMA BalancedIsAfter ==
  ASSUME TypeOK', leader' \in Server, NEW u
  PROVE  Balanced(u)' <=>
           BalanceOf(log', applied'[leader'], globalQueue'[leader'], creating'[leader'], u)
<1>1. PendingRoomsOf(leader, u)' = Cardinality(At(creating'[leader'], RoomsWith(u)))
  <2>1. creating'[leader'] \in Seq(Room)
    BY DEF TypeOK, FSMTypeOK
  <2>2. {i \in DOMAIN creating'[leader'] : u \in Players(creating'[leader'][i])}
          = At(creating'[leader'], RoomsWith(u))
    BY <2>1, RoomsWithAt
  <2> QED
    BY <2>2 DEF PendingRoomsOf, Players
<1>2. RoomsOf(u)' = Cardinality(At(log', CreatesWith(u)))
  <2>1. log' \in Seq(Command)
    BY DEF TypeOK, RaftTypeOK
  <2>2. {i \in DOMAIN log' : IsCreate(log'[i]) /\ u \in Players(log'[i].room)}
          = At(log', CreatesWith(u))
    BY <2>1, CreatesWithAt
  <2> QED
    BY <2>2 DEF RoomsOf, Players, IsCreate
<1> QED
  BY <1>1, <1>2 DEF Balanced, BalanceOf, JoinsOf, JoinCount, QueuedTimes, Queued, TimesIn, Join

(* The entry that the leader's FSM is given next.                          *)
LEMMA CountApplied ==
  ASSUME TypeOK, [Next]_vars, NEW s \in Server, Advance(s), NEW u \in User
  PROVE  /\ log[applied[s] + 1] \in Command
         /\ JoinCount(log, applied'[s], u) =
              JoinCount(log, applied[s], u) + (IF log[applied[s] + 1] = Join(u) THEN 1 ELSE 0)
         /\ JoinCount(log, applied[s], u) \in Nat
<1>1. /\ applied[s] \in Nat /\ applied'[s] = applied[s] + 1
      /\ log[applied[s] + 1] \in Command
  BY AppliedEntry
<1> DEFINE S == {i \in Nat : log[i] = Join(u)}
<1>2. /\ {i \in 1 .. applied[s] : log[i] = Join(u)} = S \intersect (1 .. applied[s])
      /\ {i \in 1 .. applied[s] + 1 : log[i] = Join(u)} = S \intersect (1 .. applied[s] + 1)
      /\ applied[s] + 1 \in S <=> log[applied[s] + 1] = Join(u)
  BY <1>1
<1> HIDE DEF S
<1>3. /\ Cardinality(S \intersect (1 .. applied[s])) \in Nat
      /\ Cardinality(S \intersect (1 .. applied[s] + 1)) =
           Cardinality(S \intersect (1 .. applied[s])) + (IF applied[s] + 1 \in S THEN 1 ELSE 0)
  BY <1>1, CountToNext
<1> QED
  BY <1>1, <1>2, <1>3 DEF JoinCount

(* A join that is appended is not applied, and is no room.                 *)
LEMMA CountAppended ==
  ASSUME TypeOK, NEW s \in Server, NEW cmd \in Command, NEW u \in User
  PROVE  /\ JoinCount(Append(log, cmd), applied[s], u) = JoinCount(log, applied[s], u)
         /\ Cardinality(At(Append(log, cmd), CreatesWith(u))) =
              Cardinality(At(log, CreatesWith(u))) + (IF cmd \in CreatesWith(u) THEN 1 ELSE 0)
<1>1. /\ log \in Seq(Command) /\ Len(log) \in Nat /\ applied[s] \in Nat /\ applied[s] <= Len(log)
  BY LenProperties DEF TypeOK, RaftTypeOK
<1>2. \A i \in 1 .. applied[s] : Append(log, cmd)[i] = log[i]
  BY <1>1, AppendProperties
<1>3. {i \in 1 .. applied[s] : Append(log, cmd)[i] = Join(u)} =
        {i \in 1 .. applied[s] : log[i] = Join(u)}
  BY <1>2
<1> QED
  BY <1>1, <1>3, AtAppend DEF JoinCount

LEMMA BalancedNext ==
  ASSUME TypeOK, TypeOK', QueueIsOfJoins, [Next]_vars, leader \in Server, leader' = leader,
         faults' = faults, ~ globalQueueMu'[leader], NEW u \in User, Balanced(u)
  PROVE  Balanced(u)'
<1> DEFINE q == globalQueue[leader]
           c == creating[leader]
           n == applied[leader]
<1>0. /\ log \in Seq(Command) /\ n \in Nat
      /\ globalQueue \in [Server -> Seq(User)] /\ creating \in [Server -> Seq(Room)]
      /\ q \in Seq(User) /\ c \in Seq(Room)
      /\ DOMAIN q = 1 .. Len(q) /\ Len(q) \in Nat /\ DOMAIN c = 1 .. Len(c) /\ Len(c) \in Nat
  <2>1. /\ log \in Seq(Command) /\ commit \in 0 .. Len(log)
        /\ applied[leader] \in 0 .. commit
        /\ globalQueue \in [Server -> Seq(User)] /\ creating \in [Server -> Seq(Room)]
    BY DEF TypeOK, RaftTypeOK, FSMTypeOK
  <2>2. Len(log) \in Nat
    BY <2>1, LenProperties
  <2> QED
    BY <2>1, <2>2, LenProperties
<1>1. BalanceOf(log, n, q, c, u)
  BY BalancedIs
<1>2. /\ Cardinality(At(c, RoomsWith(u))) \in Nat
      /\ Cardinality(At(log, CreatesWith(u))) \in Nat
  BY <1>0, AtIsFinite
<1> SUFFICES BalanceOf(log', applied'[leader], globalQueue'[leader], creating'[leader], u)
  BY BalancedIsAfter
<1>3. ASSUME NEW v \in User, SendToGlobalQueue(v)
      PROVE  BalanceOf(log', applied'[leader], globalQueue'[leader], creating'[leader], u)
  <2>1. /\ log' = Append(log, Join(v)) /\ UNCHANGED <<applied, globalQueue, creating>>
    BY <1>3 DEF SendToGlobalQueue, Replicate, fsmVars
  <2>2. Join(v) \in Command /\ Join(v) \notin CreatesWith(u)
    BY JoinIsCommand, CreateIsCommand DEF CreatesWith, RoomsWith
  <2> QED
    BY <1>1, <1>2, <2>1, <2>2, CountAppended DEF BalanceOf
<1>4. CASE ApplyNewJoin(leader)
  <2> DEFINE cmd == log[n + 1]
  <2>1. /\ Advance(leader) /\ IsJoin(cmd) /\ UNCHANGED <<log, creating>>
        /\ ~ \E i \in DOMAIN q : q[i] = cmd.user
        /\ globalQueue'[leader] = Append(q, cmd.user)
    BY <1>0, <1>4 DEF ApplyNewJoin, ApplyJoin, Advance, NextEntry, Queued
  <2>2. /\ cmd \in Command
        /\ JoinCount(log, applied'[leader], u) =
             JoinCount(log, n, u) + (IF cmd = Join(u) THEN 1 ELSE 0)
        /\ JoinCount(log, n, u) \in Nat
    BY <2>1, CountApplied
  <2> HIDE DEF cmd
  <2>3. cmd.user \in User /\ (cmd = Join(u) <=> cmd.user = u)
    <3>1. cmd.user \in User /\ cmd = Join(cmd.user)
      BY <2>1, <2>2, CommandKinds
    <3>2. Join(u).user = u
      BY DEF Join
    <3> QED
      BY <3>1, <3>2
  <2>4. TimesIn(Append(q, cmd.user), u) = TimesIn(q, u) + (IF cmd.user = u THEN 1 ELSE 0)
    <3>1. /\ DOMAIN Append(q, cmd.user) = 1 .. Len(q) + 1
          /\ \A i \in 1 .. Len(q) : Append(q, cmd.user)[i] = q[i]
          /\ Append(q, cmd.user)[Len(q) + 1] = cmd.user
      BY <1>0, <2>3, AppendProperties, LenProperties
    <3>2. 1 .. Len(q) + 1 = (1 .. Len(q)) \union {Len(q) + 1}
      BY <1>0
    <3>3. (\E i \in DOMAIN Append(q, cmd.user) : Append(q, cmd.user)[i] = u)
            <=> (\E i \in DOMAIN q : q[i] = u) \/ cmd.user = u
      BY <1>0, <3>1, <3>2
    <3> QED
      BY <2>1, <3>3 DEF TimesIn
  <2>5. TimesIn(q, u) \in Nat
    BY DEF TimesIn
  <2> HIDE DEF q, c, n
  <2>6. /\ log' = log /\ creating'[leader] = c
    BY <2>1 DEF c
  <2> QED
    BY <1>1, <1>2, <2>1, <2>2, <2>3, <2>4, <2>5, <2>6 DEF BalanceOf
<1>5. CASE ApplyDuplicateJoin(leader)
  BY <1>0, <1>5 DEF ApplyDuplicateJoin, TypeOK, FSMTypeOK
<1>6. CASE ApplyCreateRoom(leader)
  <2>1. Advance(leader) /\ IsCreate(log[n + 1]) /\ UNCHANGED <<log, globalQueue, creating>>
    BY <1>6 DEF ApplyCreateRoom, Advance, NextEntry
  <2>2. log[n + 1] # Join(u)
    BY <2>1, JoinIsCommand
  <2>3. JoinCount(log, applied'[leader], u) = JoinCount(log, n, u)
    BY <2>1, <2>2, CountApplied
  <2> QED
    BY <1>1, <2>1, <2>3 DEF BalanceOf
<1>7. CASE TryMatchPlayers(leader)
  <2>1. PICK rooms \in Pairings(q) : creating'[leader] = c \o rooms
    BY <1>0, <1>7 DEF TryMatchPlayers
  <2>2. /\ globalQueue'[leader] = Unpaired(q) /\ UNCHANGED <<log, applied>>
    BY <1>0, <1>7 DEF TryMatchPlayers, raftVars
  <2>3. rooms \in Seq(Room) /\ \A j \in 1 .. Len(rooms) :
          rooms[j] \in RoomsWith(u) <=> u \in Players(rooms[j])
    <3>1. rooms \in Seq(Room)
      BY <1>0, PairingsProperties
    <3> QED
      BY <3>1, ElementOfSeq DEF RoomsWith
  <2>4. \A i, j \in DOMAIN q : q[i] = q[j] => i = j
    BY DEF QueueIsOfJoins
  <2> HIDE DEF q, c, n
  <2>5. TimesIn(q, u) + Cardinality(At(c, RoomsWith(u))) =
          TimesIn(Unpaired(q), u) + Cardinality(At(c \o rooms, RoomsWith(u)))
    <3>1. CASE /\ TimesIn(Unpaired(q), u) = TimesIn(q, u)
               /\ \A j \in 1 .. Len(rooms) : u \notin Players(rooms[j])
      <4>1. Cardinality(At(c \o rooms, RoomsWith(u))) = Cardinality(At(c, RoomsWith(u)))
        BY <1>0, <2>3, <3>1, AtConcatNone
      <4> QED
        BY <3>1, <4>1
    <3>2. CASE /\ TimesIn(q, u) = 1 /\ TimesIn(Unpaired(q), u) = 0
               /\ \E k \in 1 .. Len(rooms) : \A j \in 1 .. Len(rooms) :
                    u \in Players(rooms[j]) <=> j = k
      <4>1. PICK k \in 1 .. Len(rooms) : \A j \in 1 .. Len(rooms) :
                   rooms[j] \in RoomsWith(u) <=> j = k
        BY <2>3, <3>2
      <4>2. Cardinality(At(c \o rooms, RoomsWith(u))) = Cardinality(At(c, RoomsWith(u))) + 1
        BY <1>0, <2>3, <4>1, AtConcat
      <4> QED
        BY <1>2, <3>2, <4>2
    <3> QED
      BY <1>0, <2>1, <2>4, <3>1, <3>2, PairedOnce
  <2>6. applied'[leader] = n
    BY <2>2 DEF n
  <2> QED
    BY <1>1, <1>2, <2>1, <2>2, <2>5, <2>6 DEF BalanceOf
<1>8. CASE ProposeRoom(leader)
  <2>1. PICK i \in 1 .. Len(c) : /\ log' = Append(log, Create(c[i]))
                                 /\ creating'[leader] = RemoveAt(c, i)
    BY <1>0, <1>8 DEF ProposeRoom, Replicate
  <2>2. globalQueue'[leader] = q /\ applied'[leader] = n
    BY <1>8 DEF ProposeRoom, Replicate
  <2>3. c[i] \in Room /\ Create(c[i]) \in Command
    BY <1>0, ElementOfSeq, CreateIsCommand
  <2>4. Create(c[i]) \in CreatesWith(u) <=> c[i] \in RoomsWith(u)
    BY <2>3, CreateIsCommand DEF CreatesWith, RoomsWith
  <2>5. Cardinality(At(RemoveAt(c, i), RoomsWith(u))) =
          Cardinality(At(c, RoomsWith(u))) - (IF c[i] \in RoomsWith(u) THEN 1 ELSE 0)
    BY <1>0, AtRemove
  <2>6. /\ JoinCount(log', n, u) = JoinCount(log, n, u)
        /\ Cardinality(At(log', CreatesWith(u))) =
             Cardinality(At(log, CreatesWith(u))) + (IF c[i] \in RoomsWith(u) THEN 1 ELSE 0)
    BY <2>1, <2>3, <2>4, CountAppended
  <2>7. TimesIn(q, u) \in Nat
    BY DEF TimesIn
  <2> HIDE DEF q, c, n
  <2> QED
    BY <1>1, <1>2, <2>1, <2>2, <2>5, <2>6, <2>7 DEF BalanceOf
<1>9. CASE /\ log' = log /\ applied'[leader] = n
           /\ creating'[leader] = c /\ globalQueue'[leader] = q
  BY <1>1, <1>9
<1> QED
  BY <1>3, <1>4, <1>5, <1>6, <1>7, <1>8, <1>9, LeaderSteps

(* A leader that was just elected finds an empty log.                      *)
LEMMA BalancedFirst ==
  ASSUME TypeOK, TypeOK', QueueIsApplied, OneLeader, faults = 0,
         NEW s \in Server, leader = NoServer, ElectLeader(s), NEW u \in User
  PROVE  leader' \in Server /\ Balanced(u)'
<1>1. /\ log = <<>> /\ creating[s] = <<>> /\ leader' = s
      /\ UNCHANGED <<applied, globalQueue, creating>>
  BY NoServerAssumption DEF OneLeader, ElectLeader, Elect, fsmVars
<1>2. commit = 0 /\ applied[s] = 0
  <2>1. Len(log) = 0
    BY <1>1, EmptySeq
  <2>2. commit \in 0 .. 0 /\ applied[s] \in 0 .. commit
    BY <2>1 DEF TypeOK, RaftTypeOK
  <2> QED
    BY <2>2
<1>3. log' = <<>>
  <2>1. Len(log) = 0
    BY <1>1, EmptySeq
  <2>2. log' = SubSeq(log, 1, 0)
    BY <1>2, <2>1 DEF ElectLeader, Elect
  <2>3. SubSeq(log, 1, 0) = <<>>
    BY <1>1, SubSeqEmpty DEF TypeOK, RaftTypeOK
  <2> QED
    BY <2>2, <2>3
<1>4. ~ \E i \in DOMAIN globalQueue[s] : globalQueue[s][i] = u
  BY <1>2 DEF QueueIsApplied, JoinedBy
<1>5. TimesIn(globalQueue[s], u) = 0
  BY <1>4 DEF TimesIn
<1>6. JoinCount(<<>>, 0, u) = 0
  BY FS_EmptySet DEF JoinCount
<1>7. /\ Cardinality(At(<<>>, RoomsWith(u))) = 0
      /\ Cardinality(At(<<>>, CreatesWith(u))) = 0
  <2>1. At(<<>>, RoomsWith(u)) = {} /\ At(<<>>, CreatesWith(u)) = {}
    BY DEF At
  <2> QED
    BY <2>1, FS_EmptySet
<1>8. BalanceOf(<<>>, 0, globalQueue[s], <<>>, u)
  BY <1>5, <1>6, <1>7 DEF BalanceOf
<1>9. BalanceOf(log', applied'[leader'], globalQueue'[leader'], creating'[leader'], u)
  BY <1>1, <1>2, <1>3, <1>8
<1> QED
  BY <1>1, <1>9, BalancedIsAfter

(* OneLeader and JoinsAreConserved, together inductive with what is known. *)
ConservedInv == OneLeader /\ JoinsAreConserved

LEMMA ConservedNext ==
  ASSUME TypeOK, TypeOK', QueueIsOfJoins, QueueIsApplied, ConservedInv, [Next]_vars
  PROVE  ConservedInv'
<1>1. OneLeader'
  BY OneLeaderNext DEF ConservedInv
<1>2. ASSUME faults' = 0, leader' # NoServer, ~ globalQueueMu'[leader'], NEW u \in User
      PROVE  Balanced(u)'
  <2>1. faults = 0
    BY <1>2, NoFaultSoFar
  <2>2. CASE leader' = leader
    <3>1. leader \in Server
      BY <1>2, <2>2 DEF TypeOK, RaftTypeOK
    <3>2. ~ globalQueueMu[leader]
      <4>1. ~ Restart(leader)
        BY <1>2, <2>1, BoundAssumption DEF Restart, RestartRaft, Fault, TypeOK, RaftTypeOK
      <4>2. globalQueueMu \in [Server -> BOOLEAN]
        BY DEF TypeOK, FSMTypeOK
      <4> QED
        BY <1>2, <2>2, <3>1, <4>1, <4>2, ApplySteps
        DEF ApplyNewJoin, ApplyDuplicateJoin, ApplyCreateRoom
    <3>3. Balanced(u)
      BY <1>2, <2>1, <2>2, <3>2 DEF ConservedInv, JoinsAreConserved, Balanced
    <3> QED
      BY <1>2, <2>1, <2>2, <3>1, <3>3, BalancedNext
  <2>3. CASE \E s \in Server : leader = NoServer /\ ElectLeader(s)
    BY <2>1, <2>3, BalancedFirst DEF ConservedInv
  <2> QED
    BY <1>2, <2>1, <2>2, <2>3, LeaderStays
<1>3. JoinsAreConserved'
  BY <1>2 DEF JoinsAreConserved, Balanced
<1> QED
  BY <1>1, <1>3 DEF ConservedInv

(* As long as nothing fails, the pops outside the log neither lose a player*)
(* nor use a join twice, unless the leader has lost its lock               *)
(* (TryMatchPlayers, and the goroutines that propose its rooms).           *)
THEOREM JoinsStayConserved == Spec => []JoinsAreConserved
<1>1. Init => ConservedInv
  BY NoServerAssumption DEF Init, RaftInit, ConservedInv, OneLeader, JoinsAreConserved
<1>2. ConservedInv => JoinsAreConserved
  BY DEF ConservedInv
<1>3. IInv /\ IInv' /\ AppliedInv /\ ConservedInv /\ [Next]_vars => ConservedInv'
  <2> SUFFICES ASSUME IInv, IInv', AppliedInv, ConservedInv, [Next]_vars
               PROVE  ConservedInv'
    OBVIOUS
  <2>1. TypeOK /\ TypeOK' /\ QueueIsOfJoins /\ QueueIsApplied
    BY DEF IInv, AppliedInv
  <2> QED
    BY <2>1, ConservedNext
<1> QED
  BY <1>1, <1>2, <1>3, Invariance, AppliedInvariance, PTL DEF Spec

(***************************************************************************)
(* As long as nothing fails and NATS is not clustered, a player has one    *)
(* thing on its way at most.                                               *)
(***************************************************************************)
Before(seq, R, b) == At(seq, R) \intersect (1 .. b)

LEMMA CountBefore ==
  ASSUME NEW T, NEW seq \in Seq(T), NEW R, NEW b \in Nat, NEW d \in Nat, b <= d
  PROVE  /\ IsFiniteSet(Before(seq, R, d))
         /\ Cardinality(Before(seq, R, b)) \in Nat
         /\ Cardinality(Before(seq, R, d)) \in Nat
         /\ Cardinality(Before(seq, R, b)) <= Cardinality(Before(seq, R, d))
         /\ Cardinality(Before(seq, R, d)) <= Cardinality(At(seq, R))
         /\ Cardinality(Before(seq, R, b + 1)) =
              Cardinality(Before(seq, R, b)) + (IF b + 1 \in At(seq, R) THEN 1 ELSE 0)
<1>1. IsFiniteSet(At(seq, R))
  BY AtIsFinite
<1>2. /\ Before(seq, R, b) \subseteq Before(seq, R, d)
      /\ Before(seq, R, d) \subseteq At(seq, R)
  BY DEF Before
<1>3. IsFiniteSet(Before(seq, R, d)) /\ IsFiniteSet(Before(seq, R, b))
  BY <1>1, <1>2, FS_Subset
<1>4. /\ Cardinality(Before(seq, R, b)) <= Cardinality(Before(seq, R, d))
      /\ Cardinality(Before(seq, R, d)) <= Cardinality(At(seq, R))
  BY <1>1, <1>2, <1>3, FS_Subset
<1>5. Cardinality(Before(seq, R, b)) \in Nat /\ Cardinality(Before(seq, R, d)) \in Nat
  BY <1>3, FS_CardinalityType
<1>6. Cardinality(Before(seq, R, b + 1)) =
        Cardinality(Before(seq, R, b)) + (IF b + 1 \in At(seq, R) THEN 1 ELSE 0)
  BY CountToNext DEF Before
<1> QED
  BY <1>3, <1>4, <1>5, <1>6

(* An entry that is appended comes after what was counted.                 *)
LEMMA BeforeAppend ==
  ASSUME NEW T, NEW seq \in Seq(T), NEW e \in T, NEW R, NEW b \in Nat, b <= Len(seq)
  PROVE  /\ Before(Append(seq, e), R, b) = Before(seq, R, b)
         /\ At(seq, R) \subseteq At(Append(seq, e), R)
         /\ At(Append(seq, e), R) \subseteq At(seq, R) \union {Len(seq) + 1}
         /\ Len(seq) + 1 \in At(Append(seq, e), R) <=> e \in R
<1>1. /\ Len(seq) \in Nat /\ DOMAIN seq = 1 .. Len(seq)
      /\ DOMAIN Append(seq, e) = 1 .. Len(seq) + 1
      /\ \A i \in 1 .. Len(seq) : Append(seq, e)[i] = seq[i]
      /\ Append(seq, e)[Len(seq) + 1] = e
  BY AppendProperties, LenProperties
<1>2. 1 .. Len(seq) + 1 = (1 .. Len(seq)) \union {Len(seq) + 1}
  BY <1>1
<1>3. /\ At(seq, R) \subseteq At(Append(seq, e), R)
      /\ At(Append(seq, e), R) \subseteq At(seq, R) \union {Len(seq) + 1}
      /\ Len(seq) + 1 \in At(Append(seq, e), R) <=> e \in R
  BY <1>1, <1>2 DEF At
<1>4. Len(seq) + 1 \notin 1 .. b
  BY <1>1
<1> QED
  BY <1>3, <1>4 DEF Before

MessagesTo(M, u) == {m \in M : m.to = u}
Waits(p) == IF p = "waiting" THEN 1 ELSE 0

(* The rooms of u that c, a copy of CreatedRooms, has yet to announce.     *)
ToldOf(c, l, u) == At(c, At(l, CreatesWith(u)))

(* For player u: its entries in the local queue (a), its joins in the log  *)
(* (l) and its rooms to be announced (c, M) are as many at most as its     *)
(* rooms that the leader has applied (n), and one more while it waits.     *)
RoundOf(a, l, n, c, M, p, u) ==
  a + Cardinality(At(l, {Join(u)})) + Cardinality(ToldOf(c, l, u)) + Cardinality(MessagesTo(M, u))
    <= Cardinality(Before(l, CreatesWith(u), n)) + Waits(p)

OneAtATime(u) ==
  /\ IsFiniteSet(MessagesTo(msgs, u))
  /\ leader = NoServer => unsent[u] <= Waits(phase[u])
  /\ leader # NoServer =>
       RoundOf(unsent[u], log, applied[leader], createdRooms[leader], msgs, phase[u], u)

(* No room of u comes after entry i of the log.                            *)
IsLastRoom(i, u) == \A k \in At(log, CreatesWith(u)) : k <= i

(* Whoever plays, and whoever is about to be told of a room, has no later. *)
LastIsHeard ==
  /\ \A u \in User : phase[u] = "playing" => IsLastRoom(match[u], u)
  /\ \A m \in msgs : IsLastRoom(m.room, m.to)
  /\ leader # NoServer =>
       \A k \in DOMAIN createdRooms[leader] : \A u \in User :
         createdRooms[leader][k] \in At(log, CreatesWith(u)) =>
           IsLastRoom(createdRooms[leader][k], u)

RoundsInv ==
  faults = 0 /\ ~ Clustered =>
    /\ leader # NoServer => ~ globalQueueMu[leader]
    /\ \A u \in User : OneAtATime(u)
    /\ LastIsHeard

(* A server that has not restarted still knows of each room it applied.    *)
RoomsAreThere ==
  faults = 0 =>
    \A s \in Server : \A i \in 1 .. applied[s] :
      IsCreate(log[i]) => globalRooms[s][RoomID(log[i].room)] # 0

LEMMA RoomsThereNext ==
  ASSUME TypeOK, RoomsAreThere, [Next]_vars
  PROVE  RoomsAreThere'
<1> SUFFICES ASSUME faults' = 0, NEW s \in Server, NEW i \in 1 .. applied'[s],
                    IsCreate(log'[i])
             PROVE  globalRooms'[s][RoomID(log'[i].room)] # 0
  BY DEF RoomsAreThere, IsCreate, RoomID
<1>0. /\ applied[s] \in Nat /\ applied[s] <= commit /\ commit \in Nat /\ faults = 0
      /\ \A k \in 1 .. commit : log'[k] = log[k]
      /\ globalRooms \in [Server -> [Name \X Name -> 0 .. MaxLog]]
  BY AppliedEntry, NoFaultSoFar, CommittedStays DEF TypeOK, FSMTypeOK
<1>1. ~ Restart(s)
  BY <1>0, BoundAssumption DEF Restart, RestartRaft, Fault
<1>2. ASSUME i \in 1 .. applied[s] PROVE globalRooms[s][RoomID(log'[i].room)] # 0
  <2>1. log'[i] = log[i]
    BY <1>0, <1>2
  <2> QED
    BY <1>0, <1>2, <2>1 DEF RoomsAreThere
<1>3. CASE applied'[s] = applied[s] /\ globalRooms'[s] = globalRooms[s]
  BY <1>2, <1>3
<1>4. CASE ApplyNewJoin(s) \/ ApplyDuplicateJoin(s)
  <2>1. /\ applied'[s] = applied[s] + 1 /\ applied[s] + 1 \in 1 .. commit
        /\ IsJoin(log[applied[s] + 1]) /\ log[applied[s] + 1] \in Command
        /\ globalRooms' = globalRooms
    BY <1>4, AppliedEntry DEF ApplyNewJoin, ApplyDuplicateJoin, ApplyJoin, NextEntry
  <2>2. ~ IsCreate(log'[applied[s] + 1])
    BY <1>0, <2>1, CommandKinds
  <2>3. i \in 1 .. applied[s]
    <3>1. i \in 1 .. applied[s] + 1 /\ i # applied[s] + 1
      BY <2>1, <2>2
    <3> QED
      BY <1>0, <3>1
  <2> QED
    BY <1>2, <2>1, <2>3
<1>5. CASE ApplyCreateRoom(s)
  <2> DEFINE n == applied[s] + 1
             id == RoomID(log[n].room)
  <2>1. /\ applied'[s] = n /\ n \in 1 .. commit /\ n # 0
        /\ IsCreate(log[n]) /\ log[n] \in Command
        /\ globalRooms' = [globalRooms EXCEPT ![s][id] = n]
    BY <1>5, AppliedEntry DEF ApplyCreateRoom, NextEntry
  <2>2. id \in Name \X Name
    BY <2>1, CommandKinds, RoomParts
  <2>3. i = n \/ i \in 1 .. applied[s]
    BY <1>0, <2>1
  <2> HIDE DEF id, n
  <2>4. globalRooms'[s][id] # 0
    BY <1>0, <2>1, <2>2
  <2>5. CASE i = n
    BY <1>0, <2>1, <2>4, <2>5 DEF id
  <2>6. CASE i \in 1 .. applied[s] /\ RoomID(log'[i].room) # id
    <3>1. globalRooms'[s][RoomID(log'[i].room)] = globalRooms[s][RoomID(log'[i].room)]
      <4>1. RoomID(log'[i].room) \in Name \X Name
        <5>1. log'[i] \in Command
          <6>1. log'[i] = log[i] /\ log \in Seq(Command) /\ i \in 1 .. Len(log)
            BY <1>0, <2>6, LenProperties DEF TypeOK, RaftTypeOK
          <6> QED
            BY <6>1, ElementOfSeq
        <5> QED
          BY <5>1, CommandKinds, RoomParts
      <4> QED
        BY <1>0, <2>1, <2>2, <2>6, <4>1
    <3> QED
      BY <1>2, <2>6, <3>1
  <2> QED
    BY <2>3, <2>4, <2>5, <2>6
<1> QED
  BY <1>1, <1>3, <1>4, <1>5, ApplySteps

(* What a step that is no fault may do to what RoundsInv counts.           *)
LEMMA RoundSteps ==
  ASSUME TypeOK, [Next]_vars, faults' = faults, leader \in Server
  PROVE  \/ \E u \in User : JoinQueue(u) \/ SendToGlobalQueue(u) \/ EndGame(u)
         \/ ApplyNewJoin(leader) \/ ApplyDuplicateJoin(leader) \/ ApplyCreateRoom(leader)
         \/ ProposeRoom(leader)
         \/ ConsumeCreatedRoom(leader)
         \/ \E m \in msgs : Deliver(m)
         \/ /\ UNCHANGED <<log, unsent, phase, match, msgs>>
            /\ applied'[leader] = applied[leader]
            /\ createdRooms'[leader] = createdRooms[leader]
<1> DEFINE Same == /\ UNCHANGED <<log, unsent, phase, match, msgs>>
                   /\ applied'[leader] = applied[leader]
                   /\ createdRooms'[leader] = createdRooms[leader]
<1>0. /\ leader # NoServer
      /\ applied \in [Server -> 0 .. commit]
      /\ createdRooms \in [Server -> Seq(Index)]
  BY NoServerAssumption DEF TypeOK, RaftTypeOK, FSMTypeOK
<1>1. ASSUME Fault PROVE FALSE
  BY <1>1, BoundAssumption DEF Fault, TypeOK, RaftTypeOK
<1>2. ASSUME NEW t \in Server, t # leader,
             ApplyNewJoin(t) \/ ApplyDuplicateJoin(t) \/ ApplyCreateRoom(t)
      PROVE  Same
  BY <1>0, <1>2 DEF ApplyNewJoin, ApplyDuplicateJoin, ApplyJoin, ApplyCreateRoom, Advance,
     localVars, clientVars
<1>3. ASSUME NEW t \in Server, t # leader, ConsumeCreatedRoom(t) PROVE Same
  BY <1>0, <1>3 DEF ConsumeCreatedRoom, raftVars, localVars, clientVars
<1>4. ASSUME NEW t \in Server, ProposeRoom(t) PROVE t = leader
  BY <1>4 DEF ProposeRoom, Replicate
<1>5. ASSUME NEW t \in Server,
             \/ SendAnswered(t) \/ BlockOnQueueMu(t) \/ TryMatchPlayers(t) \/ ProposalRefused(t)
             \/ ElectLeader(t) \/ Snapshot(t) \/ Restart(t)
      PROVE  Same
  BY <1>0, <1>1, <1>5 DEF SendAnswered, BlockOnQueueMu, TryMatchPlayers, ProposalRefused,
     ElectLeader, Elect, Snapshot, TakeSnapshot, Restart, RestartRaft, raftVars, fsmVars,
     localVars, clientVars
<1>6. ASSUME NEW u \in User, JoinUnanswered(u) \/ SendWithoutLeader(u) \/ SendRefused(u)
      PROVE  Same
  BY <1>0, <1>1, <1>6 DEF JoinUnanswered, SendWithoutLeader, SendRefused
<1>7. ASSUME NEW m \in msgs, Lose(m) PROVE Same
  BY <1>1, <1>7 DEF Lose
<1>8. CASE CommitEntry \/ LoseLeadership \/ UNCHANGED vars
  BY <1>1, <1>8 DEF CommitEntry, Commit, LoseLeadership, StepDown, vars, raftVars, fsmVars,
     localVars, clientVars
<1> QED
  BY <1>2, <1>3, <1>4, <1>5, <1>6, <1>7, <1>8 DEF Next, ServerStep, UserStep

(* Whatever u has on its way, it has one of them, and only while it waits. *)
LEMMA AtMostOne ==
  ASSUME TypeOK, ConservedInv, RoundsInv, faults = 0, ~ Clustered, leader \in Server,
         NEW u \in User
  PROVE  LET n == applied[leader]
             rooms == Cardinality(At(log, CreatesWith(u)))
             applies == Cardinality(Before(log, CreatesWith(u), n))
             queued == TimesIn(globalQueue[leader], u)
             pending == Cardinality(At(creating[leader], RoomsWith(u)))
             told == Cardinality(ToldOf(createdRooms[leader], log, u))
             heard == Cardinality(MessagesTo(msgs, u))
             sent == Cardinality(At(log, {Join(u)}))
         IN /\ rooms \in Nat /\ applies \in Nat /\ applies <= rooms
            /\ queued \in Nat /\ pending \in Nat /\ told \in Nat /\ heard \in Nat
            /\ sent \in Nat /\ JoinCount(log, n, u) \in Nat /\ JoinCount(log, n, u) <= sent
            /\ JoinCount(log, n, u) = queued + pending + rooms
            /\ queued + pending + (rooms - applies) + told + heard
                 + (sent - JoinCount(log, n, u)) + unsent[u] <= Waits(phase[u])
<1> DEFINE n == applied[leader]
           rooms == Cardinality(At(log, CreatesWith(u)))
           applies == Cardinality(Before(log, CreatesWith(u), n))
           queued == TimesIn(globalQueue[leader], u)
           pending == Cardinality(At(creating[leader], RoomsWith(u)))
           told == Cardinality(ToldOf(createdRooms[leader], log, u))
           heard == Cardinality(MessagesTo(msgs, u))
           sent == Cardinality(At(log, {Join(u)}))
           count == JoinCount(log, n, u)
<1>0. /\ log \in Seq(Command) /\ n \in Nat /\ n <= Len(log) /\ Len(log) \in Nat
      /\ createdRooms[leader] \in Seq(Index) /\ creating[leader] \in Seq(Room)
      /\ unsent[u] \in Nat /\ leader # NoServer
  <2>1. /\ log \in Seq(Command) /\ commit \in 0 .. Len(log)
        /\ applied[leader] \in 0 .. commit
        /\ createdRooms[leader] \in Seq(Index) /\ creating[leader] \in Seq(Room)
        /\ unsent[u] \in Nat /\ leader # NoServer
    BY NoServerAssumption DEF TypeOK, RaftTypeOK, FSMTypeOK, LocalTypeOK
  <2>2. Len(log) \in Nat
    BY <2>1, LenProperties
  <2> QED
    BY <2>1, <2>2
<1>1. OneAtATime(u) /\ ~ globalQueueMu[leader]
  BY <1>0 DEF RoundsInv
<1>2. BalanceOf(log, n, globalQueue[leader], creating[leader], u)
  BY <1>0, <1>1, BalancedIs DEF ConservedInv, JoinsAreConserved, Balanced
<1>3. /\ pending \in Nat /\ told \in Nat /\ rooms \in Nat /\ sent \in Nat
  BY <1>0, AtIsFinite DEF ToldOf
<1>4. queued \in Nat
  BY DEF TimesIn
<1>5. heard \in Nat
  BY <1>1, FS_CardinalityType DEF OneAtATime
<1>6. applies \in Nat /\ applies <= rooms
  BY <1>0, CountBefore
<1>7. count \in Nat /\ count <= sent
  <2>1. {i \in 1 .. n : log[i] = Join(u)} = Before(log, {Join(u)}, n)
    BY <1>0, LenProperties DEF Before, At
  <2>2. /\ Cardinality(Before(log, {Join(u)}, n)) \in Nat
        /\ Cardinality(Before(log, {Join(u)}, n)) <= sent
    BY <1>0, CountBefore
  <2> QED
    BY <2>1, <2>2 DEF JoinCount
<1>8. unsent[u] + sent + told + heard <= applies + Waits(phase[u])
  BY <1>0, <1>1 DEF OneAtATime, RoundOf
<1>9. count = queued + pending + rooms
  BY <1>2 DEF BalanceOf
<1>10. Waits(phase[u]) \in Nat
  BY DEF Waits
<1> HIDE DEF rooms, applies, queued, pending, told, heard, sent, count
<1>11. queued + pending + (rooms - applies) + told + heard + (sent - count) + unsent[u]
         <= Waits(phase[u])
  BY <1>0, <1>3, <1>4, <1>5, <1>6, <1>7, <1>8, <1>9, <1>10
<1> QED
  BY <1>3, <1>4, <1>5, <1>6, <1>7, <1>9, <1>11
  DEF rooms, applies, queued, pending, told, heard, sent, count

(* Then no join finds its player in the leader's queue.                    *)
LEMMA NoDuplicate ==
  ASSUME TypeOK, ConservedInv, RoundsInv, [Next]_vars, faults = 0, ~ Clustered,
         leader \in Server, ApplyDuplicateJoin(leader)
  PROVE  FALSE
<1> DEFINE n == applied[leader]
           u == log[n + 1].user
           q == globalQueue[leader]
<1>1. /\ Advance(leader) /\ IsJoin(log[n + 1])
      /\ \E i \in DOMAIN q : q[i] = u
  BY DEF ApplyDuplicateJoin, ApplyJoin, NextEntry, Queued
<1>2. /\ n \in Nat /\ n + 1 \in 1 .. commit /\ log[n + 1] \in Command
  BY <1>1, AppliedEntry
<1>3. u \in User /\ log[n + 1] = Join(u)
  BY <1>1, <1>2, CommandKinds
<1>4. log \in Seq(Command) /\ commit <= Len(log) /\ Len(log) \in Nat /\ commit \in Nat
  BY LenProperties DEF TypeOK, RaftTypeOK
<1> HIDE DEF u, n, q
<1>5. n + 1 \in At(log, {Join(u)})
  <2>1. n + 1 \in 1 .. Len(log)
    BY <1>2, <1>4
  <2> QED
    BY <1>3, <1>4, <2>1, LenProperties DEF At
<1>6. JoinCount(log, n, u) + 1 <= Cardinality(At(log, {Join(u)}))
  <2>1. {i \in 1 .. n : log[i] = Join(u)} = Before(log, {Join(u)}, n)
    <3>1. \A i \in 1 .. n : i \in DOMAIN log
      BY <1>2, <1>4, LenProperties
    <3> QED
      BY <3>1 DEF Before, At
  <2>2. /\ Cardinality(Before(log, {Join(u)}, n + 1)) =
             Cardinality(Before(log, {Join(u)}, n)) + 1
        /\ Cardinality(Before(log, {Join(u)}, n + 1)) <= Cardinality(At(log, {Join(u)}))
    <3>1. n + 1 \in Nat /\ n <= n + 1
      BY <1>2
    <3> QED
      BY <1>2, <1>4, <1>5, <3>1, CountBefore
  <2> QED
    BY <2>1, <2>2 DEF JoinCount
<1>7. TimesIn(q, u) = 1
  BY <1>1 DEF TimesIn
<1>8. Waits(phase[u]) \in {0, 1} /\ unsent[u] \in Nat
  BY <1>3 DEF Waits, TypeOK, LocalTypeOK
<1> DEFINE rooms == Cardinality(At(log, CreatesWith(u)))
           applies == Cardinality(Before(log, CreatesWith(u), n))
           pending == Cardinality(At(creating[leader], RoomsWith(u)))
           told == Cardinality(ToldOf(createdRooms[leader], log, u))
           heard == Cardinality(MessagesTo(msgs, u))
           sent == Cardinality(At(log, {Join(u)}))
           count == JoinCount(log, n, u)
<1>9. /\ rooms \in Nat /\ applies \in Nat /\ applies <= rooms
      /\ pending \in Nat /\ told \in Nat /\ heard \in Nat
      /\ sent \in Nat /\ count \in Nat
      /\ 1 + pending + (rooms - applies) + told + heard + (sent - count) + unsent[u]
           <= Waits(phase[u])
  BY <1>3, <1>7, AtMostOne DEF n, q
<1>10. count + 1 <= sent
  BY <1>6
<1> HIDE DEF rooms, applies, pending, told, heard, sent, count
<1> QED
  BY <1>8, <1>9, <1>10

(* Without a NATS cluster one announcement of a room reaches each player.  *)
LEMMA OneMessageEach ==
  ASSUME ~ Clustered, NEW M, NEW i, NEW u, IsFiniteSet(MessagesTo(M, u))
  PROVE  LET more == M \union Announcements(i)
         IN /\ IsFiniteSet(MessagesTo(more, u))
            /\ Cardinality(MessagesTo(more, u)) <=
                 Cardinality(MessagesTo(M, u)) + (IF u \in Players(log[i].room) THEN 1 ELSE 0)
<1> DEFINE more == M \union Announcements(i)
           one == [via |-> Home[u], to |-> u, room |-> i]
<1>1. ASSUME NEW m \in Announcements(i), m.to = u
      PROVE  u \in Players(log[i].room) /\ m = one
  <2>1. m \in [via : Server, to : Players(log[i].room), room : {i}] /\ Home[m.to] = m.via
    BY DEF Announcements, Reaches
  <2> QED
    BY <1>1, <2>1
<1> HIDE DEF one
<1>2. Cardinality(MessagesTo(M, u)) \in Nat
  BY FS_CardinalityType
<1>3. CASE u \in Players(log[i].room)
  <2>1. MessagesTo(more, u) \subseteq MessagesTo(M, u) \union {one}
    BY <1>1 DEF MessagesTo
  <2>2. /\ IsFiniteSet(MessagesTo(M, u) \union {one})
        /\ Cardinality(MessagesTo(M, u) \union {one}) <= Cardinality(MessagesTo(M, u)) + 1
    <3>1. /\ IsFiniteSet(MessagesTo(M, u) \union {one})
          /\ Cardinality(MessagesTo(M, u) \union {one}) =
               IF one \in MessagesTo(M, u) THEN Cardinality(MessagesTo(M, u))
                                           ELSE Cardinality(MessagesTo(M, u)) + 1
      BY FS_AddElement
    <3> QED
      BY <1>2, <3>1
  <2>3. /\ IsFiniteSet(MessagesTo(more, u))
        /\ Cardinality(MessagesTo(more, u)) <= Cardinality(MessagesTo(M, u) \union {one})
    BY <2>1, <2>2, FS_Subset
  <2>4. Cardinality(MessagesTo(more, u)) \in Nat
        /\ Cardinality(MessagesTo(M, u) \union {one}) \in Nat
    BY <2>2, <2>3, FS_CardinalityType
  <2> QED
    BY <1>2, <1>3, <2>2, <2>3, <2>4
<1>4. CASE u \notin Players(log[i].room)
  <2>1. MessagesTo(more, u) = MessagesTo(M, u)
    BY <1>1, <1>4 DEF MessagesTo
  <2> QED
    BY <1>2, <1>4, <2>1
<1> QED
  BY <1>3, <1>4

(* A log that grows by one entry changes neither what was applied nor what *)
(* is told of rooms in it.                                                 *)
LEMMA GrownLog ==
  ASSUME NEW l \in Seq(Command), NEW cmd \in Command, NEW n \in Nat, n <= Len(l),
         NEW c \in Seq(Nat), \A k \in DOMAIN c : c[k] <= Len(l), NEW u
  PROVE  /\ Before(Append(l, cmd), CreatesWith(u), n) = Before(l, CreatesWith(u), n)
         /\ ToldOf(c, Append(l, cmd), u) = ToldOf(c, l, u)
<1>1. Before(Append(l, cmd), CreatesWith(u), n) = Before(l, CreatesWith(u), n)
  BY BeforeAppend
<1>2. Len(l) \in Nat
  BY LenProperties
<1>3. /\ At(l, CreatesWith(u)) \subseteq At(Append(l, cmd), CreatesWith(u))
      /\ At(Append(l, cmd), CreatesWith(u)) \subseteq
           At(l, CreatesWith(u)) \union {Len(l) + 1}
  BY <1>2, BeforeAppend
<1>4. \A k \in DOMAIN c : c[k] # Len(l) + 1
  <2>1. \A k \in DOMAIN c : c[k] \in Nat
    BY LenProperties, ElementOfSeq
  <2> QED
    BY <1>2, <2>1
<1>5. ToldOf(c, Append(l, cmd), u) = ToldOf(c, l, u)
  BY <1>3, <1>4 DEF ToldOf, At
<1> QED
  BY <1>1, <1>5

LEMMA OneAtATimeNext ==
  ASSUME TypeOK, TypeOK', CreatedAreCommitted, [Next]_vars, ConservedInv, RoundsInv,
         faults = 0, faults' = faults, ~ Clustered, leader \in Server, leader' = leader,
         NEW u \in User
  PROVE  OneAtATime(u)'
<1> DEFINE n == applied[leader]
           c == createdRooms[leader]
           used(l, m) == Cardinality(Before(l, CreatesWith(u), m))
           told(d, l) == Cardinality(ToldOf(d, l, u))
           heard(M) == Cardinality(MessagesTo(M, u))
           sent(l) == Cardinality(At(l, {Join(u)}))
<1>0. /\ leader # NoServer /\ OneAtATime(u)
  BY NoServerAssumption DEF RoundsInv
<1>1. /\ log \in Seq(Command) /\ Len(log) \in Nat /\ n \in Nat /\ n <= commit
      /\ commit \in Nat /\ commit <= Len(log)
      /\ createdRooms \in [Server -> Seq(Index)] /\ c \in Seq(Index)
      /\ unsent \in [User -> Nat] /\ phase \in [User -> {"idle", "waiting", "playing"}]
  <2>1. /\ log \in Seq(Command) /\ commit \in 0 .. Len(log) /\ n \in 0 .. commit
        /\ createdRooms \in [Server -> Seq(Index)] /\ c \in Seq(Index)
        /\ unsent \in [User -> Nat] /\ phase \in [User -> {"idle", "waiting", "playing"}]
    BY DEF TypeOK, RaftTypeOK, FSMTypeOK, LocalTypeOK, ClientTypeOK
  <2>2. Len(log) \in Nat
    BY <2>1, LenProperties
  <2> QED
    BY <2>1, <2>2
<1>2. IsFiniteSet(MessagesTo(msgs, u)) /\ heard(msgs) \in Nat
  BY <1>0, FS_CardinalityType DEF OneAtATime
<1>3. unsent[u] + sent(log) + told(c, log) + heard(msgs) <= used(log, n) + Waits(phase[u])
  BY <1>0 DEF OneAtATime, RoundOf
<1>4. /\ sent(log) \in Nat /\ told(c, log) \in Nat /\ used(log, n) \in Nat
      /\ used(log, n + 1) = used(log, n) + (IF n + 1 \in At(log, CreatesWith(u)) THEN 1 ELSE 0)
  BY <1>1, AtIsFinite, CountBefore DEF ToldOf
<1> HIDE DEF used, told, heard, sent, c, n
<1> SUFFICES /\ IsFiniteSet(MessagesTo(msgs', u))
             /\ unsent'[u] + sent(log') + told(createdRooms'[leader], log') + heard(msgs')
                  <= used(log', applied'[leader]) + Waits(phase'[u])
  <2>1. OneAtATime(u)' <=>
          /\ IsFiniteSet(MessagesTo(msgs', u))
          /\ leader' = NoServer => unsent'[u] <= Waits(phase'[u])
          /\ leader' # NoServer =>
               RoundOf(unsent'[u], log', applied'[leader'], createdRooms'[leader'], msgs',
                       phase'[u], u)
    BY DEF OneAtATime, RoundOf, ToldOf, MessagesTo, Waits, At, Before, CreatesWith, RoomsWith,
       Create, Players, Join
  <2> QED
    BY <1>0, <2>1 DEF RoundOf, used, told, heard, sent
<1> DEFINE Goal == /\ IsFiniteSet(MessagesTo(msgs', u))
                   /\ unsent'[u] + sent(log') + told(createdRooms'[leader], log') + heard(msgs')
                        <= used(log', applied'[leader]) + Waits(phase'[u])
<1>5. /\ Waits(phase[u]) \in Nat /\ unsent[u] \in Nat
  BY <1>1 DEF Waits
(* The steps that do not touch the log or a list of rooms.                 *)
<1>6. ASSUME UNCHANGED <<log, msgs>>, applied'[leader] = n, createdRooms'[leader] = c,
             unsent'[u] - Waits(phase'[u]) <= unsent[u] - Waits(phase[u]),
             unsent'[u] \in Nat, Waits(phase'[u]) \in Nat
      PROVE  Goal
  BY <1>2, <1>3, <1>4, <1>5, <1>6
<1>7. ASSUME NEW v \in User, JoinQueue(v) PROVE Goal
  <2>1. UNCHANGED <<log, msgs>> /\ applied'[leader] = n /\ createdRooms'[leader] = c
    BY <1>7 DEF JoinQueue, Enqueue, raftVars, fsmVars, n, c
  <2>2. CASE v = u
    <3>1. /\ unsent'[u] = unsent[u] + 1 /\ Waits(phase[u]) = 0 /\ Waits(phase'[u]) = 1
      BY <1>1, <1>7, <2>2 DEF JoinQueue, Enqueue, Waits
    <3> QED
      BY <1>5, <1>6, <2>1, <3>1
  <2>3. CASE v # u
    <3>1. unsent'[u] = unsent[u] /\ phase'[u] = phase[u]
      BY <1>1, <1>7, <2>3 DEF JoinQueue, Enqueue
    <3> QED
      BY <1>5, <1>6, <2>1, <3>1
  <2> QED
    BY <2>2, <2>3
<1>8. ASSUME NEW v \in User, EndGame(v) PROVE Goal
  <2>1. UNCHANGED <<log, msgs>> /\ applied'[leader] = n /\ createdRooms'[leader] = c
    BY <1>8 DEF EndGame, raftVars, fsmVars, n, c
  <2>2. unsent'[u] = unsent[u] /\ Waits(phase'[u]) = Waits(phase[u])
    BY <1>1, <1>8 DEF EndGame, localVars, Waits
  <2> QED
    BY <1>5, <1>6, <2>1, <2>2
(* The steps that append to the log.                                       *)
<1>9. ASSUME NEW cmd \in Command, log' = Append(log, cmd)
      PROVE  /\ sent(log') = sent(log) + (IF cmd = Join(u) THEN 1 ELSE 0)
             /\ used(log', n) = used(log, n) /\ told(c, log') = told(c, log)
  <2>1. sent(log') = sent(log) + (IF cmd = Join(u) THEN 1 ELSE 0)
    BY <1>1, <1>9, AtAppend DEF sent
  <2>2. c \in Seq(Nat) /\ \A k \in DOMAIN c : c[k] <= Len(log)
    <3>1. \A k \in DOMAIN c : c[k] \in Index /\ c[k] <= commit
      BY <1>1, LenProperties, ElementOfSeq DEF CreatedAreCommitted, c
    <3>2. c \in Seq(Nat)
      <4>1. Index \subseteq Nat
        BY DEF Index
      <4> QED
        BY <1>1, <4>1, SeqMonotonic
    <3>3. \A k \in DOMAIN c : c[k] \in Nat
      BY <3>1 DEF Index
    <3> QED
      BY <1>1, <3>1, <3>2, <3>3
  <2>3. n <= Len(log)
    BY <1>1
  <2> QED
    BY <1>1, <1>9, <2>1, <2>2, <2>3, GrownLog DEF used, told
<1>10. ASSUME NEW v \in User, SendToGlobalQueue(v) PROVE Goal
  <2>1. /\ log' = Append(log, Join(v)) /\ applied'[leader] = n /\ createdRooms'[leader] = c
        /\ UNCHANGED <<phase, msgs>> /\ unsent[v] > 0
        /\ unsent' = [unsent EXCEPT ![v] = @ - 1]
    BY <1>10 DEF SendToGlobalQueue, Replicate, fsmVars, clientVars, n, c
  <2>2. Join(v) \in Command /\ (Join(v) = Join(u) <=> v = u)
    <3>1. Join(v) = Join(u) => Join(v).user = Join(u).user
      OBVIOUS
    <3> QED
      BY <3>1, JoinIsCommand DEF Join
  <2>3. unsent'[u] = unsent[u] - (IF v = u THEN 1 ELSE 0)
    BY <1>1, <2>1
  <2>4. /\ sent(log') = sent(log) + (IF v = u THEN 1 ELSE 0)
        /\ used(log', n) = used(log, n) /\ told(c, log') = told(c, log)
    BY <1>9, <2>1, <2>2
  <2> QED
    BY <1>2, <1>3, <1>4, <1>5, <2>1, <2>3, <2>4
<1>11. CASE ProposeRoom(leader)
  <2>1. PICK i \in DOMAIN creating[leader] : Replicate(leader, Create(creating[leader][i]))
    BY <1>11 DEF ProposeRoom
  <2>2. Create(creating[leader][i]) \in Command /\ Create(creating[leader][i]) # Join(u)
    <3>1. creating[leader][i] \in Room
      BY <2>1, LenProperties, ElementOfSeq DEF TypeOK, FSMTypeOK
    <3> QED
      BY <3>1, CreateIsCommand, JoinIsCommand
  <2>3. /\ log' = Append(log, Create(creating[leader][i])) /\ applied'[leader] = n
        /\ createdRooms'[leader] = c /\ UNCHANGED <<phase, msgs, unsent>>
    BY <1>11, <2>1 DEF ProposeRoom, Replicate, localVars, clientVars, n, c
  <2>4. /\ sent(log') = sent(log)
        /\ used(log', n) = used(log, n) /\ told(c, log') = told(c, log)
    BY <1>4, <1>9, <2>2, <2>3
  <2> QED
    BY <1>2, <1>3, <1>4, <1>5, <2>3, <2>4
(* The steps that apply an entry.                                          *)
<1>12. CASE ApplyNewJoin(leader)
  <2>1. /\ UNCHANGED <<log, unsent, phase, msgs>> /\ createdRooms'[leader] = c
        /\ applied'[leader] = n + 1
    BY <1>12, AppliedEntry DEF ApplyNewJoin, ApplyJoin, Advance, localVars, clientVars, n, c
  <2> QED
    BY <1>2, <1>3, <1>4, <1>5, <2>1
<1>13. CASE ApplyDuplicateJoin(leader)
  BY <1>13, NoDuplicate
<1>14. CASE ApplyCreateRoom(leader)
  <2>1. /\ UNCHANGED <<log, unsent, phase, msgs>>
        /\ createdRooms'[leader] = Put(c, n + 1)
        /\ applied'[leader] = n + 1 /\ n + 1 \in 1 .. commit
    BY <1>1, <1>14, AppliedEntry DEF ApplyCreateRoom, Advance, localVars, clientVars, n, c
  <2>2. n + 1 \in Index
    BY <1>1, <2>1 DEF Index, TypeOK, RaftTypeOK
  <2>3. told(Append(c, n + 1), log) =
          told(c, log) + (IF n + 1 \in At(log, CreatesWith(u)) THEN 1 ELSE 0)
    BY <1>1, <2>2, AtAppend DEF told, ToldOf
  <2>4. told(createdRooms'[leader], log) <=
          told(c, log) + (IF n + 1 \in At(log, CreatesWith(u)) THEN 1 ELSE 0)
    BY <1>4, <2>1, <2>3 DEF Put
  <2>5. told(createdRooms'[leader], log) \in Nat
    BY <1>4, <2>1, <2>3 DEF Put
  <2> QED
    BY <1>2, <1>3, <1>4, <1>5, <2>1, <2>4, <2>5
(* The steps of an announcement.                                           *)
<1>15. CASE ConsumeCreatedRoom(leader)
  <2> DEFINE i == Head(c)
             mine == IF i \in At(log, CreatesWith(u)) THEN 1 ELSE 0
  <2>1. /\ UNCHANGED <<log, unsent, phase>> /\ applied'[leader] = n
        /\ c # <<>> /\ createdRooms'[leader] = Tail(c)
        /\ msgs' = msgs \union Announcements(i)
    BY <1>1, <1>15 DEF ConsumeCreatedRoom, raftVars, localVars, clientVars, n, c
  <2>2. /\ i \in Index /\ i <= commit /\ IsCreate(log[i])
    BY <2>1, HeadOfCreated DEF c
  <2>3. u \in Players(log[i].room) => i \in At(log, CreatesWith(u))
    <3>1. i \in DOMAIN log
      BY <1>1, <2>2, LenProperties DEF Index
    <3> QED
      BY <1>1, <2>2, <3>1, CreatesWithAt
  <2>4. /\ IsFiniteSet(MessagesTo(msgs', u))
        /\ heard(msgs') <= heard(msgs) + mine
    <3>1. /\ IsFiniteSet(MessagesTo(msgs', u))
          /\ heard(msgs') <= heard(msgs) + (IF u \in Players(log[i].room) THEN 1 ELSE 0)
      <4> HIDE DEF i
      <4> QED
        BY <1>2, <2>1, OneMessageEach DEF heard
    <3>2. heard(msgs') \in Nat
      BY <3>1, FS_CardinalityType DEF heard
    <3> QED
      BY <1>2, <2>3, <3>1, <3>2
  <2>5. told(Tail(c), log) = told(c, log) - mine
    <3>1. Tail(c) = RemoveAt(c, 1) /\ 1 \in 1 .. Len(c) /\ c[1] = i
      <4>1. Len(c) \in Nat \ {0} /\ Tail(c) = SubSeq(c, 2, Len(c)) /\ i = c[1]
        BY <1>1, <2>1, EmptySeq, TailIsSubSeq, HeadTailProperties
      <4>2. SubSeq(c, 1, 0) = <<>>
        BY SubSeqEmpty
      <4>3. Tail(c) \in Seq(Index)
        BY <1>1, <2>1, HeadTailProperties
      <4>4. <<>> \o Tail(c) = Tail(c)
        BY <4>3, ConcatEmptySeq
      <4> QED
        BY <4>1, <4>2, <4>4 DEF RemoveAt
    <3>2. Cardinality(At(RemoveAt(c, 1), At(log, CreatesWith(u)))) =
            Cardinality(At(c, At(log, CreatesWith(u)))) - mine
      BY <1>1, <3>1, AtRemove
    <3> QED
      BY <3>1, <3>2 DEF told, ToldOf
  <2> HIDE DEF i, mine
  <2>6. mine \in {0, 1} /\ heard(msgs') \in Nat
    BY <2>4, FS_CardinalityType DEF mine, heard
  <2>7. told(createdRooms'[leader], log) + heard(msgs') <= told(c, log) + heard(msgs)
    BY <1>2, <1>4, <2>1, <2>4, <2>5, <2>6
  <2>8. told(createdRooms'[leader], log) \in Int
    BY <1>4, <2>1, <2>5, <2>6
  <2> QED
    BY <1>2, <1>3, <1>4, <1>5, <2>1, <2>4, <2>6, <2>7, <2>8
<1>16. ASSUME NEW m \in msgs, Deliver(m) PROVE Goal
  <2>1. /\ UNCHANGED <<log, unsent>> /\ applied'[leader] = n /\ createdRooms'[leader] = c
        /\ msgs' = msgs \ {m}
    BY <1>16 DEF Deliver, raftVars, fsmVars, localVars, n, c
  <2>2. MessagesTo(msgs', u) = MessagesTo(msgs, u) \ {m}
    BY <2>1 DEF MessagesTo
  <2>3. /\ IsFiniteSet(MessagesTo(msgs', u))
        /\ heard(msgs') = heard(msgs) - (IF m.to = u THEN 1 ELSE 0)
    <3>1. m \in MessagesTo(msgs, u) <=> m.to = u
      BY DEF MessagesTo
    <3> QED
      BY <1>2, <2>2, <3>1, FS_RemoveElement DEF heard
  <2>4. /\ Waits(phase'[u]) \in Nat
        /\ Waits(phase'[u]) >= Waits(phase[u]) - (IF m.to = u THEN 1 ELSE 0)
    <3>1. phase' = phase \/ phase' = [phase EXCEPT ![m.to] = "playing"]
      BY <1>16 DEF Deliver
    <3>2. CASE m.to = u
      BY <1>1, <3>1, <3>2 DEF Waits
    <3>3. CASE m.to # u
      <4>1. phase'[u] = phase[u]
        BY <1>1, <3>1, <3>3
      <4> QED
        BY <1>5, <3>3, <4>1
    <3> QED
      BY <3>2, <3>3
  <2> QED
    BY <1>2, <1>3, <1>4, <1>5, <2>1, <2>3, <2>4
<1>17. CASE /\ UNCHANGED <<log, unsent, phase, match, msgs>>
            /\ applied'[leader] = applied[leader]
            /\ createdRooms'[leader] = createdRooms[leader]
  BY <1>2, <1>3, <1>17 DEF n, c
<1> QED
  BY <1>7, <1>8, <1>10, <1>11, <1>12, <1>13, <1>14, <1>15, <1>16, <1>17, RoundSteps

(* Who has a room that is about to be proposed waits, and is told of none. *)
LEMMA ProposedWaits ==
  ASSUME TypeOK, ConservedInv, RoundsInv, faults = 0, ~ Clustered, leader \in Server,
         NEW u \in User, NEW i \in DOMAIN creating[leader], creating[leader][i] \in RoomsWith(u)
  PROVE  /\ phase[u] = "waiting"
         /\ MessagesTo(msgs, u) = {}
         /\ ToldOf(createdRooms[leader], log, u) = {}
<1> DEFINE n == applied[leader]
           rooms == Cardinality(At(log, CreatesWith(u)))
           applies == Cardinality(Before(log, CreatesWith(u), n))
           queued == TimesIn(globalQueue[leader], u)
           pending == Cardinality(At(creating[leader], RoomsWith(u)))
           told == Cardinality(ToldOf(createdRooms[leader], log, u))
           heard == Cardinality(MessagesTo(msgs, u))
           sent == Cardinality(At(log, {Join(u)}))
           count == JoinCount(log, n, u)
<1>1. /\ rooms \in Nat /\ applies \in Nat /\ applies <= rooms
      /\ queued \in Nat /\ pending \in Nat /\ told \in Nat /\ heard \in Nat
      /\ sent \in Nat /\ count \in Nat /\ count <= sent
      /\ queued + pending + (rooms - applies) + told + heard + (sent - count) + unsent[u]
           <= Waits(phase[u])
  BY AtMostOne
<1>2. /\ creating[leader] \in Seq(Room) /\ createdRooms[leader] \in Seq(Index)
      /\ unsent[u] \in Nat /\ leader # NoServer
  BY NoServerAssumption DEF TypeOK, FSMTypeOK, LocalTypeOK
<1>3. /\ IsFiniteSet(At(creating[leader], RoomsWith(u)))
      /\ IsFiniteSet(ToldOf(createdRooms[leader], log, u))
      /\ IsFiniteSet(MessagesTo(msgs, u))
  BY <1>2, AtIsFinite DEF ToldOf, RoundsInv, OneAtATime
<1>4. pending # 0
  <2>1. i \in At(creating[leader], RoomsWith(u))
    BY DEF At
  <2> QED
    BY <1>3, <2>1, FS_EmptySet
<1>5. Waits(phase[u]) \in {0, 1}
  BY DEF Waits
<1>6. /\ told = 0 => ToldOf(createdRooms[leader], log, u) = {}
      /\ heard = 0 => MessagesTo(msgs, u) = {}
  BY <1>3, FS_EmptySet
<1> HIDE DEF rooms, applies, queued, pending, told, heard, sent, count
<1>7. told = 0 /\ heard = 0 /\ Waits(phase[u]) = 1
  BY <1>1, <1>2, <1>4, <1>5
<1> QED
  BY <1>6, <1>7 DEF Waits

(* The next room of a player that its leader applies is its last one.      *)
LEMMA AppliedRoomIsLast ==
  ASSUME TypeOK, ConservedInv, RoundsInv, faults = 0, ~ Clustered, leader \in Server,
         NEW u \in User, applied[leader] + 1 \in At(log, CreatesWith(u))
  PROVE  IsLastRoom(applied[leader] + 1, u)
<1> DEFINE n == applied[leader]
           rooms == Cardinality(At(log, CreatesWith(u)))
           applies == Cardinality(Before(log, CreatesWith(u), n))
           queued == TimesIn(globalQueue[leader], u)
           pending == Cardinality(At(creating[leader], RoomsWith(u)))
           told == Cardinality(ToldOf(createdRooms[leader], log, u))
           heard == Cardinality(MessagesTo(msgs, u))
           sent == Cardinality(At(log, {Join(u)}))
           count == JoinCount(log, n, u)
<1>1. /\ rooms \in Nat /\ applies \in Nat /\ applies <= rooms
      /\ queued \in Nat /\ pending \in Nat /\ told \in Nat /\ heard \in Nat
      /\ sent \in Nat /\ count \in Nat /\ count <= sent
      /\ queued + pending + (rooms - applies) + told + heard + (sent - count) + unsent[u]
           <= Waits(phase[u])
  BY AtMostOne
<1>2. Waits(phase[u]) \in {0, 1} /\ unsent[u] \in Nat
  BY DEF Waits, TypeOK, LocalTypeOK
<1>3. /\ log \in Seq(Command) /\ n \in Nat
      /\ \A k \in At(log, CreatesWith(u)) : k \in Nat
  <2>1. /\ log \in Seq(Command) /\ commit \in 0 .. Len(log) /\ n \in 0 .. commit
    BY DEF TypeOK, RaftTypeOK
  <2>2. Len(log) \in Nat /\ At(log, CreatesWith(u)) \subseteq 1 .. Len(log)
    BY <2>1, AtIsFinite, LenProperties
  <2> QED
    BY <2>1, <2>2
<1> SUFFICES ASSUME NEW k \in At(log, CreatesWith(u)), k > n + 1 PROVE FALSE
  BY <1>3 DEF IsLastRoom
<1>4. k - 1 \in Nat /\ n + 1 <= k - 1 /\ n + 1 \in Nat /\ k \in Nat /\ k - 1 + 1 = k
  BY <1>3
<1> DEFINE first == Cardinality(Before(log, CreatesWith(u), n + 1))
           others == Cardinality(Before(log, CreatesWith(u), k - 1))
           all == Cardinality(Before(log, CreatesWith(u), k))
<1>5. first = applies + 1
  BY <1>3, CountBefore
<1>6. first \in Nat /\ others \in Nat /\ first <= others
  BY <1>3, <1>4, CountBefore
<1>7. all = others + 1
  <2>1. Cardinality(Before(log, CreatesWith(u), k - 1 + 1)) = others + 1
    BY <1>3, <1>4, CountBefore
  <2> QED
    BY <1>4, <2>1
<1>8. all <= rooms
  BY <1>3, <1>4, CountBefore
<1> HIDE DEF rooms, applies, queued, pending, told, heard, sent, count, first, others, all
<1> QED
  BY <1>1, <1>2, <1>5, <1>6, <1>7, <1>8

LEMMA LastIsHeardNext ==
  ASSUME TypeOK, TypeOK', CreatedAreCommitted, CreatedAreCommitted', [Next]_vars,
         ConservedInv, RoundsInv, faults = 0, faults' = faults, ~ Clustered,
         leader \in Server, leader' = leader
  PROVE  LastIsHeard'
<1> DEFINE c == createdRooms[leader]
           RoomsOfU(l, u) == At(l, CreatesWith(u))
           LastAfter(i, u) == \A k \in RoomsOfU(log', u) : k <= i
           Told(u) == \E k \in DOMAIN c : c[k] \in RoomsOfU(log, u)
           Busy(u) == phase[u] # "waiting" \/ (\E m \in msgs : m.to = u) \/ Told(u)
<1>0. /\ log \in Seq(Command) /\ log' \in Seq(Command) /\ Len(log) \in Nat
      /\ commit \in Nat /\ commit <= Len(log)
      /\ createdRooms \in [Server -> Seq(Index)] /\ c \in Seq(Index)
      /\ phase \in [User -> {"idle", "waiting", "playing"}]
      /\ match \in [User -> 0 .. MaxLog]
      /\ msgs \subseteq Message /\ leader # NoServer
  <2>1. /\ log \in Seq(Command) /\ log' \in Seq(Command)
        /\ commit \in 0 .. Len(log)
        /\ createdRooms \in [Server -> Seq(Index)] /\ c \in Seq(Index)
        /\ phase \in [User -> {"idle", "waiting", "playing"}]
        /\ match \in [User -> 0 .. MaxLog]
        /\ msgs \subseteq Message /\ leader # NoServer
    BY NoServerAssumption DEF TypeOK, RaftTypeOK, FSMTypeOK, ClientTypeOK
  <2>2. Len(log) \in Nat
    BY <2>1, LenProperties
  <2> QED
    BY <2>1, <2>2
<1>1. LastIsHeard
  BY DEF RoundsInv
<1> SUFFICES /\ \A u \in User : phase'[u] = "playing" => LastAfter(match'[u], u)
             /\ \A m \in msgs' : LastAfter(m.room, m.to)
             /\ \A k \in DOMAIN createdRooms'[leader] : \A u \in User :
                  createdRooms'[leader][k] \in RoomsOfU(log', u) =>
                    LastAfter(createdRooms'[leader][k], u)
  <2>1. LastIsHeard' <=>
          /\ \A u \in User : phase'[u] = "playing" => LastAfter(match'[u], u)
          /\ \A m \in msgs' : LastAfter(m.room, m.to)
          /\ leader' # NoServer =>
               \A k \in DOMAIN createdRooms'[leader'] : \A u \in User :
                  createdRooms'[leader'][k] \in RoomsOfU(log', u) =>
                    LastAfter(createdRooms'[leader'][k], u)
    BY DEF LastIsHeard, IsLastRoom, At, CreatesWith, RoomsWith, Create, Players
  <2> QED
    BY <2>1
<1> HIDE DEF c, RoomsOfU, LastAfter
<1>2. ASSUME NEW u \in User
      PROVE  \/ RoomsOfU(log', u) = RoomsOfU(log, u)
             \/ ~ Busy(u)
  <2>1. ASSUME NEW cmd \in Command, log' = Append(log, cmd), cmd \notin CreatesWith(u)
        PROVE  RoomsOfU(log', u) = RoomsOfU(log, u)
    <3>1. Len(log) + 1 \notin RoomsOfU(log', u)
      BY <1>0, <2>1, BeforeAppend DEF RoomsOfU
    <3>2. /\ RoomsOfU(log, u) \subseteq RoomsOfU(log', u)
          /\ RoomsOfU(log', u) \subseteq RoomsOfU(log, u) \union {Len(log) + 1}
      BY <1>0, <2>1, BeforeAppend DEF RoomsOfU
    <3> QED
      BY <3>1, <3>2
  <2>2. ASSUME NEW v \in User, SendToGlobalQueue(v)
        PROVE  RoomsOfU(log', u) = RoomsOfU(log, u)
    <3>1. log' = Append(log, Join(v))
      BY <2>2 DEF SendToGlobalQueue, Replicate
    <3>2. Join(v) \in Command /\ Join(v) \notin CreatesWith(u)
      BY JoinIsCommand, CreateIsCommand DEF CreatesWith, RoomsWith
    <3> QED
      BY <2>1, <3>1, <3>2
  <2>3. CASE ProposeRoom(leader)
    <3>1. PICK i \in DOMAIN creating[leader] : log' = Append(log, Create(creating[leader][i]))
      BY <2>3 DEF ProposeRoom, Replicate
    <3>2. creating[leader][i] \in Room
      BY <3>1, LenProperties, ElementOfSeq DEF TypeOK, FSMTypeOK
    <3>3. CASE creating[leader][i] \in RoomsWith(u)
      <4>1. /\ phase[u] = "waiting" /\ MessagesTo(msgs, u) = {}
            /\ ToldOf(c, log, u) = {}
        BY <3>1, <3>3, ProposedWaits DEF c
      <4>2. ~ Told(u)
        BY <4>1 DEF ToldOf, At, RoomsOfU
      <4> QED
        BY <4>1, <4>2 DEF MessagesTo
    <3>4. CASE creating[leader][i] \notin RoomsWith(u)
      <4>1. Create(creating[leader][i]) \in Command
        BY <3>2, CreateIsCommand
      <4>2. Create(creating[leader][i]) \notin CreatesWith(u)
        BY <3>2, <3>4, CreateIsCommand DEF CreatesWith, RoomsWith
      <4> QED
        BY <2>1, <3>1, <4>1, <4>2
    <3> QED
      BY <3>3, <3>4
  <2>4. CASE log' = log
    BY <2>4
  <2> QED
    BY <2>2, <2>3, <2>4, RoundSteps
    DEF JoinQueue, EndGame, ApplyNewJoin, ApplyDuplicateJoin, ApplyJoin, ApplyCreateRoom,
        Advance, ConsumeCreatedRoom, Deliver, raftVars
<1>3. ASSUME NEW u \in User, NEW i, IsLastRoom(i, u), Busy(u) PROVE LastAfter(i, u)
  BY <1>2, <1>3 DEF IsLastRoom, LastAfter, RoomsOfU
<1>4. ASSUME NEW u \in User, NEW i, IsLastRoom(i, u), log' = log PROVE LastAfter(i, u)
  BY <1>4 DEF IsLastRoom, LastAfter, RoomsOfU
(* Who plays.                                                              *)
<1>5. ASSUME NEW u \in User, phase'[u] = "playing" PROVE LastAfter(match'[u], u)
  <2>1. CASE phase[u] = "playing" /\ match'[u] = match[u]
    BY <1>1, <1>3, <2>1 DEF LastIsHeard
  <2>2. ASSUME NEW m \in msgs, Deliver(m), ~ (phase[u] = "playing" /\ match'[u] = match[u])
        PROVE  LastAfter(match'[u], u)
    <3>1. log' = log /\ m.to = u /\ match'[u] = m.room
      BY <1>0, <1>5, <2>2 DEF Deliver, raftVars
    <3> QED
      BY <1>1, <1>4, <3>1 DEF LastIsHeard
  <2>3. ASSUME NEW v \in User, JoinQueue(v) PROVE phase[u] = "playing" /\ match'[u] = match[u]
    BY <1>0, <1>5, <2>3 DEF JoinQueue, Enqueue
  <2>4. ASSUME NEW v \in User, EndGame(v) PROVE phase[u] = "playing" /\ match'[u] = match[u]
    BY <1>0, <1>5, <2>4 DEF EndGame
  <2>5. CASE UNCHANGED <<phase, match>>
    BY <1>5, <2>1, <2>5
  <2> QED
    BY <2>1, <2>2, <2>3, <2>4, <2>5, RoundSteps
    DEF SendToGlobalQueue, ApplyNewJoin, ApplyDuplicateJoin, ApplyJoin, ApplyCreateRoom,
        ProposeRoom, ConsumeCreatedRoom, clientVars
(* What is announced.                                                      *)
<1>6. ASSUME NEW m \in msgs' PROVE LastAfter(m.room, m.to)
  <2>1. CASE m \in msgs
    <3>1. m.to \in User
      BY <1>0, <2>1 DEF Message
    <3> QED
      BY <1>1, <1>3, <2>1, <3>1 DEF LastIsHeard
  <2>2. CASE ConsumeCreatedRoom(leader) /\ m \notin msgs
    <3>1. c # <<>> /\ m \in Announcements(Head(c)) /\ log' = log
      BY <1>6, <2>2 DEF ConsumeCreatedRoom, raftVars, c
    <3>2. m.room = Head(c) /\ CommittedRoomOf(Head(c), m.to)
      <4>1. m.room = Head(c)
        BY <3>1 DEF Announcements
      <4>2. CommittedRoomOf(m.room, m.to)
        BY <3>1, HeadOfCreated DEF c
      <4> QED
        BY <4>1, <4>2
    <3>3. Head(c) \in RoomsOfU(log, m.to)
      <4>1. Head(c) \in DOMAIN log
        BY <1>0, <3>2, LenProperties DEF CommittedRoomOf
      <4> QED
        BY <1>0, <3>2, <4>1, CreatesWithAt DEF CommittedRoomOf, RoomsOfU
    <3>4. 1 \in DOMAIN c /\ c[1] = Head(c)
      BY <1>0, <3>1, EmptySeq, LenProperties, HeadTailProperties
    <3>5. m.to \in User
      BY <3>1, HeadOfCreated DEF c, Message
    <3> QED
      BY <1>0, <1>1, <1>4, <3>1, <3>2, <3>3, <3>4, <3>5 DEF LastIsHeard, RoomsOfU, c
  <2>3. ~ ConsumeCreatedRoom(leader) => msgs' \subseteq msgs
    BY RoundSteps
    DEF JoinQueue, Enqueue, SendToGlobalQueue, EndGame, ApplyNewJoin, ApplyDuplicateJoin,
        ApplyJoin, ApplyCreateRoom, ProposeRoom, Deliver
  <2> QED
    BY <2>1, <2>2, <2>3
(* What the leader has yet to announce.                                    *)
<1>7. ASSUME NEW k \in DOMAIN createdRooms'[leader], NEW u \in User,
             createdRooms'[leader][k] \in RoomsOfU(log', u)
      PROVE  LastAfter(createdRooms'[leader][k], u)
  <2> DEFINE i == createdRooms'[leader][k]
  <2>1. ASSUME NEW j \in DOMAIN c, i = c[j] PROVE LastAfter(i, u)
    <3>1. i \in 1 .. commit
      BY <1>0, <2>1, LenProperties, ElementOfSeq DEF CreatedAreCommitted, Index, c
    <3>2. log'[i] = log[i] /\ i \in DOMAIN log
      BY <1>0, <3>1, CommittedStays, LenProperties
    <3>3. i \in RoomsOfU(log, u)
      BY <1>7, <3>2 DEF RoomsOfU, At
    <3>4. IsLastRoom(i, u) /\ Told(u)
      BY <1>0, <1>1, <2>1, <3>3 DEF LastIsHeard, RoomsOfU, c
    <3> QED
      BY <1>3, <3>4
  <2>2. ASSUME ~ \E j \in DOMAIN c : i = c[j]
        PROVE  /\ log' = log
               /\ i = applied[leader] + 1
    <3>1. createdRooms'[leader] # c
      BY <2>2
    <3>2. ApplyCreateRoom(leader) \/ ConsumeCreatedRoom(leader)
      BY <1>0, <3>1, RoundSteps
      DEF JoinQueue, Enqueue, SendToGlobalQueue, EndGame, ApplyNewJoin, ApplyDuplicateJoin,
          ApplyJoin, ProposeRoom, Deliver, fsmVars, c
    <3>3. ~ ConsumeCreatedRoom(leader)
      <4>1. ASSUME ConsumeCreatedRoom(leader) PROVE FALSE
        <5>1. createdRooms'[leader] = Tail(c) /\ c # <<>>
          BY <1>0, <4>1 DEF ConsumeCreatedRoom, c
        <5>2. k + 1 \in DOMAIN c /\ i = c[k + 1]
          BY <1>0, <5>1, HeadTailProperties, LenProperties
        <5> QED
          BY <2>2, <5>2
      <4> QED
        BY <4>1
    <3>4. /\ log' = log /\ createdRooms'[leader] = Append(c, applied[leader] + 1)
      BY <1>0, <3>1, <3>2, <3>3 DEF ApplyCreateRoom, Advance, Put, c
    <3>5. applied[leader] + 1 \in Index
      <4>1. ApplyCreateRoom(leader)
        BY <3>2, <3>3
      <4> QED
        BY <1>0, <4>1, AppliedEntry DEF ApplyCreateRoom, Index, TypeOK, RaftTypeOK
    <3>6. k \in DOMAIN c \/ i = applied[leader] + 1
      BY <1>0, <3>4, <3>5, AppendProperties, LenProperties
    <3>7. k \in DOMAIN c => i = c[k]
      BY <1>0, <3>4, <3>5, AppendProperties, LenProperties
    <3> QED
      BY <2>2, <3>4, <3>6, <3>7
  <2>3. ASSUME log' = log, i = applied[leader] + 1 PROVE LastAfter(i, u)
    BY <1>4, <1>7, <2>3, AppliedRoomIsLast DEF RoomsOfU
  <2> QED
    BY <2>1, <2>2, <2>3
<1> QED
  BY <1>5, <1>6, <1>7

(* Before a leader's first entry nothing is announced or played.           *)
LEMMA NothingYet ==
  ASSUME TypeOK, CreatedAreCommitted, PlaysCommitted, WedgeNeedsRejoin, log = <<>>
  PROVE  /\ commit = 0 /\ msgs = {}
         /\ \A u \in User : phase[u] # "playing"
         /\ \A s \in Server :
              applied[s] = 0 /\ createdRooms[s] = <<>> /\ ~ globalQueueMu[s]
<1>1. commit = 0 /\ \A s \in Server : applied[s] = 0
  <2>1. Len(log) = 0
    BY EmptySeq
  <2>2. commit \in 0 .. 0 /\ \A s \in Server : applied[s] \in 0 .. commit
    BY <2>1 DEF TypeOK, RaftTypeOK
  <2> QED
    BY <2>2
<1>2. msgs = {} /\ \A u \in User : phase[u] # "playing"
  BY <1>1 DEF PlaysCommitted, CommittedRoomOf
<1>3. ASSUME NEW s \in Server PROVE createdRooms[s] = <<>>
  <2>1. createdRooms[s] \in Seq(Index)
    BY DEF TypeOK, FSMTypeOK
  <2>2. ASSUME createdRooms[s] # <<>> PROVE FALSE
    <3>1. 1 \in DOMAIN createdRooms[s]
      BY <2>1, <2>2, EmptySeq, LenProperties
    <3>2. createdRooms[s][1] \in Index /\ createdRooms[s][1] <= 0
      BY <1>1, <2>1, <3>1, LenProperties, ElementOfSeq DEF CreatedAreCommitted
    <3> QED
      BY <3>2 DEF Index
  <2> QED
    BY <2>2
<1>4. ASSUME NEW s \in Server, globalQueueMu[s] PROVE FALSE
  <2>1. \E k \in 1 .. applied[s] : TRUE
    BY <1>4 DEF WedgeNeedsRejoin
  <2> QED
    BY <1>1, <2>1
<1> QED
  BY <1>1, <1>2, <1>3, <1>4

(* The invariant as long as there has been no leader.                      *)
LEMMA RoundsUnled ==
  ASSUME TypeOK, CreatedAreCommitted, PlaysCommitted, WedgeNeedsRejoin, OneLeader, RoundsInv,
         [Next]_vars, faults = 0, faults' = faults, ~ Clustered,
         leader = NoServer, leader' = leader
  PROVE  (\A u \in User : OneAtATime(u)') /\ LastIsHeard'
<1>0. /\ log = <<>> /\ msgs = {} /\ \A u \in User : phase[u] # "playing"
      /\ \A s \in Server : createdRooms[s] = <<>>
      /\ \A u \in User : unsent[u] <= Waits(phase[u])
  BY NothingYet DEF OneLeader, RoundsInv, OneAtATime
<1>1. /\ phase \in [User -> {"idle", "waiting", "playing"}]
      /\ unsent \in [User -> Nat]
  BY DEF TypeOK, ClientTypeOK, LocalTypeOK
<1>2. ASSUME Fault PROVE FALSE
  BY <1>2, BoundAssumption DEF Fault, TypeOK, RaftTypeOK
<1> DEFINE Goal == /\ msgs' = {}
                   /\ \A u \in User : phase'[u] # "playing" /\ unsent'[u] <= Waits(phase'[u])
<1>3. ASSUME NEW v \in User, JoinQueue(v) PROVE Goal
  <2>1. /\ msgs' = {}
        /\ unsent' = [unsent EXCEPT ![v] = @ + 1]
        /\ phase' = [phase EXCEPT ![v] = "waiting"] /\ phase[v] = "idle"
    BY <1>0, <1>3 DEF JoinQueue, Enqueue
  <2>2. ASSUME NEW u \in User
        PROVE  phase'[u] # "playing" /\ unsent'[u] <= Waits(phase'[u])
    <3>1. CASE u = v
      BY <1>0, <1>1, <2>1, <3>1 DEF Waits
    <3>2. CASE u # v
      BY <1>0, <1>1, <2>1, <3>2
    <3> QED
      BY <3>1, <3>2
  <2> QED
    BY <2>1, <2>2
<1>4. ASSUME NEW v \in User, SendWithoutLeader(v) \/ SendRefused(v) PROVE Goal
  <2>1. /\ msgs' = {} /\ phase' = phase /\ unsent[v] > 0
        /\ unsent' = [unsent EXCEPT ![v] = @ - 1]
    BY <1>0, <1>4 DEF SendWithoutLeader, SendRefused, clientVars
  <2>2. ASSUME NEW u \in User PROVE unsent'[u] <= unsent[u]
    BY <1>1, <2>1
  <2>3. ASSUME NEW u \in User PROVE unsent'[u] <= Waits(phase'[u])
    <3>1. unsent'[u] \in Int /\ unsent[u] \in Nat /\ Waits(phase[u]) \in Nat
      BY <1>1, <2>1 DEF Waits
    <3> QED
      BY <1>0, <2>1, <2>2, <3>1
  <2> QED
    BY <1>0, <2>1, <2>3
<1>5. ASSUME UNCHANGED msgs, UNCHANGED phase, UNCHANGED unsent PROVE Goal
  <2>1. ASSUME NEW u \in User PROVE phase'[u] = phase[u] /\ unsent'[u] = unsent[u]
    BY <1>5
  <2>2. ASSUME NEW u \in User PROVE phase'[u] # "playing" /\ unsent'[u] <= Waits(phase'[u])
    BY <1>0, <2>1
  <2> QED
    BY <1>0, <1>5, <2>2
<1>6. ASSUME NEW v \in User, UserStep(v) PROVE Goal
  BY <1>0, <1>2, <1>3, <1>4, <1>6
  DEF UserStep, JoinUnanswered, SendToGlobalQueue, EndGame
<1>7. ASSUME NEW s \in Server, ServerStep(s) PROVE UNCHANGED <<msgs, phase, unsent>>
  BY <1>0, <1>2, <1>7
  DEF ServerStep, SendAnswered, ApplyNewJoin, ApplyDuplicateJoin, ApplyJoin, ApplyCreateRoom,
      BlockOnQueueMu, TryMatchPlayers, ProposeRoom, ProposalRefused, ConsumeCreatedRoom,
      ElectLeader, Snapshot, Restart, RestartRaft, localVars, clientVars
<1>8. ASSUME CommitEntry \/ LoseLeadership \/ UNCHANGED vars
      PROVE  UNCHANGED <<msgs, phase, unsent>>
  BY <1>2, <1>8 DEF CommitEntry, LoseLeadership, StepDown, vars, localVars, clientVars
<1>9. Goal
  <2>1. CASE UNCHANGED <<msgs, phase, unsent>>
    BY <1>5, <2>1
  <2>2. CASE \E m \in msgs : Deliver(m) \/ Lose(m)
    BY <1>0, <2>2
  <2> HIDE DEF Goal
  <2> QED
    BY <1>6, <1>7, <1>8, <2>1, <2>2 DEF Next
<1>10. ASSUME NEW u \in User PROVE OneAtATime(u)'
  <2>1. MessagesTo(msgs', u) = {} /\ leader' = NoServer /\ unsent'[u] <= Waits(phase'[u])
    BY <1>9 DEF MessagesTo
  <2>2. IsFiniteSet(MessagesTo(msgs', u))
    BY <2>1, FS_EmptySet
  <2> QED
    BY <2>1, <2>2 DEF OneAtATime, MessagesTo, Waits
<1>11. LastIsHeard'
  BY <1>9 DEF LastIsHeard
<1> QED
  BY <1>10, <1>11

(* The invariant when the first leader is elected.                         *)
LEMMA RoundsElected ==
  ASSUME TypeOK, CreatedAreCommitted, PlaysCommitted, WedgeNeedsRejoin, OneLeader, RoundsInv,
         faults = 0, ~ Clustered, NEW s \in Server, leader = NoServer, ElectLeader(s)
  PROVE  ~ globalQueueMu'[leader'] /\ (\A u \in User : OneAtATime(u)') /\ LastIsHeard'
<1>0. /\ log = <<>> /\ msgs = {} /\ commit = 0 /\ applied[s] = 0
      /\ \A u \in User : phase[u] # "playing"
      /\ createdRooms[s] = <<>> /\ ~ globalQueueMu[s]
      /\ \A u \in User : unsent[u] <= Waits(phase[u])
  BY NothingYet DEF OneLeader, RoundsInv, OneAtATime
<1>1. /\ leader' = s /\ leader' # NoServer
      /\ UNCHANGED <<applied, createdRooms, globalQueueMu, unsent, phase, match, msgs>>
  BY NoServerAssumption DEF ElectLeader, Elect, fsmVars, localVars, clientVars
<1>2. log' = <<>>
  <2>1. Len(log) = 0
    BY <1>0, EmptySeq
  <2>2. log' = SubSeq(log, 1, 0)
    BY <1>0, <2>1 DEF ElectLeader, Elect
  <2> QED
    BY <2>2, SubSeqEmpty
<1>3. ASSUME NEW u \in User PROVE OneAtATime(u)'
  <2>1. MessagesTo({}, u) = {} /\ At(<<>>, {Join(u)}) = {} /\ At(<<>>, CreatesWith(u)) = {}
        /\ ToldOf(<<>>, <<>>, u) = {} /\ Before(<<>>, CreatesWith(u), 0) = {}
    BY DEF MessagesTo, At, ToldOf, Before
  <2>2. unsent[u] \in Nat /\ unsent[u] <= Waits(phase[u]) /\ Waits(phase[u]) \in Nat
    BY <1>0 DEF Waits, TypeOK, LocalTypeOK
  <2>3. RoundOf(unsent[u], <<>>, 0, <<>>, {}, phase[u], u)
    <3>1. /\ Cardinality(At(<<>>, {Join(u)})) = 0
          /\ Cardinality(At(<<>>, CreatesWith(u))) = 0
          /\ Cardinality(ToldOf(<<>>, <<>>, u)) = 0
          /\ Cardinality(MessagesTo({}, u)) = 0
          /\ Cardinality(Before(<<>>, CreatesWith(u), 0)) = 0
      BY <2>1, FS_EmptySet
    <3>2. unsent[u] + 0 + 0 + 0 <= 0 + Waits(phase[u])
      BY <2>2
    <3> QED
      BY <3>1, <3>2 DEF RoundOf
  <2>4. IsFiniteSet(MessagesTo({}, u))
    BY <2>1, FS_EmptySet
  <2>5. OneAtATime(u)' <=>
          /\ IsFiniteSet(MessagesTo(msgs', u))
          /\ leader' = NoServer => unsent'[u] <= Waits(phase'[u])
          /\ leader' # NoServer =>
               RoundOf(unsent'[u], log', applied'[leader'], createdRooms'[leader'], msgs',
                       phase'[u], u)
    BY DEF OneAtATime, RoundOf, ToldOf, MessagesTo, Waits, At, Before, CreatesWith, RoomsWith,
       Create, Players, Join
  <2> QED
    BY <1>0, <1>1, <1>2, <2>3, <2>4, <2>5
<1>4. LastIsHeard'
  <2>1. /\ msgs' = {} /\ \A u \in User : phase'[u] # "playing"
        /\ createdRooms'[leader'] = <<>>
    BY <1>0, <1>1
  <2>2. DOMAIN createdRooms'[leader'] = {}
    BY <2>1
  <2> QED
    BY <2>1, <2>2 DEF LastIsHeard
<1> QED
  BY <1>0, <1>1, <1>3, <1>4

LEMMA RoundsNext ==
  ASSUME IInv, IInv', AppliedInv, ConservedInv, RoundsInv, [Next]_vars
  PROVE  RoundsInv'
<1>0. /\ TypeOK /\ TypeOK' /\ CreatedAreCommitted /\ CreatedAreCommitted' /\ PlaysCommitted
      /\ WedgeNeedsRejoin /\ OneLeader
  BY DEF IInv, AppliedInv, ConservedInv
<1> SUFFICES ASSUME faults' = 0, ~ Clustered
             PROVE  /\ leader' # NoServer => ~ globalQueueMu'[leader']
                    /\ \A u \in User : OneAtATime(u)'
                    /\ LastIsHeard'
  BY DEF RoundsInv
<1>1. faults = 0 /\ faults' = faults
  BY <1>0, NoFaultSoFar
<1>2. CASE leader = NoServer /\ leader' = leader
  BY <1>0, <1>1, <1>2, RoundsUnled
<1>3. CASE \E s \in Server : leader = NoServer /\ ElectLeader(s)
  BY <1>0, <1>1, <1>3, RoundsElected
<1>4. CASE leader \in Server /\ leader' = leader
  <2>1. ~ globalQueueMu'[leader]
    <3>1. ~ globalQueueMu[leader]
      BY <1>1, <1>4, NoServerAssumption DEF RoundsInv
    <3>2. ~ Restart(leader)
      BY <1>0, <1>1, BoundAssumption DEF Restart, RestartRaft, Fault, TypeOK, RaftTypeOK
    <3>3. ~ ApplyDuplicateJoin(leader)
      BY <1>0, <1>1, <1>4, NoDuplicate
    <3> QED
      BY <1>0, <1>4, <3>1, <3>2, <3>3, ApplySteps DEF ApplyNewJoin, ApplyCreateRoom
  <2>2. \A u \in User : OneAtATime(u)'
    BY <1>0, <1>1, <1>4, OneAtATimeNext
  <2>3. LastIsHeard'
    BY <1>0, <1>1, <1>4, LastIsHeardNext
  <2> QED
    BY <1>4, <2>1, <2>2, <2>3
<1>5. leader \in Server \/ leader = NoServer
  BY <1>0 DEF TypeOK, RaftTypeOK
<1> QED
  BY <1>0, <1>1, <1>2, <1>3, <1>4, <1>5, LeaderStays

LEMMA RoundsInit ==
  ASSUME Init
  PROVE  ConservedInv /\ RoundsInv /\ RoomsAreThere
<1>1. ConservedInv /\ RoomsAreThere
  BY NoServerAssumption
  DEF Init, RaftInit, ConservedInv, OneLeader, JoinsAreConserved, RoomsAreThere
<1>2. ASSUME NEW u \in User PROVE OneAtATime(u)
  <2>1. MessagesTo(msgs, u) = {} /\ leader = NoServer /\ unsent[u] = 0 /\ Waits(phase[u]) = 0
    BY DEF Init, RaftInit, MessagesTo, Waits
  <2> QED
    BY <2>1, FS_EmptySet DEF OneAtATime
<1>3. LastIsHeard /\ leader = NoServer
  BY DEF Init, RaftInit, LastIsHeard
<1> QED
  BY <1>1, <1>2, <1>3 DEF RoundsInv

(* Without faults and without a NATS cluster a player has at most one      *)
(* request, join, room or announcement on its way, its leader never loses  *)
(* its lock, and nobody is told of a room after which there is a later one *)
(* (JoinQueue, SendToGlobalQueue, Apply, the consumer of CreatedRooms).    *)
THEOREM RoundsInvariance == Spec => [](ConservedInv /\ RoundsInv /\ RoomsAreThere)
<1> DEFINE Inv == ConservedInv /\ RoundsInv /\ RoomsAreThere
<1>1. Init => Inv
  BY RoundsInit
<1>2. IInv /\ IInv' /\ AppliedInv /\ Inv /\ [Next]_vars => Inv'
  <2> SUFFICES ASSUME IInv, IInv', AppliedInv, Inv, [Next]_vars
               PROVE  Inv'
    OBVIOUS
  <2>1. TypeOK /\ TypeOK' /\ QueueIsOfJoins /\ QueueIsApplied
    BY DEF IInv, AppliedInv
  <2> QED
    BY <2>1, ConservedNext, RoundsNext, RoomsThereNext
<1> QED
  BY <1>1, <1>2, Invariance, AppliedInvariance, PTL DEF Spec

LEMMA RoomIsTheLast ==
  ASSUME IInv, AppliedInv, RoundsInv, RoomsAreThere
  PROVE  RoomOfPlayerIsKept
<1> SUFFICES ASSUME faults = 0, ~ Clustered, NEW u \in User, NEW s \in Server,
                    phase[u] = "playing", applied[s] >= match[u],
                    globalRooms[s][RoomID(log[match[u]].room)] # match[u]
             PROVE  LET i == match[u]
                        j == globalRooms[s][RoomID(log[i].room)]
                    IN /\ j \in i + 1 .. applied[s] /\ IsCreate(log[j])
                       /\ u \notin Players(log[j].room)
                       /\ NameOf[log[j].room.p1] = NameOf[log[i].room.p1]
                       /\ NameOf[log[j].room.p2] = NameOf[log[i].room.p2]
  BY DEF RoomOfPlayerIsKept
<1> DEFINE i == match[u]
           id == RoomID(log[i].room)
           j == globalRooms[s][id]
<1>1. /\ log \in Seq(Command) /\ Len(log) \in Nat /\ commit \in Nat /\ commit <= Len(log)
      /\ applied[s] \in Nat /\ applied[s] <= commit
      /\ globalRooms[s] \in [Name \X Name -> 0 .. MaxLog]
  <2>1. /\ log \in Seq(Command) /\ commit \in 0 .. Len(log) /\ applied[s] \in 0 .. commit
        /\ globalRooms[s] \in [Name \X Name -> 0 .. MaxLog]
    BY DEF IInv, TypeOK, RaftTypeOK, FSMTypeOK
  <2>2. Len(log) \in Nat
    BY <2>1, LenProperties
  <2> QED
    BY <2>1, <2>2
<1>2. i \in 1 .. commit /\ IsCreate(log[i]) /\ u \in Players(log[i].room)
  BY DEF IInv, PlaysCommitted, CommittedRoomOf
<1>3. IsLastRoom(i, u)
  BY DEF RoundsInv, LastIsHeard
<1>4. log[i] \in Command /\ log[i].room \in Room /\ id \in Name \X Name
  <2>1. i \in 1 .. Len(log)
    BY <1>1, <1>2
  <2> QED
    BY <1>1, <1>2, <2>1, ElementOfSeq, CommandKinds, RoomParts
<1>5. j # 0 /\ j \in Nat
  <2>1. j \in 0 .. MaxLog
    BY <1>1, <1>4
  <2>2. i \in 1 .. applied[s]
    BY <1>1, <1>2
  <2> QED
    BY <1>2, <2>1, <2>2, BoundAssumption DEF RoomsAreThere
<1>6. /\ j <= applied[s] /\ IsOfID(log[j], id)
      /\ \A k \in j + 1 .. applied[s] : ~ IsOfID(log[k], id)
  BY <1>4, <1>5 DEF AppliedInv, RoomsAreLatest, IsOfID
<1> HIDE DEF j
<1>7. i <= j
  <2>1. IsOfID(log[i], id)
    BY <1>2 DEF IsOfID
  <2>2. i \in Nat /\ i <= applied[s]
    BY <1>1, <1>2
  <2> QED
    BY <1>5, <1>6, <2>1, <2>2
<1>8. /\ j \in DOMAIN log /\ IsCreate(log[j])
      /\ NameOf[log[j].room.p1] = NameOf[log[i].room.p1]
      /\ NameOf[log[j].room.p2] = NameOf[log[i].room.p2]
  <2>1. j \in 1 .. Len(log)
    BY <1>1, <1>5, <1>6
  <2>2. j \in DOMAIN log
    BY <1>1, <2>1, LenProperties
  <2>3. IsCreate(log[j]) /\ RoomID(log[j].room) = id
    BY <1>6 DEF IsOfID
  <2> QED
    BY <2>2, <2>3 DEF RoomID
<1>9. u \notin Players(log[j].room)
  <2> SUFFICES ASSUME u \in Players(log[j].room)
               PROVE  FALSE
    OBVIOUS
  <2>1. j \in At(log, CreatesWith(u))
    BY <1>1, <1>8, CreatesWithAt
  <2>2. j <= i
    BY <1>3, <2>1 DEF IsLastRoom
  <2>3. j # i
    BY DEF j
  <2> QED
    BY <1>1, <1>2, <1>5, <1>7, <2>2, <2>3
<1>10. j \in i + 1 .. applied[s]
  <2>1. j # i
    BY DEF j
  <2> QED
    BY <1>1, <1>2, <1>5, <1>6, <1>7, <2>1
<1> QED
  BY <1>8, <1>9, <1>10 DEF j

(* Without faults and without a NATS cluster every server that has applied *)
(* the room a player plays in has it under its id, or a later room of two  *)
(* namesakes that is not this player's: only those can cost the host of a  *)
(* game its room (fsm.go, room.ID; names are unique per server only,       *)
(* handlers.go, LOGIN).                                                    *)
THEOREM PlayersKeepTheirRoom == Spec => []RoomOfPlayerIsKept
<1>1. IInv /\ AppliedInv /\ ConservedInv /\ RoundsInv /\ RoomsAreThere => RoomOfPlayerIsKept
  BY RoomIsTheLast
<1> QED
  BY <1>1, Invariance, AppliedInvariance, RoundsInvariance, PTL

=============================================================================
