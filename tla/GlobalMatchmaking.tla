------------------------- MODULE GlobalMatchmaking -------------------------
(***************************************************************************)
(* Pairing players of different servers (server/fsm/fsm.go, server/start.go*)
(* and the global half of server/handlers/matchmaking.go).                 *)
(*                                                                         *)
(* A server whose local queue could not pair a player within 10s posts the *)
(* entry to the leader, which proposes QUEUE_JOIN_GLOBAL.  Every FSM keeps *)
(* a copy of the queue; only the leader pops it, outside the log, and      *)
(* proposes a CREATE_ROOM for each pair.  The leader announces an applied  *)
(* CREATE_ROOM through every server to both players.                       *)
(*                                                                         *)
(* A room is named by the index of its CREATE_ROOM entry, and 0 is none.   *)
(* QUEUE_LEAVE, which nothing proposes, is left out; the card commands of  *)
(* the same FSM are no part of this module.                                *)
(***************************************************************************)
EXTENDS RaftLog, SequencesExt

CONSTANTS
  User,       \* the players' ids
  Home,       \* Home[u]: the server u is logged in at
  Name,       \* the players' names
  NameOf,     \* NameOf[u]: unique among the players of a server only
  MaxJoins,   \* bound: JOIN_QUEUE requests of one player
  ChanCap,    \* capacity of the channel CreatedRooms (10)
  Clustered   \* are the servers' NATS clustered (docker-compose) or not (Makefile)

ASSUME HomeAssumption == Home \in [User -> Server]
ASSUME NameAssumption == NameOf \in [User -> Name]
ASSUME JoinsAssumption == MaxJoins \in Nat
ASSUME ChanCapAssumption == ChanCap \in Nat \ {0}
ASSUME ClusteredAssumption == Clustered \in BOOLEAN

VARIABLES
  globalQueue,    \* globalQueue[s]: FSM.GlobalQueue of s
  globalQueueMu,  \* globalQueueMu[s]: was GlobalQueueMu returned with locked
  fsmMu,          \* fsmMu[s]: is FSM.mu held by a goroutine that waits for ever
  globalRooms,    \* globalRooms[s][id]: FSM.GlobalRooms of s, 0 if absent
  createdRooms,   \* createdRooms[s]: the channel FSM.CreatedRooms
  creating,       \* creating[s]: rooms whose goroutine has yet to call Raft.Apply
  unsent,         \* unsent[u]: entries of u in the local queue of its server
  sending,        \* sending[s]: the entry the queue monitor of s waits for
  phase,          \* phase[u]: what the client of u does
  match,          \* match[u]: the room u plays in, 0 if none
  joins,          \* joins[u]: JOIN_QUEUE requests of u so far
  msgs            \* GLOBAL_MATCH_CREATED messages on their way

fsmVars == <<globalQueue, globalQueueMu, fsmMu, globalRooms, createdRooms, creating>>
localVars == <<unsent, sending>>
clientVars == <<phase, match, joins>>
vars == <<raftVars, fsmVars, localVars, clientVars, msgs>>

(***************************************************************************)
(* Data.                                                                   *)
(***************************************************************************)
Room == [p1 : User, p2 : User, host : Server]
(* Mutant: the id leaves out the second player. *)
RoomIDOfFirst(room) == <<NameOf[room.p1], NameOf[room.p1]>>
RoomID(room) == <<NameOf[room.p1], NameOf[room.p2]>>
Players(room) == {room.p1, room.p2}

Join(u) == [type |-> "QUEUE_JOIN_GLOBAL", user |-> u]
Create(room) == [type |-> "CREATE_ROOM", room |-> room]
Command == {Join(u) : u \in User} \union {Create(room) : room \in Room}

IsJoin(cmd) == cmd.type = "QUEUE_JOIN_GLOBAL"
IsCreate(cmd) == cmd.type = "CREATE_ROOM"

Index == 1 .. MaxLog
Message == [via : Server, to : User, room : Index]
NotSending == [to |-> NoServer, index |-> 0]

Init ==
  /\ RaftInit
  /\ globalQueue = [s \in Server |-> <<>>]
  /\ globalQueueMu = [s \in Server |-> FALSE]
  /\ fsmMu = [s \in Server |-> FALSE]
  /\ globalRooms = [s \in Server |-> [id \in Name \X Name |-> 0]]
  /\ createdRooms = [s \in Server |-> <<>>]
  /\ creating = [s \in Server |-> <<>>]
  /\ unsent = [u \in User |-> 0]
  /\ sending = [s \in Server |-> NotSending]
  /\ phase = [u \in User |-> "idle"]
  /\ match = [u \in User |-> 0]
  /\ joins = [u \in User |-> 0]
  /\ msgs = {}

(***************************************************************************)
(* The clients and the local queue.  The monitor keeps Matchmaking.Mutex   *)
(* while it waits for the leader, and JOIN_QUEUE needs that mutex.         *)
(***************************************************************************)
Enqueue(u) ==
  /\ joins[u] < MaxJoins
  /\ sending[Home[u]] = NotSending
  /\ unsent' = [unsent EXCEPT ![u] = @ + 1]
  /\ joins' = [joins EXCEPT ![u] = @ + 1]
  /\ UNCHANGED <<sending, fsmVars, match, msgs>>

JoinQueue(u) ==
  /\ phase[u] = "idle"
  /\ Enqueue(u)
  /\ phase' = [phase EXCEPT ![u] = "waiting"]
  /\ UNCHANGED raftVars

(* The answer comes after the client's 5s: the player is back at the menu, *)
(* and its entry is in the queue.                                          *)
JoinUnanswered(u) ==
  /\ phase[u] = "idle"
  /\ Enqueue(u)
  /\ Fault
  /\ UNCHANGED <<phase, log, commit, leader, applied, snapshot>>

(* SendToGlobalQueue of a server that knows of no leader: the entry is     *)
(* dropped all the same.                                                   *)
SendWithoutLeader(u) ==
  /\ unsent[u] > 0
  /\ sending[Home[u]] = NotSending
  /\ leader = NoServer
  /\ unsent' = [unsent EXCEPT ![u] = @ - 1]
  /\ UNCHANGED <<raftVars, fsmVars, sending, clientVars, msgs>>

(* The leader is known, but the POST does not get through to it, or comes  *)
(* back with an error before anything is proposed: dropped as well.        *)
SendRefused(u) ==
  /\ unsent[u] > 0
  /\ sending[Home[u]] = NotSending
  /\ leader # NoServer
  /\ Fault
  /\ unsent' = [unsent EXCEPT ![u] = @ - 1]
  /\ UNCHANGED <<log, commit, leader, applied, snapshot, fsmVars, sending, clientVars, msgs>>

(* Mutant: the leader queues the player before its join is committed. *)
SendAndQueue(u) ==
  /\ unsent[u] > 0
  /\ sending[Home[u]] = NotSending
  /\ leader # NoServer
  /\ Replicate(leader, Join(u))
  /\ unsent' = [unsent EXCEPT ![u] = @ - 1]
  /\ globalQueue' = [globalQueue EXCEPT ![leader] = Append(@, u)]
  /\ UNCHANGED <<globalQueueMu, fsmMu, globalRooms, createdRooms, creating, sending,
                 clientVars, msgs>>

SendToGlobalQueue(u) ==
  /\ unsent[u] > 0
  /\ sending[Home[u]] = NotSending
  /\ leader # NoServer
  /\ Replicate(leader, Join(u))
  /\ unsent' = [unsent EXCEPT ![u] = @ - 1]
  /\ sending' = [sending EXCEPT ![Home[u]] = [to |-> leader, index |-> Len(log) + 1]]
  /\ UNCHANGED <<fsmVars, clientVars, msgs>>

(* Mutant: an answer waits for an entry after the one that was sent. *)
SendAnsweredLate(s) ==
  /\ sending[s] # NotSending
  /\ applied[sending[s].to] > sending[s].index
  /\ sending' = [sending EXCEPT ![s] = NotSending]
  /\ UNCHANGED <<raftVars, fsmVars, unsent, clientVars, msgs>>

(* The leader has applied the entry and answers the monitor of s.          *)
SendAnswered(s) ==
  /\ sending[s] # NotSending
  /\ applied[sending[s].to] >= sending[s].index
  /\ sending' = [sending EXCEPT ![s] = NotSending]
  /\ UNCHANGED <<raftVars, fsmVars, unsent, clientVars, msgs>>

(***************************************************************************)
(* FSM.Apply.                                                              *)
(***************************************************************************)
Queued(s, u) == \E i \in DOMAIN globalQueue[s] : globalQueue[s][i] = u

ApplyJoin(s) ==
  /\ Advance(s)
  /\ ~ fsmMu[s]
  /\ ~ globalQueueMu[s]
  /\ IsJoin(NextEntry(s))
  /\ UNCHANGED <<fsmMu, globalRooms, createdRooms, creating, localVars, clientVars, msgs>>

(* Mutant: the check for a queued player is dropped. *)
ApplyUnchecked(s) ==
  /\ ApplyJoin(s)
  /\ globalQueue' = [globalQueue EXCEPT ![s] = Append(@, NextEntry(s).user)]
  /\ UNCHANGED globalQueueMu

(* Mutant: the lock is not released. *)
ApplyKeepingLock(s) ==
  /\ ApplyJoin(s)
  /\ ~ Queued(s, NextEntry(s).user)
  /\ globalQueue' = [globalQueue EXCEPT ![s] = Append(@, NextEntry(s).user)]
  /\ globalQueueMu' = [globalQueueMu EXCEPT ![s] = TRUE]

ApplyNewJoin(s) ==
  /\ ApplyJoin(s)
  /\ ~ Queued(s, NextEntry(s).user)
  /\ globalQueue' = [globalQueue EXCEPT ![s] = Append(@, NextEntry(s).user)]
  /\ UNCHANGED globalQueueMu

(* The early return for a player that is queued already keeps the lock.    *)
ApplyDuplicateJoin(s) ==
  /\ ApplyJoin(s)
  /\ Queued(s, NextEntry(s).user)
  /\ globalQueueMu' = [globalQueueMu EXCEPT ![s] = TRUE]
  /\ UNCHANGED globalQueue

(* Mutant: the send does not look at the capacity. *)
PutUnchecked(chan, i) == Append(chan, i)
Put(chan, i) == IF Len(chan) < ChanCap THEN Append(chan, i) ELSE chan

ApplyCreateRoom(s) ==
  /\ Advance(s)
  /\ ~ fsmMu[s]
  /\ IsCreate(NextEntry(s))
  /\ globalRooms' = [globalRooms EXCEPT ![s][RoomID(NextEntry(s).room)] = applied[s] + 1]
  /\ createdRooms' = [createdRooms EXCEPT ![s] = Put(@, applied[s] + 1)]
  /\ UNCHANGED <<globalQueue, globalQueueMu, fsmMu, creating, localVars, clientVars, msgs>>

(* Apply of a QUEUE_JOIN_GLOBAL, or TryMatchPlayers on the leader, waits   *)
(* for the lost GlobalQueueMu and holds FSM.mu while it waits.             *)
BlockOnQueueMu(s) ==
  /\ globalQueueMu[s]
  /\ ~ fsmMu[s]
  /\ \/ leader = s
     \/ applied[s] < commit /\ IsJoin(NextEntry(s))
  /\ fsmMu' = [fsmMu EXCEPT ![s] = TRUE]
  /\ UNCHANGED <<raftVars, globalQueue, globalQueueMu, globalRooms, createdRooms,
                 creating, localVars, clientVars, msgs>>

(***************************************************************************)
(* TryMatchPlayers, which the leader's ticker and every applied            *)
(* QUEUE_JOIN_GLOBAL call: all pairs leave the queue in one critical       *)
(* section, and one goroutine per pair proposes its room.                  *)
(***************************************************************************)
(* Mutant: a pair needs a third player behind it. *)
PairCountShort(queue) == IF queue = <<>> THEN 0 ELSE (Len(queue) - 1) \div 2
PairCount(queue) == Len(queue) \div 2

Pairings(queue) ==
  LET P == 1 .. PairCount(queue)
      PlayerOf(i, k) == queue[2 * i - 2 + k]
  IN {[i \in P |-> [p1 |-> PlayerOf(i, 1), p2 |-> PlayerOf(i, 2),
                    host |-> Home[PlayerOf(i, pick[i])]]] : pick \in [P -> {1, 2}]}

(* Mutant: the player that has no opponent leaves the queue too. *)
UnpairedNone(queue) == SubSeq(queue, 2 * PairCount(queue) + 2, Len(queue))
Unpaired(queue) == SubSeq(queue, 2 * PairCount(queue) + 1, Len(queue))

TryMatchPlayers(s) ==
  /\ leader = s
  /\ ~ fsmMu[s]
  /\ ~ globalQueueMu[s]
  /\ Len(globalQueue[s]) >= 2
  /\ \E rooms \in Pairings(globalQueue[s]) :
       creating' = [creating EXCEPT ![s] = @ \o rooms]
  /\ globalQueue' = [globalQueue EXCEPT ![s] = Unpaired(@)]
  /\ UNCHANGED <<raftVars, globalQueueMu, fsmMu, globalRooms, createdRooms,
                 localVars, clientVars, msgs>>

(* Mutant: the room is announced when it is proposed. *)
ProposeAndAnnounce(s) ==
  \E i \in DOMAIN creating[s] :
    /\ Replicate(s, Create(creating[s][i]))
    /\ creating' = [creating EXCEPT ![s] = RemoveAt(@, i)]
    /\ createdRooms' = [createdRooms EXCEPT ![s] = Put(@, Len(log) + 1)]
    /\ UNCHANGED <<globalQueue, globalQueueMu, fsmMu, globalRooms, localVars, clientVars, msgs>>

ProposeRoom(s) ==
  \E i \in DOMAIN creating[s] :
    /\ Replicate(s, Create(creating[s][i]))
    /\ creating' = [creating EXCEPT ![s] = RemoveAt(@, i)]
    /\ UNCHANGED <<globalQueue, globalQueueMu, fsmMu, globalRooms, createdRooms,
                   localVars, clientVars, msgs>>

(* Raft.Apply on a server that no longer leads: the error is logged, and   *)
(* the pair that left the queue is forgotten.                              *)
ProposalRefused(s) ==
  /\ leader # s
  /\ \E i \in DOMAIN creating[s] : creating' = [creating EXCEPT ![s] = RemoveAt(@, i)]
  /\ UNCHANGED <<raftVars, globalQueue, globalQueueMu, fsmMu, globalRooms, createdRooms,
                 localVars, clientVars, msgs>>

(***************************************************************************)
(* Announcing a room.  Every server publishes to both players; without a   *)
(* NATS cluster only the players of that server hear it.                   *)
(***************************************************************************)
Reaches(s, u) == Clustered \/ Home[u] = s

Announcements(i) ==
  {m \in [via : Server, to : Players(log[i].room), room : {i}] : Reaches(m.via, m.to)}

ConsumeCreatedRoom(s) ==
  /\ createdRooms[s] # <<>>
  /\ createdRooms' = [createdRooms EXCEPT ![s] = Tail(@)]
  /\ msgs' = IF leader = s THEN msgs \union Announcements(Head(createdRooms[s])) ELSE msgs
  /\ UNCHANGED <<raftVars, globalQueue, globalQueueMu, fsmMu, globalRooms, creating,
                 localVars, clientVars>>

(* The client listens to one channel per JoinQueue: a message that finds   *)
(* its player not waiting is lost, one that finds it waiting is believed.  *)
Deliver(m) ==
  /\ msgs' = msgs \ {m}
  /\ IF phase[m.to] = "waiting"
       THEN /\ phase' = [phase EXCEPT ![m.to] = "playing"]
            /\ match' = [match EXCEPT ![m.to] = m.room]
       ELSE UNCHANGED <<phase, match>>
  /\ UNCHANGED <<raftVars, fsmVars, localVars, joins>>

Lose(m) ==
  /\ Fault
  /\ msgs' = msgs \ {m}
  /\ UNCHANGED <<log, commit, leader, applied, snapshot, fsmVars, localVars, clientVars>>

EndGame(u) ==
  /\ phase[u] = "playing"
  /\ phase' = [phase EXCEPT ![u] = "idle"]
  /\ match' = [match EXCEPT ![u] = 0]
  /\ UNCHANGED <<raftVars, fsmVars, localVars, joins, msgs>>

(***************************************************************************)
(* Changes of leader, snapshots, restarts.                                 *)
(***************************************************************************)
ElectLeader(s) ==
  /\ Elect(s)
  /\ UNCHANGED <<fsmVars, localVars, clientVars, msgs>>

CommitEntry ==
  /\ Commit
  /\ UNCHANGED <<fsmVars, localVars, clientVars, msgs>>

(* Mutant: the proposals that were not committed are never answered. *)
LoseLeadershipUnnoticed ==
  /\ StepDown
  /\ UNCHANGED <<fsmVars, localVars, clientVars, msgs>>

(* The proposals that were not committed fail, and their monitors go on.   *)
LoseLeadership ==
  /\ StepDown
  /\ sending' = [s \in Server |-> IF sending[s].index > commit THEN NotSending ELSE sending[s]]
  /\ UNCHANGED <<fsmVars, unsent, clientVars, msgs>>

(* FSM.Snapshot takes FSM.mu; the state it saves is the cards alone.       *)
Snapshot(s) ==
  /\ ~ fsmMu[s]
  /\ TakeSnapshot(s)
  /\ UNCHANGED <<fsmVars, localVars, clientVars, msgs>>

NewQueue(s) ==
  /\ globalQueue' = [globalQueue EXCEPT ![s] = <<>>]
  /\ globalQueueMu' = [globalQueueMu EXCEPT ![s] = FALSE]
  /\ fsmMu' = [fsmMu EXCEPT ![s] = FALSE]
  /\ creating' = [creating EXCEPT ![s] = <<>>]

(* Mutant: the rooms survive a restart, and the log is replayed over them. *)
NewFSMWithRooms(s) ==
  /\ NewQueue(s)
  /\ createdRooms' = [createdRooms EXCEPT ![s] = <<>>]
  /\ UNCHANGED globalRooms

NewFSM(s) ==
  /\ NewQueue(s)
  /\ createdRooms' = [createdRooms EXCEPT ![s] = <<>>]
  /\ globalRooms' = [globalRooms EXCEPT ![s] = [id \in Name \X Name |-> 0]]

(* A new process: NewFSM, Restore (the cards alone), an empty local queue. *)
(* The monitors that waited for s get a connection error.                  *)
Restart(s) ==
  /\ RestartRaft(s)
  /\ NewFSM(s)
  /\ unsent' = [u \in User |-> IF Home[u] = s THEN 0 ELSE unsent[u]]
  /\ sending' = [t \in Server |-> IF t = s \/ sending[t].to = s THEN NotSending ELSE sending[t]]
  /\ UNCHANGED <<clientVars, msgs>>

ServerStep(s) ==
  \/ SendAnswered(s)
  \/ ApplyNewJoin(s)
  \/ ApplyDuplicateJoin(s)
  \/ ApplyCreateRoom(s)
  \/ BlockOnQueueMu(s)
  \/ TryMatchPlayers(s)
  \/ ProposeRoom(s)
  \/ ProposalRefused(s)
  \/ ConsumeCreatedRoom(s)
  \/ ElectLeader(s)
  \/ Snapshot(s)
  \/ Restart(s)

UserStep(u) ==
  \/ JoinQueue(u)
  \/ JoinUnanswered(u)
  \/ SendWithoutLeader(u)
  \/ SendRefused(u)
  \/ SendToGlobalQueue(u)
  \/ EndGame(u)

Next ==
  \/ \E s \in Server : ServerStep(s)
  \/ \E u \in User : UserStep(u)
  \/ \E m \in msgs : Deliver(m) \/ Lose(m)
  \/ CommitEntry
  \/ LoseLeadership

Spec == Init /\ [][Next]_vars

(***************************************************************************)
(* Fairness: the goroutines of a server run (apply loop, 500ms ticker,     *)
(* proposals, consumer of CreatedRooms), a quorum is alive and elects and  *)
(* commits, messages that are not lost arrive, and each sweep of a local   *)
(* queue sends every entry that is 10s old, whence SF.  Nobody has to join *)
(* and nothing has to fail.                                                *)
(***************************************************************************)
ApplyEntry(s) == ApplyNewJoin(s) \/ ApplyDuplicateJoin(s) \/ ApplyCreateRoom(s)

Fairness ==
  /\ \A s \in Server :
       /\ WF_vars(ApplyEntry(s))
       /\ WF_vars(BlockOnQueueMu(s))
       /\ WF_vars(TryMatchPlayers(s))
       /\ WF_vars(ProposeRoom(s))
       /\ WF_vars(ProposalRefused(s))
       /\ WF_vars(ConsumeCreatedRoom(s))
       /\ WF_vars(SendAnswered(s))
  /\ \A u \in User : SF_vars(SendToGlobalQueue(u))
  /\ \A m \in Message : WF_vars(m \in msgs /\ Deliver(m))
  /\ WF_vars(\E s \in Server : ElectLeader(s))
  /\ WF_vars(CommitEntry)

FairSpec == Spec /\ Fairness

(***************************************************************************)
(* What holds in every behaviour, faults included.                         *)
(***************************************************************************)
RaftTypeOK ==
  /\ log \in Seq(Command) /\ Len(log) <= MaxLog
  /\ commit \in 0 .. Len(log)
  /\ leader \in Server \union {NoServer}
  /\ applied \in [Server -> 0 .. commit]
  /\ snapshot \in [Server -> 0 .. commit]
  /\ faults \in 0 .. MaxFaults

FSMTypeOK ==
  /\ globalQueue \in [Server -> Seq(User)]
  /\ globalQueueMu \in [Server -> BOOLEAN]
  /\ fsmMu \in [Server -> BOOLEAN]
  /\ globalRooms \in [Server -> [Name \X Name -> 0 .. MaxLog]]
  /\ createdRooms \in [Server -> Seq(Index)]
  /\ \A s \in Server : Len(createdRooms[s]) <= ChanCap
  /\ creating \in [Server -> Seq(Room)]

ClientTypeOK ==
  /\ phase \in [User -> {"idle", "waiting", "playing"}]
  /\ match \in [User -> 0 .. MaxLog]
  /\ joins \in [User -> 0 .. MaxJoins]
  /\ msgs \subseteq Message

LocalTypeOK ==
  /\ unsent \in [User -> Nat]
  /\ \A u \in User : unsent[u] <= joins[u]
  /\ sending \in [Server -> [to : Server \union {NoServer}, index : 0 .. MaxLog]]

TypeOK == RaftTypeOK /\ FSMTypeOK /\ ClientTypeOK /\ LocalTypeOK

JoinedBy(u, bound) == \E i \in 1 .. bound : log[i] = Join(u)

(* No player is ever paired with itself, whatever it sends twice and       *)
(* whichever copy of the queue a new leader pops (fsm.go, the duplicate    *)
(* check of QUEUE_JOIN_GLOBAL and TryMatchPlayers).                        *)
NoSelfMatch ==
  /\ \A i \in DOMAIN log : IsCreate(log[i]) => log[i].room.p1 # log[i].room.p2
  /\ \A s \in Server : \A i \in DOMAIN creating[s] : creating[s][i].p1 # creating[s][i].p2

(* Every room in the log, also one that will yet be lost, is of two players *)
(* whose joins were committed before it (TryMatchPlayers reads a queue that *)
(* only committed entries fill).                                            *)
RoomFromJoins ==
  \A i \in DOMAIN log :
    IsCreate(log[i]) => \A u \in Players(log[i].room) : JoinedBy(u, i - 1)

CommittedRoomOf(i, u) ==
  i \in 1 .. commit /\ IsCreate(log[i]) /\ u \in Players(log[i].room)

(* A player only ever plays in, or is told of, a room of its own that the  *)
(* cluster committed, though entries are truncated and servers restart.    *)
PlaysCommitted ==
  /\ \A u \in User : phase[u] = "playing" => CommittedRoomOf(match[u], u)
  /\ \A m \in msgs : CommittedRoomOf(m.room, m.to)

(* A lock is lost, and a server waits for ever, only after the same player *)
(* was queued twice: two joins of it are in the part of the log the server *)
(* has applied (the early return of QUEUE_JOIN_GLOBAL).                    *)
WedgeNeedsRejoin ==
  \A s \in Server : globalQueueMu[s] \/ fsmMu[s] =>
    \E i, j \in 1 .. applied[s] : i # j /\ IsJoin(log[i]) /\ log[i] = log[j]

(* GlobalRooms maps a room id to the last room of that id the server has   *)
(* applied, over restarts as well (the map is filled by CREATE_ROOM alone).*)
RoomsAreLatest ==
  \A s \in Server : \A id \in Name \X Name :
    LET i == globalRooms[s][id]
        IsOfID(k) == IsCreate(log[k]) /\ RoomID(log[k].room) = id
    IN i # 0 => /\ i <= applied[s]
                /\ IsOfID(i)
                /\ \A k \in i + 1 .. applied[s] : ~ IsOfID(k)

(* The monitor of a server waits for at most one entry, which is in the    *)
(* log of the leader it was sent to: an answer that can still come.        *)
AwaitedJoinIsLogged ==
  \A s \in Server : sending[s] # NotSending =>
    LET i == sending[s].index
    IN /\ i \in DOMAIN log
       /\ IsJoin(log[i]) /\ Home[log[i].user] = s
       /\ leader = sending[s].to \/ i <= commit

(***************************************************************************)
(* What holds as long as nothing fails.                                    *)
(***************************************************************************)
JoinsOf(u, bound) == Cardinality({i \in 1 .. bound : log[i] = Join(u)})
RoomsOf(u) == Cardinality({i \in DOMAIN log : IsCreate(log[i]) /\ u \in Players(log[i].room)})
PendingRoomsOf(s, u) == Cardinality({i \in DOMAIN creating[s] : u \in Players(creating[s][i])})
QueuedTimes(s, u) == IF Queued(s, u) THEN 1 ELSE 0

(* Under one leader each join that the leader has applied is in its queue, *)
(* or in exactly one room, proposed or about to be: the pops outside the   *)
(* log neither lose a player nor use a join twice (TryMatchPlayers), unless*)
(* the leader has lost its lock.                                           *)
JoinsAreConserved ==
  faults = 0 /\ leader # NoServer /\ ~ globalQueueMu[leader] =>
    \A u \in User :
      JoinsOf(u, applied[leader]) =
        QueuedTimes(leader, u) + PendingRoomsOf(leader, u) + RoomsOf(u)

(* While a player plays, a server that knows of its room finds it under    *)
(* its id, unless a later room has taken its place that is of namesakes of *)
(* both players and not of that player: no further room of its own does,   *)
(* though a room's id is made of the two players' names only (fsm.go,      *)
(* room.ID) and names are unique among the players of one server only.  It *)
(* takes unclustered NATS, where each player hears of a room once.         *)
RoomOfPlayerIsKept ==
  faults = 0 /\ ~ Clustered =>
    \A u \in User, s \in Server :
      phase[u] = "playing" /\ applied[s] >= match[u] =>
        LET i == match[u]
            j == globalRooms[s][RoomID(log[i].room)]
        IN j # i =>
             /\ j \in i + 1 .. applied[s] /\ IsCreate(log[j])
             /\ u \notin Players(log[j].room)
             /\ NameOf[log[j].room.p1] = NameOf[log[i].room.p1]
             /\ NameOf[log[j].room.p2] = NameOf[log[i].room.p2]

(* Two opponents that both play are in the same room.                      *)
OpponentsAgree ==
  faults = 0 =>
    \A u, v \in User :
      /\ phase[u] = "playing" /\ phase[v] = "playing"
      /\ v \in Players(log[match[u]].room)
      => match[u] = match[v]

(***************************************************************************)
(* Liveness.                                                               *)
(***************************************************************************)

(* Two waiting players in the leader's queue are eventually paired.        *)
QueuedArePaired ==
  \A u, v \in User : u # v =>
    (/\ leader # NoServer
     /\ Queued(leader, u) /\ phase[u] = "waiting"
     /\ Queued(leader, v) /\ phase[v] = "waiting") ~>
      (phase[u] # "waiting" \/ phase[v] # "waiting")

(* The monitor of a local queue gets back from each entry it sends, and    *)
(* with it the mutex that JOIN_QUEUE needs.                                *)
MonitorReturns ==
  \A s \in Server : sending[s] # NotSending ~> sending[s] = NotSending

(* Every server applies what is committed.                                 *)
CommittedIsApplied ==
  \A s \in Server : \A i \in Index : commit >= i ~> applied[s] >= i

=============================================================================
