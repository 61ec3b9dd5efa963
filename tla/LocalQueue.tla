----------------------------- MODULE LocalQueue -----------------------------
(***************************************************************************)
(* The local queue of one server (server/handlers/matchmaking.go) and the  *)
(* client's side of JOIN_QUEUE (client/game/queue.go, client/main.go).     *)
(*                                                                         *)
(* One goroutine, the callback of the server's NATS subscription, handles  *)
(* the requests one after the other; another, MonitorLocalQueue, moves old *)
(* entries to the leader and pairs the others.  They share LocalQueue under*)
(* Matchmaking.Mutex, which the monitor keeps while it waits for the       *)
(* leader's HTTP answer.                                                   *)
(*                                                                         *)
(* What the cluster makes of an entry that the leader got is in            *)
(* GlobalMatchmaking; here it may be announced at any time and any number  *)
(* of times, for the leader and every peer publish each global room, and a *)
(* new or restarted leader pairs and announces again from its own copy.    *)
(*                                                                         *)
(* An entry is named by the position at which it entered the queue.        *)
(***************************************************************************)
EXTENDS Naturals, Sequences

CONSTANTS
  User,         \* the ids of the players logged in at this server
  MaxRequests   \* bound: MaxRequests[u], JOIN_QUEUE requests of the client of u

ASSUME MaxRequestsAssumption == MaxRequests \in [User -> Nat]

VARIABLES
  requests,     \* JOIN_QUEUE messages the subscription has yet to handle
  handler,      \* what the request in hand has yet to do, see HandlerStep
  entered,      \* entered[e]: the request that made entry e
  localQueue,   \* Matchmaking.LocalQueue
  mutexHeld,    \* does the monitor hold Matchmaking.Mutex across its steps
  monitor,      \* where the monitor is in its round
  due,          \* entries at the head that this sweep found older than 10s
  handedOver,   \* entries the leader got, whether or not its answer says so
  dropped,      \* entries whose SendToGlobalQueue failed before that
  rooms,        \* the rooms made here: two entries each
  announced,    \* MATCH and GLOBAL_MATCH messages on their way
  replies,      \* answers to JOIN_QUEUE on their way
  client,       \* client[u]: where startGameLoop is
  asked,        \* asked[u]: JOIN_QUEUE requests so far
  timeouts,     \* timeouts[u]: how many of them got no answer in 5s
  heard,        \* heard[u]: the room in matchChan, {} if none
  fooled        \* players whose matchChan has taken a room of an earlier entry

serverVars == <<handler, entered, localQueue, mutexHeld, monitor, due,
                handedOver, dropped, rooms>>
clientVars == <<client, asked, timeouts, heard, fooled>>
vars == <<requests, serverVars, announced, replies, clientVars>>

Request == UNION {[user : {u}, n : 1 .. MaxRequests[u]] : u \in User}
Idle == [step |-> "idle"]
Entry == DOMAIN entered
GlobalRoom == {{e} : e \in handedOver}

Init ==
  /\ requests = <<>>
  /\ handler = Idle
  /\ entered = <<>>
  /\ localQueue = <<>>
  /\ mutexHeld = FALSE
  /\ monitor = "idle"
  /\ due = 0
  /\ handedOver = {}
  /\ dropped = {}
  /\ rooms = {}
  /\ announced = {}
  /\ replies = {}
  /\ client = [u \in User |-> "menu"]
  /\ asked = [u \in User |-> 0]
  /\ timeouts = [u \in User |-> 0]
  /\ heard = [u \in User |-> {}]
  /\ fooled = {}

(***************************************************************************)
(* The client.  It listens for MATCH from before its request until the     *)
(* request fails or the match is taken up.                                 *)
(***************************************************************************)
(* Mutant: the player asks again while it waits. *)
AskToJoinAgain(u) ==
  /\ client[u] \in {"menu", "waiting"}
  /\ asked[u] < MaxRequests[u]
  /\ client' = [client EXCEPT ![u] = "asking"]
  /\ asked' = [asked EXCEPT ![u] = @ + 1]
  /\ requests' = Append(requests, [user |-> u, n |-> asked[u] + 1])
  /\ UNCHANGED <<serverVars, announced, replies, timeouts, heard, fooled>>

AskToJoin(u) ==
  /\ client[u] = "menu"
  /\ asked[u] < MaxRequests[u]
  /\ client' = [client EXCEPT ![u] = "asking"]
  /\ asked' = [asked EXCEPT ![u] = @ + 1]
  /\ requests' = Append(requests, [user |-> u, n |-> asked[u] + 1])
  /\ UNCHANGED <<serverVars, announced, replies, timeouts, heard, fooled>>

(* nc.Request gives up after 5s: "Não foi possível entrar na fila."        *)
GiveUpAsking(u) ==
  /\ client[u] = "asking"
  /\ client' = [client EXCEPT ![u] = "menu"]
  /\ timeouts' = [timeouts EXCEPT ![u] = @ + 1]
  /\ heard' = [heard EXCEPT ![u] = {}]
  /\ UNCHANGED <<requests, serverVars, announced, replies, asked, fooled>>

(* An answer to a request that was given up finds nobody.                  *)
ReceiveReply(r) ==
  /\ replies' = replies \ {r}
  /\ client' = IF client[r.user] = "asking" /\ asked[r.user] = r.n
                 THEN [client EXCEPT ![r.user] = "waiting"]
                 ELSE client
  /\ UNCHANGED <<requests, serverVars, announced, asked, timeouts, heard, fooled>>

(* Mutant: the client listens only once its request is answered. *)
ListeningLate(u) == client[u] = "waiting" /\ heard[u] = {}
Listening(u) == client[u] \in {"asking", "waiting"} /\ heard[u] = {}

(* Is the room m announces that of the entry which m.to waits for.         *)
OfLatest(m) == \E e \in m.room : entered[e] = [user |-> m.to, n |-> asked[m.to]]

(* Neither listener compares a MATCH with the request it is to answer.     *)
HearMatch(m) ==
  /\ announced' = announced \ {m}
  /\ heard' = IF Listening(m.to) THEN [heard EXCEPT ![m.to] = m.room] ELSE heard
  /\ fooled' = IF Listening(m.to) /\ ~ OfLatest(m) THEN fooled \union {m.to} ELSE fooled
  /\ UNCHANGED <<requests, serverVars, replies, client, asked, timeouts>>

(* Mutant: the game starts before JOIN_QUEUE is answered. *)
TakeUpUnanswered(u) ==
  /\ client[u] \in {"asking", "waiting"}
  /\ heard[u] # {}
  /\ client' = [client EXCEPT ![u] = "playing"]
  /\ UNCHANGED <<requests, serverVars, announced, replies, asked, timeouts, heard, fooled>>

TakeUpMatch(u) ==
  /\ client[u] = "waiting"
  /\ heard[u] # {}
  /\ client' = [client EXCEPT ![u] = "playing"]
  /\ UNCHANGED <<requests, serverVars, announced, replies, asked, timeouts, heard, fooled>>

EndGame(u) ==
  /\ client[u] = "playing"
  /\ client' = [client EXCEPT ![u] = "menu"]
  /\ heard' = [heard EXCEPT ![u] = {}]
  /\ UNCHANGED <<requests, serverVars, announced, replies, asked, timeouts, fooled>>

(***************************************************************************)
(* HandleJoinQueue: append under the mutex, then ListLocalQueue (for a log *)
(* line) takes the mutex again, then the answer.                           *)
(***************************************************************************)
ReceiveRequest ==
  /\ handler = Idle
  /\ requests # <<>>
  /\ handler' = [step |-> "append", request |-> Head(requests)]
  /\ requests' = Tail(requests)
  /\ UNCHANGED <<entered, localQueue, mutexHeld, monitor, due, handedOver, dropped, rooms,
                 announced, replies, clientVars>>

(* Mutant: the newest entry is put first. *)
PrependEntry ==
  /\ handler.step = "append"
  /\ ~ mutexHeld
  /\ entered' = Append(entered, handler.request)
  /\ localQueue' = <<Len(entered) + 1>> \o localQueue
  /\ handler' = [handler EXCEPT !.step = "list"]
  /\ UNCHANGED <<requests, mutexHeld, monitor, due, handedOver, dropped, rooms,
                 announced, replies, clientVars>>

AppendEntry ==
  /\ handler.step = "append"
  /\ ~ mutexHeld
  /\ entered' = Append(entered, handler.request)
  /\ localQueue' = Append(localQueue, Len(entered) + 1)
  /\ handler' = [handler EXCEPT !.step = "list"]
  /\ UNCHANGED <<requests, mutexHeld, monitor, due, handedOver, dropped, rooms,
                 announced, replies, clientVars>>

ListLocalQueue ==
  /\ handler.step = "list"
  /\ ~ mutexHeld
  /\ handler' = Idle
  /\ replies' = replies \union {handler.request}
  /\ UNCHANGED <<requests, entered, localQueue, mutexHeld, monitor, due, handedOver,
                 dropped, rooms, announced, clientVars>>

(***************************************************************************)
(* MonitorLocalQueue, once a second.  JoinTime never decreases along the   *)
(* queue, so the entries older than 10s are its first ones.                *)
(***************************************************************************)
MayBeDue == 0 .. Len(localQueue)

StartSweep ==
  /\ monitor = "idle"
  /\ ~ mutexHeld
  /\ monitor' = "sweep"
  /\ mutexHeld' = TRUE
  /\ due' \in MayBeDue
  /\ UNCHANGED <<requests, handler, entered, localQueue, handedOver, dropped, rooms,
                 announced, replies, clientVars>>

(* SendToGlobalQueue starts: the head's entry gets to the leader or does   *)
(* not.  The leader may have it though Raft.Apply or the POST fails.       *)
SendToGlobalQueue(taken) ==
  /\ monitor = "sweep"
  /\ due > 0
  /\ monitor' = "posting"
  /\ IF taken
       THEN /\ handedOver' = handedOver \union {Head(localQueue)}
            /\ UNCHANGED dropped
       ELSE /\ dropped' = dropped \union {Head(localQueue)}
            /\ UNCHANGED handedOver
  /\ UNCHANGED <<requests, handler, entered, localQueue, mutexHeld, due, rooms, announced,
                 replies, clientVars>>

(* Mutant: the loop's count misses that the queue is one entry shorter. *)
RemoveHeadMiscounted ==
  /\ monitor = "posting"
  /\ monitor' = "sweep"
  /\ localQueue' = Tail(localQueue)
  /\ UNCHANGED <<requests, handler, entered, mutexHeld, due, handedOver, dropped, rooms,
                 announced, replies, clientVars>>

(* It has returned: the entry leaves the queue whatever came of it.        *)
RemoveHead ==
  /\ monitor = "posting"
  /\ monitor' = "sweep"
  /\ localQueue' = Tail(localQueue)
  /\ due' = due - 1
  /\ UNCHANGED <<requests, handler, entered, mutexHeld, handedOver, dropped, rooms,
                 announced, replies, clientVars>>

(* Mutant: the sweep ends without a release of the mutex. *)
EndSweepLocked ==
  /\ monitor = "sweep"
  /\ due = 0
  /\ monitor' = "match"
  /\ UNCHANGED <<requests, handler, entered, localQueue, mutexHeld, due, handedOver, dropped,
                 rooms, announced, replies, clientVars>>

EndSweep ==
  /\ monitor = "sweep"
  /\ due = 0
  /\ monitor' = "match"
  /\ mutexHeld' = FALSE
  /\ UNCHANGED <<requests, handler, entered, localQueue, due, handedOver, dropped, rooms,
                 announced, replies, clientVars>>

(* The loop of MatchLocalQueue: entries leave two by two (client.JoinQueue *)
(* sends them all as "available"), and both players are told.              *)
PairCount == Len(localQueue) \div 2
(* Mutant: the entry without an opponent leaves too. *)
UnmatchedNone == SubSeq(localQueue, 2 * PairCount + 2, Len(localQueue))
Unmatched == SubSeq(localQueue, 2 * PairCount + 1, Len(localQueue))
NewRooms == {{localQueue[2 * i - 1], localQueue[2 * i]} : i \in 1 .. PairCount}

MatchLocalQueue ==
  /\ monitor = "match"
  /\ ~ mutexHeld
  /\ monitor' = "idle"
  /\ localQueue' = Unmatched
  /\ rooms' = rooms \union NewRooms
  /\ announced' = announced \union
       UNION {{[to |-> entered[e].user, room |-> room] : e \in room} : room \in NewRooms}
  /\ UNCHANGED <<requests, handler, entered, mutexHeld, due, handedOver, dropped,
                 replies, clientVars>>

(* The leader, a peer, or a later leader tells the player of an entry that *)
(* the leader got, at any time and not only once.                          *)
GlobalMatch(e) ==
  /\ announced' = announced \union {[to |-> entered[e].user, room |-> {e}]}
  /\ UNCHANGED <<requests, serverVars, replies, clientVars>>

HandlerStep == ReceiveRequest \/ AppendEntry \/ ListLocalQueue

Send == SendToGlobalQueue(TRUE) \/ SendToGlobalQueue(FALSE)

MonitorStep == StartSweep \/ Send \/ RemoveHead \/ EndSweep \/ MatchLocalQueue

ClientStep(u) == AskToJoin(u) \/ GiveUpAsking(u) \/ TakeUpMatch(u) \/ EndGame(u)

Next ==
  \/ HandlerStep
  \/ MonitorStep
  \/ \E u \in User : ClientStep(u)
  \/ \E r \in replies : ReceiveReply(r)
  \/ \E m \in announced : HearMatch(m)
  \/ \E e \in handedOver : GlobalMatch(e)

Spec == Init /\ [][Next]_vars

(***************************************************************************)
(* Properties.                                                             *)
(***************************************************************************)
TypeOK ==
  /\ requests \in Seq(Request)
  /\ handler \in {Idle} \union [step : {"append", "list"}, request : Request]
  /\ entered \in Seq(Request)
  /\ localQueue \in Seq(Entry)
  /\ mutexHeld \in BOOLEAN
  /\ monitor \in {"idle", "sweep", "posting", "match"}
  /\ due \in 0 .. Len(localQueue)
  /\ handedOver \subseteq Entry
  /\ dropped \subseteq Entry
  /\ rooms \subseteq SUBSET Entry
  /\ announced \subseteq [to : User, room : rooms \union GlobalRoom]
  /\ replies \subseteq Request
  /\ client \in [User -> {"menu", "asking", "waiting", "playing"}]
  /\ asked \in [User -> Nat]
  /\ timeouts \in [User -> Nat]
  /\ \A u \in User : timeouts[u] <= asked[u] /\ asked[u] <= MaxRequests[u]
  /\ heard \in [User -> rooms \union GlobalRoom \union {{}}]
  /\ fooled \subseteq User

InQueue(e) == \E i \in DOMAIN localQueue : localQueue[i] = e
Sent == handedOver \union dropped
Waiting == {e \in Entry : InQueue(e)} \ Sent

P == INSTANCE Pairing WITH Player <- Request, waiting <- Waiting, away <- Sent

(* The local queue pairs as Pairing says: an entry waits until it is put   *)
(* in one room with another, or given to SendToGlobalQueue; none is used   *)
(* twice or both ways, and none goes astray (MonitorLocalQueue and         *)
(* MatchLocalQueue remove by position while the handler appends).          *)
IsPairing == P!Spec

(* First come, first served: the queue is in order of arrival, and every   *)
(* entry that has left it came before every entry that is still there.     *)
FirstComeFirstServed ==
  /\ \A i, j \in DOMAIN localQueue : i < j => localQueue[i] < localQueue[j]
  /\ \A i \in DOMAIN localQueue : \A e \in 1 .. localQueue[i] :
       ~ InQueue(e) => e < localQueue[1]

(* All requests of u were answered, and it took no room for its own that   *)
(* an earlier entry of it was in.                                          *)
Undisturbed(u) == timeouts[u] = 0 /\ u \notin fooled

(* A player is paired with itself only if one of its requests had timed    *)
(* out, or a late GLOBAL_MATCH started a game while its entry waited:      *)
(* MatchLocalQueue does not compare the two players.                       *)
SelfMatchNeedsMishap ==
  \A room \in rooms : \A e, f \in room :
    e # f /\ entered[e].user = entered[f].user => ~ Undisturbed(entered[e].user)

Live(u) ==
  \/ \E i \in DOMAIN requests : requests[i].user = u
  \/ handler # Idle /\ handler.request.user = u
  \/ \E e \in Waiting : entered[e].user = u
  \/ \E r \in replies : r.user = u
  \/ \E m \in announced : m.to = u /\ m.room \in rooms

(* When an undisturbed player plays or is at the menu, nothing of it is    *)
(* under way here: no entry another player could be paired with, and no    *)
(* MATCH its next wait could take for its own.  Only of rooms of the       *)
(* cluster further copies may come.                                        *)
NothingIsLeftBehind ==
  \A u \in User :
    Undisturbed(u) /\ client[u] \in {"menu", "playing"} => ~ Live(u)

(* An undisturbed player misses no MATCH, though it may come before the    *)
(* answer to JOIN_QUEUE (the listener starts first, client/main.go), nor   *)
(* the GLOBAL_MATCH of the entry it waits for.                             *)
MatchIsHeard ==
  [][\A m \in announced \ announced' :
       /\ Undisturbed(m.to)'
       /\ \/ m.room \in rooms
          \/ OfLatest(m) /\ client[m.to] \in {"asking", "waiting"}
       => heard'[m.to] = m.room]_vars

(* No JOIN_QUEUE is stuck: whenever one waits or is in hand, its handler   *)
(* can go on, or the monitor has the mutex and can go on with its sweep,   *)
(* which ends when the queue does.  A step of it may be the leader's       *)
(* answer, for which the code waits without a limit.                       *)
HandlerCanGoOn ==
  requests # <<>> \/ handler # Idle =>
    ENABLED HandlerStep \/ (mutexHeld /\ ENABLED MonitorStep)

=============================================================================
