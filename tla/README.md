# Verification of the card game's servers and clients

TLA+ models of the distributed card game in this repository, the TLC runs that
check them, and TLAPS proofs about the core of the system. Paths below are
relative to the root of the repository.

## 1. The system

Three game servers form a Raft cluster (`hashicorp/raft` over a transport of the
project's own, `server/transport.go`). Each has a NATS server beside it, through
which its players talk to it: `server.<id>.requests` for requests,
`client.<id>.inbox` and `server.<id>.client.<id>` for what the server sends. With
`docker-compose.yml` the NATS servers are clustered, so that a message published
anywhere reaches everybody; with the `Makefile` each stands alone. Servers talk to
each other by Raft and by HTTP.

| Component | State | Operations | Talks to |
| --- | --- | --- | --- |
| Raft log (`hashicorp/raft`, configured in `server/start.go`) | log, commit index, leader, what each FSM has applied, snapshots | propose, commit, elect, step down, apply, snapshot, restart | the FSM of every server |
| Raft over HTTP (`server/transport.go`) | `rpcChan`, one `respChan` per handler | `sendRPC` with its timeout of 10s, `HandleRaftRequest`, the Raft main loop that takes the calls | the transports of the other servers by HTTP |
| FSM (`server/fsm/fsm.go`) | `GlobalQueue` and its mutex, `GlobalRooms`, `CreatedRooms`, `cardStock`, `pendingCards`, `mu` | `Apply` of OPEN_PACK, CLAIM_CARD, QUEUE_JOIN_GLOBAL, CREATE_ROOM, QUEUE_LEAVE; `TryMatchPlayers`; `Snapshot`, `Restore` | the ticker and the consumer of `CreatedRooms` in `server/start.go` |
| Global matchmaking (`server/start.go`, `server/handlers/matchmaking.go`, `server/utils/utils.go`) | rooms to propose, announcements | `SendToGlobalQueue`, `/leader/join-global-queue`, `notifyServersAboutMatch`, `NotifyClients` | the leader by HTTP, players by NATS |
| Local queue (`server/handlers/matchmaking.go`) | `Matchmaking.LocalQueue` under `Matchmaking.Mutex` | `HandleJoinQueue`, `MonitorLocalQueue`, `MatchLocalQueue` | the leader, players |
| Sessions (`server/handlers/handlers.go`) | `server.Users`, `activeClients` under `mu` | LOGIN, LOGOUT, OPEN_PACK, SEE_CARDS and CHANGE_DECK on the accounts, HEARTBEAT, PING, the heartbeat monitor, a client's interrupt | players |
| Card stock (`server/handlers/handlers.go`, `server/cards/cards.go`) | the FSM's cards, the players' inventories | OPEN_PACK at the leader or forwarded to it, `claimCard` | the Raft log |
| Local game (`HandleGameMessage`, `server/game/gameRooms.go`) | `GameRooms`, the cards of a round | `CreateRoom`, GAME_MESSAGE | two players of one server |
| Global game (`server/handlers/handleGame.go`) | `PlayersCards` of a room at its host | GAME_MESSAGE_GLOBAL, `/forward-card`, `/forward-to-host`, `/forward-result` | two servers, two players |
| Card rules (`server/game/logic.go`) | none | `CheckWinner` | the two games |
| Client (`client/`) | where its loop is, its subscriptions, its heartbeat goroutines | login, queue, game, cards, logout | its server |

What is hard in it:

* **Concurrency.** All requests of a server are handled by one goroutine, the
  callback of its NATS subscription, so a handler that waits stops all the others.
  Beside it run the queue monitor, the heartbeat monitor, the leader's ticker,
  Raft's apply loop, one goroutine per proposed room or claimed card, the consumer
  of `CreatedRooms` and the HTTP handlers.
* **State outside the log.** Only the leader takes players out of the queue, and
  not by a log entry; the stocks of cards are random, so each replica holds others.
* **Failures.** Leaders change between a step and the entry that should follow it.
  A server that starts again has an empty queue and applies the log anew, or from a
  snapshot, which holds the cards only; the accounts of its players are lost.
* **Timeouts.** The clients give up after 5s, their requests are handled all the
  same; so it is with a call of Raft after 10s, whose handler waits on. NATS loses
  what nobody listens to.

What makes each component correct, in words: the *global matchmaking* never loses,
doubles or self-matches a player, and both players of a room get to play in it; the
*local queue* serves in order and uses each entry once; the *sessions* keep names
unique, players in the game logged in and their decks within their cards, and
answer; the *transport* executes a call of Raft at most once and gives it its own
answer; the *card stock* gives no card twice and leaves none pending; a *round* of a
game has one result, of both cards, the same for both players. `PROJECT.json` lists
the hazards at their lines.

## 2. The modules

| Module | Models | Lines of code it stands for |
| --- | --- | --- |
| `RaftLog` | what the servers rely on of `hashicorp/raft` | external, `server/start.go` 56-97 |
| `RaftLog_proofs` | what a step does to the log, for the modules that EXTEND it | |
| `RemoteCall` | abstract: what Raft may count on when it calls another server | |
| `RaftTransport` | implements `RemoteCall`; Raft's calls to one server over HTTP | `server/transport.go` |
| `RaftTransport_proofs` | its theorems | |
| `GlobalMatchmaking` | EXTENDS `RaftLog`; pairing players of different servers | `fsm.go`, `start.go`, half of `matchmaking.go`, `utils.go` |
| `GlobalMatchmaking_proofs` | its theorems | |
| `Dealing` | abstract: what a player that draws a card is promised | |
| `CardStock` | EXTENDS `RaftLog`, implements `Dealing`; drawing and claiming cards | `handlers.go` 163-312, `fsm.go`, `cards.go` |
| `CardStock_proofs` | EXTENDS `RaftLog_proofs`; its theorems | |
| `Pairing` | abstract: what becomes of an entry of a queue | |
| `LocalQueue` | implements `Pairing`; the local queue of one server and the clients in it | the other half of `matchmaking.go`, `client/game/queue.go` |
| `LocalQueue_proofs` | its theorems | |
| `Session` | login, cards and decks, logout and liveness of the clients of one server | `handlers.go`, `pubSub.go`, `client/main.go` |
| `Session_proofs` | its theorems | |
| `CardRules` | what decides a round, and the rules on the client's screen | `logic.go`, `menus.go` 49-76 |
| `CardRules_proofs` | its theorems | |
| `Round` | abstract: what a game promises its two players | |
| `Game` | EXTENDS `CardRules`, implements `Round`; local and global games of two players | `handleGame.go`, `handlers.go` 360-427, `client/game/` |
| `Game_proofs` | EXTENDS `CardRules_proofs`; its theorems | |
| `MC...` | the small instances TLC checks | |

Definitions labelled "Mutant" in a module are variants of the definition that
follows them, with a bug; no specification uses them. Each property is checked to
fail when such a variant takes the place of the original.

### RaftLog
`log` is the leader's log. Its first `commit` entries are fixed; a new leader keeps
some prefix of the others. `applied[s]` is how far `s` has got, `snapshot[s]` where
it starts from after `RestartRaft`. A module that EXTENDS it adds what the entries
are and what applying one does. A deposed leader that does not know it yet is not a
second leader here: it sees no new committed entry, so all it can do it could have
done just before it was deposed.

### RemoteCall and RaftTransport
A call is named by the goroutine that makes it and its number. `SendRPC` is `sendRPC`
up to `client.Do`, and `ReturnError` what it does after 10s or when the connection
is lost. `handler[c]` follows the request of `c`: "sent", "offering" it on `rpcChan`,
"waiting" on its own `respChan`, "ended". `Arrive` may refuse what cannot be decoded,
and the request may get lost. The main loop (external) takes one call at a time
(`Take`, `Handle`); `Block` stops it for good, as an `Apply` that does not return does
(see `GlobalMatchmaking`), and `Restart` ends the process with its handlers.
`InstallSnapshot` is an error without a request. `RemoteCall` says less: a call is
executed at most once, maybe after its caller has gone on to the next one; an answer
is the call's own; only a refusal means that it was not executed and will not be.
In the mapping, a call is open while it is on its way, offered or in hand.

### GlobalMatchmaking
A room is named by the index of its CREATE_ROOM entry. `Enqueue`/`JoinQueue` put a
player in its server's local queue (`unsent`); `SendToGlobalQueue` is the sweep that
posts it to the leader, where `sending[s]` is the one entry whose answer the monitor
of `s` waits for with `Matchmaking.Mutex` held; without a leader (`SendWithoutLeader`)
or when the POST fails or is refused (`SendRefused`) the entry is dropped all the
same. `ApplyNewJoin`, `ApplyDuplicateJoin` and `ApplyCreateRoom` are the branches of
`FSM.Apply`; the second leaves `globalQueueMu[s]` TRUE, because `fsm.go:111` returns
without unlocking, and `BlockOnQueueMu` is the next goroutine that wants this mutex
and keeps `FSM.mu` for ever. `TryMatchPlayers` takes all pairs out in one critical
section; each pair is in `creating` until its goroutine has called `Raft.Apply`
(`ProposeRoom`) or was refused (`ProposalRefused`). `ConsumeCreatedRoom` announces a
room if its server leads, in the name of every server; `Reaches` says whom that
server's NATS reaches. `LoseLeadership`, `Snapshot` and `Restart` are the faults.

### CardStock
A card is what its uuid stands for: the server that made it and a number.
`drawing[s]` is the OPEN_PACK that the callback goroutine of `s` waits for, with the
leader it was sent to (itself or over HTTP). `ApplyOpenPack` draws at every replica
and hands the card to whoever waits for that entry; `ProcessDrawCardRequest` starts
the goroutine of `claimCard`; `SaveCardToLocalUser` ends the request; `LoseAnswer`
is a failed HTTP answer. `Snapshot` saves and `NewFSM` restores stock and pending
cards. `given` is a history of the cards that were answers. In `Dealing` a desk,
which is a server here, serves one player at a time, a card is drawn if it was never
given, and failures may take cards from a desk or from players; nothing else
happens. The blocked `FSM.mu` of the matchmaking is no part of this module, which is
why it states no liveness: a server that is wedged answers no draw either.

### LocalQueue
An entry is named by the position at which it entered. The handler goes through
`ReceiveRequest`, `AppendEntry`, `ListLocalQueue` (it locks the mutex twice), the
monitor through `StartSweep`, `SendToGlobalQueue` and `RemoveHead` per entry,
`EndSweep`, `MatchLocalQueue`.
`JoinTime` does not decrease along the queue, so a sweep hands on a prefix of it
(`due`); which prefix is any, since time is not modelled. `SendToGlobalQueue` ends with
the leader having the entry or not, which the monitor does not learn: a POST whose
answer fails may have been taken. Between it and `RemoveHead` the mutex is held, as in
the code, for as long as the leader takes. `GlobalMatch` is what the cluster makes of
an entry the leader got: it may be announced at any time and any number of times,
also after the player has left that wait, because the leader and every peer publish
each room, and a new or restarted leader pairs or announces from its own copy of the
queue. The client takes any announcement it hears while it listens; `fooled` are the
players that took one of an earlier entry. In `Pairing` an entry waits until it is in
one room of two, or is sent away to the cluster.

### Session
An account is `users`, `cards` and `deck` of a client; the client plays with
`userDeck`, a copy of its own, and `choice` is what it chooses from and then saves.
Every request of a client that it waits for (`Ask`) has a number, so that only the
answer to the last one finds it. `GiveUp` is the timeout, after which the request is
still handled; `missed` keeps which answers about its deck a client gave up. `Crash`
leaves without a word. `Interrupt` is the goroutine that waits for a signal: it sends
a LOGOUT, of number 0, which the rest of the process waits for as little as for its
answer; until `os.Exit`, which is a `Crash` here, the client goes on and may send any
request, a CHANGE_DECK too, for which the server then makes a nameless entry.
`HandleLogout` deletes in four sections (`LogoutUser`, `LogoutActive`, twice each),
the other handlers in one. `Beat` puts HEARTBEAT or PING in the subscription's FIFO;
as in the code a HEARTBEAT names no client (`NoID`), and all of them share one entry
of `activeClients`. `StartRound`, `LookAt`, `DropUser`, `EndRound` are the heartbeat
monitor; after `DropUser` it waits for the mutex it holds (`relocking`). `Restart`
loses the accounts, the entries of `activeClients` and the requests at once, since all
were in the memory of one process; `forgotten` are the clients of which no LOGIN was
accepted since. They do not notice: they go on playing, and their CHANGE_DECK makes an
account without a name.

### CardRules and Round
`CheckWinner` is the nested switch of `logic.go` as sets of pairs; `Beats` are the
rules `ShowRules` prints, with what `logic.go` says of MATO, on which the screen is
silent. `Round` is a game as its players know it: one card each, and a result, if one
comes, that `Beats` gives of both cards.

### Game
Two players meet in game after game, in a local room (`PlayLocal`, one step, because
one goroutine does it all) or in a global one. A global card is carried from
`processClientCard` to the end of `processHostCard` by one thread, since every HTTP
call waits for its answer: `job[s]` is the card that the callback goroutine of `s`
works for, and `job[s].on` the server at which it is being worked for now. Two such
threads can be in `processHostCard` of the host at once, and `PlayersCards` has no
lock, so `CheckNil`, `MakeMap`, `StoreCard`, `CountCards`, `ReadCard` and
`ResetCards` are steps of their own. A write of the map beside a write or a read of
it may go unnoticed, or be found by the Go runtime, which ends the process
(`ConcurrentMapAccess`). `has[s]` is the last room whose CREATE_ROOM `s` has
applied. Rooms of the same two names, in the same order, have the same id, so a
lookup finds that room; the game a card was meant for is kept in it for the
properties only, and `mishaps` notes when the two differ ("crossed"), when a card is
lost ("dropped") and when two threads meet ("raced"). A client hears the topic of
its kind of room while it listens (`Subscribed`) and looks at no room id. Both
players hear of a room once: what several copies do is in `GlobalMatchmaking`.

## 3. The runs

| Run | Bounds | What it shows |
| --- | --- | --- |
| GlobalFaults | 2 servers, 2 players, 2 joins each, 3 entries, 2 faults, snapshot every 2 | NoSelfMatch, RoomFromJoins, PlaysCommitted, WedgeNeedsRejoin, RoomsAreLatest and AwaitedJoinIsLogged hold whatever fails |
| GlobalStable | 2 servers, 3 players, two of them namesakes, 2 joins each, 7 entries, a channel of 1 | with one leader, joins are conserved over queue, proposals and rooms, and no further room of its own players takes the place of the one a player is in; the capacity of `CreatedRooms` is kept |
| GlobalLive | 2 servers, 3 players, 1 join each | pairs are made, monitors return, replicas catch up |
| LocalQueueing | 2 players, 3 requests and 1 | the local queue implements `Pairing` and serves in order; who gave up no request and was not fooled by a late announcement is not paired with itself, leaves nothing behind and misses no match; no request is stuck |
| LoggingIn | 2 clients, one name, 6 requests and 1, 2 pending messages, a basic and a rare card, 1 restart, a signal to the first client | names stay unique; players in the game are logged in and play with cards of theirs, but for those that a restart forgot or a signal logs out; the two copies of a deck differ only after an answer was given up; no request is stuck |
| DrawingCards | 2 servers with a player each, 3 draws from stocks of 2, 5 entries, 1 fault, snapshot every 2; symmetric | `CardStock` implements `Dealing`, replicas agree on pending requests and on the size of the stock, claims are not forgotten |
| RaftCalls | 2 calling goroutines, 2 calls each | the transport implements `RemoteCall`; its handlers end unless the main loop blocks |
| Playing | 2 servers, 2 players at one or at both, 2 games, 2 failed calls or cancelled games | a first game implements `Round` as long as no call failed; out-of-turn cards, wrong, missing and double results need the mishap their property names |
| FollowerWedges, PairLost, StaleAnnouncement, MonitorDeadlock | | findings, below |

Why the bounds suffice: two servers give a leader and a follower, and either may lead;
a third adds only another follower. Three entries are the least at which a room
follows its two joins, seven hold two rooms over the joins of players that come back;
two faults are a lost leader and a restart, in either order. Three players are the
least at which one waits while two are paired, and at which a room can be confused
with another of one of its players. Two of the three players of `GlobalStable` have
one name, which players of different servers may. With three requests one player of
`LocalQueueing` may have an entry that is sent to the leader, play on an announcement,
join again, meet a late copy of the first one while its new entry waits, and join a
third time to be paired with itself. One name for two clients is the case in which
names clash, and the six requests of one client are a login, a card drawn, the cards
seen and a deck saved, a logout and another login: a deck that was given up in the
first session may meet the account of the second, which lacks the card. A request that
was given up waits with one that is new, for which two places suffice, and the
restart, and the signal that logs this client out while it goes on, may come before,
between and after all of this. Two calls of each of two goroutines let a late call be
executed after the next one, while both handlers wait at the one channel. In
`DrawingCards` a player has the name of its server, which makes the servers and the
players symmetric at once. With three draws from stocks of two the third refills, and
a snapshot every second entry is taken in the middle of a draw and its claim. Two
games are the least at which one disturbs the next. In `Playing` each player chooses
from one element per game, so that the second player wins the first game, the first
player the second one, and a card of one game against a card of the other makes a
draw: every mixture shows in the result. Either may start the first game, either kind
of room may come first, and the host of the second game is the other server. All pairs
of cards are the matter of the theorems on `CardRules`. `MaxLog`, `MaxJoins`,
`MaxRequests`, `MaxPending`, `MaxRestarts`, `Signalled`, `MaxCalls`, `MaxDraws`,
`MaxGames` and `MaxFaults` stop the behaviours, which is why deadlock is not checked:
at the bounds, and when all players are done, nothing need happen.

**Fairness.** *GlobalMatchmaking*: weak fairness of the goroutines that run for ever
(apply loop, ticker, proposals, consumer, answers), of the election and of commits (a
quorum is alive), and of the delivery of messages that are not lost; strong fairness
of `SendToGlobalQueue`, since the monitor sweeps every second and an entry is
interrupted by the sending of others only. *Session*, for the finding only: the
callback gets `mu` if it is released again and again, the monitor runs, live clients
go on beating, answers arrive. That requests do not get stuck is an invariant in
*LocalQueue* (`HandlerCanGoOn`) and *Session* (`CallbackCanGoOn`), which needs no
fairness: the goroutine that handles them, or the monitor that has the mutex it waits
for, can go on. A step of the sweep is the leader's answer, for which the code waits
without a limit. *RaftTransport*: requests arrive or are lost, the handlers run, and
so does the main loop until it blocks; callers need not be patient. No run assumes
that a player acts or that nothing fails beyond `MaxFaults`.

## 4. Findings

1. **FollowerWedges** (`fsm.go:111`). Followers never remove a player from their copy
   of the queue. When a player joins a second time, for the next game, each
   follower returns early for a duplicate, without unlocking `GlobalQueueMu`; the
   next join blocks its apply loop for ever. No fault is needed. `WedgeNeedsRejoin`
   shows that a second join is also necessary.
2. **PairLost** (`fsm.go:271`). A pair leaves the queue before its CREATE_ROOM is
   committed. When the leader is deposed between, nothing puts the pair back: another
   server that has both players in its own copy of the queue would pair them when it
   leads, but in the trace the server without them leads again, and both wait for ever.
3. **StaleAnnouncement** (`start.go:128`). With clustered NATS every server announces
   a room to both players. A late copy is believed by a player that waits for its
   next match: opponents end up in different rooms.
4. **MonitorDeadlock** (`handlers.go:521`). The monitor calls `DisconnectClient`, which
   locks `mu`, while it holds `mu`. The first inactive client stops it for ever.

Seen in the models, with no run of their own: two pairs of namesakes, at different
servers, have one room id, and the later room takes the place of the other while it is
played in (`PlayersKeepTheirRoom` shows that nothing else does); a late announcement
starts a game while its player's new entry stays in the local queue, to be paired with
whoever comes, that player included (`SelfMatchNeedsMishap`); a CHANGE_DECK that
follows the LOGOUT of a signal makes an account without a name; a client that crashes
keeps its name, because heartbeats carry no client id; a LOGIN that timed out is
refused when it is repeated, by its own entry; a player whose JOIN_QUEUE timed out and
who asks again has two entries, and may be paired with itself (`SelfMatchNeedsMishap`
again); after a CHANGE_DECK that timed out the server has one deck and the client
plays with another, and after a SEE_CARDS that failed the player, asked nothing, saves
an empty one (`DecksAgree` shows that each needs its timeout); a client that plays on
after a restart gets an account without a name; an entry that no leader takes is
dropped although its player waits; a client that gave up is queued, and matched, all
the same; a drawn card whose HTTP answer is lost is in nobody's inventory. In the
games: both threads at the host find no map, and the map of the slower one replaces
the faster one's card; when a result to one player is lost and there is a second one,
of the map the first one emptied, that player is shown a draw; a PLAY_CARD of a game
that its player gave up starts the next one out of turn; the two cards at once can end
the host's process.

## 5. The proofs

All theorems hold for any servers, players, clients, callers, names, cards and
bounds, from the named assumptions on the constants alone. They are of one form: an
inductive invariant `IInv` that holds in `Init`, is kept by each step (theorem
`Invariance`), and implies the property.

**GlobalMatchmaking_proofs**: `TypeCorrect`, `NeverSelfMatched` (`[]NoSelfMatch`),
`RoomsComeFromJoins` (`[]RoomFromJoins`), `PlayersPlayCommittedRooms`
(`[]PlaysCommitted`), `WedgedOnlyByRejoin` (`[]WedgeNeedsRejoin`), `RoomsStayLatest`
(`[]RoomsAreLatest`), `AwaitedJoinsAreLogged` (`[]AwaitedJoinIsLogged`),
`JoinsStayConserved` (`[]JoinsAreConserved`), `PlayersKeepTheirRoom`
(`[]RoomOfPlayerIsKept`): all safety properties of the module.

The first four follow from `IInv`. None of the three properties is inductive. That a
room is not of one player twice depends on the queue it came from, so `QueueIsOfJoins`
says that every copy of the queue has each player once and by a *committed* join, and
`CreatingIsOfJoins` the same of pairs that left the queue and are not in the log yet.
They speak of committed joins because an election truncates the others (`LogStep`: no
step changes a committed entry), and `NewEntry` says that an entry of the log was
there before or is new. That players are told of committed rooms needs
`CreatedAreCommitted`, of the channel between `Apply` and the announcements.
`RemoveAtProperties`, `PairingsProperties` and `UnpairedProperties` are the facts
about sequences behind these steps.

The next two speak of what a server has *applied*, and follow from `AppliedInv`
(`AppliedInvariance`, relative to `TypeOK`): `QueueIsApplied` puts an applied join
behind every player of a copy of the queue, so that a second one, which takes the
early return and keeps the lock, makes two; `BlockedOnQueueMu` says that `FSM.mu`
stays taken only behind a lost `GlobalQueueMu`. `AppliedEntry` says that the entry
`Apply` gets is committed and the next one. The last one follows from `AwaitedInv`:
whoever waits for an uncommitted entry gets an error when its leader is deposed, so
that an election removes no entry anybody waits for.

`JoinsStayConserved` counts. Without a fault the first leader is the only one
(`OneLeader`), so every join is appended and every pair popped at one server. For
each player, its joins up to some applied entry are its places in the queue there,
in the pairs about to be proposed and in the rooms of the log (`Balanced`).
`CountToNext` and `CountAppended` say how one more entry moves the counts, and
`PairedOnce` that a pass of `TryMatchPlayers` puts each player it pops in one pair.

`PlayersKeepTheirRoom` rests on `RoundsInv` (`RoundsInvariance`), which counts once
more: without a fault and without a NATS cluster a player's requests in the local
queue, its joins in the log and its rooms yet to be announced are together no more
than the rooms the leader has applied, and one while it waits (`OneAtATime`). It
follows that no join is a second one that keeps the lock (`NoDuplicate`), that a
player is told once per join (`OneMessageEach`), and that when it hears of a room
there is no later room of it (`LastIsHeard`). `RoomsAreThere` says that a server that
has applied a room has some room under its id. So what it finds there instead is a
later room, of namesakes of both players and without the player itself. Of the names
nothing is assumed, and the property cannot be stronger: the servers keep names unique
among the players of each one only.

**RaftLog_proofs** states for any set of commands what modules over `RaftLog` need:
`LogStep` and `RaftTypeNext` of every step, `LeaderLog` of an entry that is there
as long as its leader leads.

**RaftTransport_proofs**: `TypeCorrect`, and `CallsAreRemoteCalls`
(`Spec => IsRemoteCall`). `NotYetHandled` says that a call that may yet be executed
was not, and that nothing is in its channel; `AnswerIsOwn`, that channels and HTTP
responses hold the answer of the call they belong to, which was executed once.

**LocalQueue_proofs**: `TypeCorrect`, `ServedInOrder` (`[]FirstComeFirstServed`),
`QueuePairs` (`Spec => IsPairing`). All rest on `QueueIsSuffix`: the queue is always
the entries that came last, in the order they came, since they leave at the head only.
So who has left (`Gone`) is an interval, and `MatchLocalQueue` makes rooms of entries
that were never in one. `LeftIsGone` says that what is in a room or was sent is one of
them, or the head that the monitor is just sending.

`SelfMatchOnlyAfterMishap` (`[]SelfMatchNeedsMishap`), `NothingStaysBehind`
(`[]NothingIsLeftBehind`) and `MatchesAreHeard` (`MatchIsHeard`) speak of an
undisturbed client, that gave up no request and took no announcement of an earlier
entry for that of the one it waited for. They follow from `TidyInv`
(`TidyInvariance`): of such a client the request, the entry and the MATCH are in one
place at a time, of its last request, and the client is where it waits for just that.
What the cluster announces is under way at any time beside it, and `GlobalApart` keeps
the two kinds of room apart: no entry that the leader got is in a room made here.

**Session_proofs**: `TypeCorrect`, `NamesStayUnique` (`[]NamesAreUnique`),
`PlayersAreLoggedIn` (`[]InGameIsLoggedIn`), `DecksStayOwned` (`[]DeckIsOwned`),
`DecksStayEqual` (`[]DecksAgree`). Requests are handled long after they were sent, so
the invariant says of each one that still waits what it means by now: `Wanted` that
while an action of the game is pending its client is logged in and a deck to be saved
is of its cards, and that no LOGIN or LOGOUT is pending of a client in the game;
`Follows` in which order requests of one client can come; `RepliesInv` that beside an
answer nothing is pending. Since a restart takes all accounts but not the clients'
minds, and the LOGOUT of a signal takes one while its client may go on, every clause
about an account is about clients that are neither forgotten nor interrupted
(`Known`). `NamesAreUnique` and the types are about all of them. `OnlyNoIDIsActive`
says that `activeClients` only ever has the nameless entry, which is why the monitor
never logs a player out. `DecksStayEqual` has an invariant of its own, `DeckInv`
(`DeckInvariance`): `Saves` says that a CHANGE_DECK that waits is the last request of
its client and of the deck it chose, or the client gave one up; `Tells`, that an
answer on its way came of what the account has now.

**CardStock_proofs**: `TypeCorrect`, `CardsAreDealt` (`Spec => IsDealing`),
`PendingStaysUnclaimed` (`[]PendingIsUnclaimed`), `StocksStayAligned`
(`[]StocksAreAligned`), `PendingKeepsItsClaim` (`[]PendingWillBeClaimed`): all
properties of the module. That no card is given twice is the hard one, because a
server that starts again has an older stock, with cards in it that it gave before.
It draws each of these again for the entry it drew it for the first time, for which
nobody waits any more. `Fresh` says so by counting: a given card in a stock has at
most as many places before it as there are OPEN_PACK entries between what the stock
stands for and the last entry that may have been answered. It is kept for the stock
and for the one of the last snapshot, and `Ahead` says how many places the two
differ by. `WaitingInv` says that who waits does so for an entry its leader has yet
to apply. Stocks are aligned because n cards left after p draws make n + p a
multiple of `StockSize` (`SizeInv`); claims are kept because without a fault one
leader does all the work (`ClaimsInv`).

**CardRules_proofs**, of every pair of cards, by cases: `RulesAreKept`, that
`CheckWinner` decides it as `Beats` does; `SidesDoNotMatter`, that it does so
whichever player is the first; `MissingCardDecidesNothing`, that a missing card
gives no winner, which is why a second result of an emptied map is a draw. With them
the one element per game in `Playing` is no restriction on who wins.

**Game_proofs**: `TypeCorrect`, `ResultsAreSingle` (`[]DecidedOnce`),
`HandledCardsAreCompared` (`[]UndecidedNeedsMishap`), `WrongResultsHaveACause`
(`[]WrongResultNeedsLeftovers`), `TurnsAreKept` (`[]OutOfTurnNeedsLeftovers`),
`FirstGamesAreRounds` (`FirstGameIsRound`, by which the first game of two players
implements `Round`): all properties of the module. They assume of the players' names
that they are none of the marks in `verdict`.

`CoreInv` (`CoreInvariance`) says where the card of each player is: not yet sent,
carried by the thread of the server that took it, or handled, and what each thread
that is in `processHostCard` has seen of the map. `UndisturbedInv` is about games in
which no card was dropped or crossed and no two threads raced: one thread goes after
the other, the map of the room has just the cards handled so far (`NothingLost`), and
the one that finds two decides. `SettledInv` and `LastGameInv` (`LastGameInvariance`)
are about players that left nothing behind: who was shown a result has heard
everything of its game, so what is still under way is of the last game. Then what a
thread reads are the cards of this game (`ReadsRight`), each player hears the result
last (`LastWord`), and acts when it is its turn (`InTurn`). None of this is inductive
alone: that a result is right needs that no message is of an earlier game, and that
needs that earlier results were heard by those they were of.

Every invariant, action property and refinement that a run without a finding checks is
a theorem, but for two. With TLC only: `QueuedArePaired`, `MonitorReturns`,
`CommittedIsApplied` and `HandlersEnd`, since liveness is out of the prover's reach,
and `HandlerCanGoOn` and `CallbackCanGoOn`, as ENABLED is.

## 6. Not modelled

* QUEUE_LEAVE and REMOVE_ROOM: nothing proposes them. SEE_DECK, which only shows.
* Snapshots sent from server to server: `transport.go` does not implement them, so a
  follower that needs one gets none; in `RaftLog` every server has the entries it
  needs on its own disk.
* The messages of Raft in `RaftLog`: that its log is kept is what `hashicorp/raft`
  promises over a transport like `RemoteCall`; the two modules meet in that promise.
* Each login of a client starts one more ping loop and one more listener of its
  inbox, and none ends. More PINGs change nothing in `Session`.
* The content of a deck beyond which cards it has: in `Session` one card stands for
  it, in `Game` a player chooses any card of the set `Deck`.
* In `Game`, an HTTP call between servers that is reported failed while the handler of
  the other server still works for it: a failed call ends that work too. Rooms are
  of two players in one order: that "A-vs-B" and "B-vs-A" are two ids, so that two games
  of the same players may not share a room, is left out, which makes the games of `Game`
  meet more often than those of the code.
* A server that starts again during a game; in `Game` a process that ends stays
  down. After a restart the log is applied anew, or from its snapshot, and old rooms
  may be announced again, as in `StaleAnnouncement`, to players that play another
  game: every property of `Game` would need an exemption for it, and say nothing.
* `server/main.go`, flags, environment, ports; menus and output of the client; the
  test and deployment scripts, but for whether NATS is clustered (`Clustered`).
* Time. Timeouts are choices, the ages of entries and heartbeats are guessed.

## 7. Plan

Done, in this order: `RaftLog`, `GlobalMatchmaking` and its proofs, `LocalQueue`,
`Session`, `CardStock`, `CardRules` and its proofs, `Round`, `Game`; then accounts,
decks and restarts in `Session`, `RemoteCall` and `RaftTransport`, `Pairing`,
`Dealing`, and the proofs of `RaftTransport`, `LocalQueue`, `Session`, `CardStock` and
`Game`. Next: what the liveness properties rest on and can be said without ENABLED,
such as that whenever a committed entry waits at a server that lost no lock, the guard
of one of its `Apply` actions holds, or `HandlerCanGoOn` and `CallbackCanGoOn` by the
guards.
