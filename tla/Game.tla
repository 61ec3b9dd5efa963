-------------------------------- MODULE Game --------------------------------
(***************************************************************************)
(* The games of two players who meet again and again: a game is one round. *)
(* A local room is one server's (HandleGameMessage); a global room is      *)
(* replicated, and one of the players' servers is its host, who compares   *)
(* the cards (server/handlers/handleGame.go).  The clients are             *)
(* PlayLocalGame and PlayGlobalGame.                                       *)
(*                                                                         *)
(* Each server handles its players' cards in one goroutine, and every HTTP *)
(* call waits for its answer.  So one thread per server carries a card     *)
(* from relay to result: job[s], which runs at the server job[s].on.       *)
(* Nothing locks a room, and two threads may work at one.                  *)
(*                                                                         *)
(* Global rooms are found by an id made of the players' names, the same in *)
(* each of their games, and the clients do not look at the id at all.  The *)
(* game that a card or message is of is written down for the properties.   *)
(***************************************************************************)
EXTENDS CardRules, Naturals, Sequences, FiniteSets

CONSTANTS
  Server,
  Player1, Player2,
  Homes,       \* the ways to spread the players over the servers
  Openings,    \* Openings[g]: for the room of g, who starts, whose server has it, its kind
  Deck,        \* Deck[g][p]: the elements p chooses from in game g
  MaxGames,    \* bound on games
  MaxFaults    \* bound on failed HTTP calls and cancelled games together

Player == {Player1, Player2}

ASSUME PlayersAssumption ==
  Player1 # Player2 /\ Player \intersect {"unknown", "cancelled", "nobody"} = {}
ASSUME HomesAssumption == Homes \subseteq [Player -> Server]
ASSUME OpeningsAssumption ==
  Openings \in [1 .. MaxGames -> SUBSET [first : Player, hosting : Player, local : BOOLEAN]]
ASSUME DeckAssumption == Deck \in [1 .. MaxGames -> [Player -> SUBSET Elements]]
ASSUME BoundsAssumption == MaxGames \in Nat \ {0} /\ MaxFaults \in Nat

VARIABLES
  home,       \* the server of each player
  rooms,      \* the rooms of the games so far, in order
  has,        \* has[s]: the last global room whose CREATE_ROOM s has applied
  up,         \* up[s]: does the process of s run
  requests,   \* requests[s]: the cards on server.<s>.requests
  job,        \* job[s]: the card that s is handling
  cards,      \* cards[s][g]: PlayersCards of the room of g in the memory of s
  wire,       \* wire[p]: what was published to p's topic and p did not see yet
  phase,      \* phase[p]: what the client of p does
  game,       \* game[p]: its game, or the last one
  played,     \* played[g][p]: the card of p in g
  verdict,    \* verdict[g][p]: how g ended for p
  decided,    \* decided[g]: how often a result of the room of g was announced
  mishaps,    \* what kept a card of g from the host's comparison, or disturbed it
  faults

clientVars == <<phase, game, played, verdict>>
historyVars == <<decided, mishaps>>
vars == <<home, rooms, has, up, requests, job, cards, wire, clientVars, historyVars, faults>>

Game == 1 .. MaxGames
Opponent(p) == IF p = Player1 THEN Player2 ELSE Player1

Idle == [at |-> "idle"]
NilMap == [made |-> FALSE, of |-> [p \in Player |-> NoCard]]
EmptyMap == [made |-> TRUE, of |-> [p \in Player |-> NoCard]]

Init ==
  /\ home \in Homes
  /\ rooms = <<>>
  /\ has = [s \in Server |-> 0]
  /\ up = [s \in Server |-> TRUE]
  /\ requests = [s \in Server |-> <<>>]
  /\ job = [s \in Server |-> Idle]
  /\ cards = [s \in Server |-> [g \in Game |-> NilMap]]
  /\ wire = [p \in Player |-> <<>>]
  /\ phase = [p \in Player |-> "waiting"]
  /\ game = [p \in Player |-> 0]
  /\ played = [g \in Game |-> [p \in Player |-> NoCard]]
  /\ verdict = [g \in Game |-> [p \in Player |-> "unknown"]]
  /\ decided = [g \in Game |-> 0]
  /\ mishaps = [g \in Game |-> {}]
  /\ faults = 0

Cancelled == {gp \in Game \X Player : verdict[gp[1]][gp[2]] = "cancelled"}
MoreFaults == faults + Cardinality(Cancelled) < MaxFaults
Fault == MoreFaults /\ faults' = faults + 1

Note(g, what) == mishaps' = [mishaps EXCEPT ![g] = @ \union {what}]

Send(p, m) == wire' = [wire EXCEPT ![p] = Append(@, m)]

(***************************************************************************)
(* Rooms: made by the matchmaking, announced to both players, and for the  *)
(* global ones replicated in order.                                        *)
(***************************************************************************)
OpenRoom ==
  LET g == Len(rooms) + 1 IN
  /\ g \in Game
  /\ \A p \in Player : phase[p] = "waiting" /\ game[p] = Len(rooms)
  /\ \E o \in Openings[g] :
       /\ o.local => home[Player1] = home[Player2]
       /\ rooms' = Append(rooms, [first |-> o.first, host |-> home[o.hosting],
                                  local |-> o.local])
  /\ wire' = [p \in Player |-> Append(wire[p], [type |-> "MATCH", game |-> g])]
  /\ UNCHANGED <<home, has, up, requests, job, cards, clientVars, historyVars, faults>>

Missing(s) == {g \in has[s] + 1 .. Len(rooms) : ~ rooms[g].local}

ApplyRoom(s) ==
  /\ up[s]
  /\ \E g \in Missing(s) :
       /\ \A h \in Missing(s) : g <= h
       /\ has' = [has EXCEPT ![s] = g]
  /\ UNCHANGED <<home, rooms, up, requests, job, cards, wire, clientVars, historyVars, faults>>

(***************************************************************************)
(* The clients.  A message for a client that is not in a game is lost; one *)
(* in a game hears the topic of its kind of room only.                     *)
(***************************************************************************)
Saw(p) == wire' = [wire EXCEPT ![p] = Tail(@)]

Heard(p, type) == wire[p] # <<>> /\ Head(wire[p]).type = type

Subscribed(p) == rooms[Head(wire[p]).game].local = rooms[game[p]].local

HearMatch(p) ==
  /\ phase[p] = "waiting"
  /\ Heard(p, "MATCH")
  /\ Saw(p)
  /\ phase' = [phase EXCEPT ![p] = "matched"]
  /\ game' = [game EXCEPT ![p] = Head(wire[p]).game]
  /\ UNCHANGED <<home, rooms, has, up, requests, job, cards, played, verdict, historyVars, faults>>

Miss(p) ==
  /\ wire[p] # <<>>
  /\ \/ phase[p] = "matched"
     \/ phase[p] = "waiting" /\ ~ Heard(p, "MATCH")
     \/ phase[p] = "listening" /\ ~ Subscribed(p)
  /\ Saw(p)
  /\ UNCHANGED <<home, rooms, has, up, requests, job, cards, clientVars, historyVars, faults>>

(* Mutant: both choose at once. *)
EnterGameAnyTurn(p) ==
  /\ phase[p] = "matched"
  /\ phase' = [phase EXCEPT ![p] = "choosing"]
  /\ UNCHANGED <<home, rooms, has, up, requests, job, cards, wire, game, played, verdict,
                 historyVars, faults>>

(* The game subscribes to the player's topic; who has the turn chooses.    *)
EnterGame(p) ==
  /\ phase[p] = "matched"
  /\ phase' = [phase EXCEPT ![p] =
                 IF rooms[game[p]].first = p THEN "choosing" ELSE "listening"]
  /\ UNCHANGED <<home, rooms, has, up, requests, job, cards, wire, game, played, verdict,
                 historyVars, faults>>

PlayCard(p) ==
  /\ phase[p] = "choosing"
  /\ \E c \in Deck[game[p]][p] :
       /\ played' = [played EXCEPT ![game[p]][p] = c]
       /\ requests' = [requests EXCEPT ![home[p]] =
                         Append(@, [from |-> p, card |-> c, game |-> game[p]])]
  /\ phase' = [phase EXCEPT ![p] = "listening"]
  /\ UNCHANGED <<home, rooms, has, up, job, cards, wire, game, verdict, historyVars, faults>>

End(p, how) ==
  /\ verdict' = [verdict EXCEPT ![game[p]][p] = how]
  /\ phase' = [phase EXCEPT ![p] = "waiting"]
  /\ UNCHANGED <<home, rooms, has, up, requests, job, cards, game, played, historyVars, faults>>

(* The user chooses no card, or nothing comes in 30s.                      *)
CancelGame(p) ==
  /\ MoreFaults
  /\ phase[p] \in {"choosing", "listening"}
  /\ End(p, "cancelled")
  /\ UNCHANGED wire

HearCard(p) ==
  /\ phase[p] = "listening"
  /\ Heard(p, "PLAY_CARD") /\ Subscribed(p)
  /\ Saw(p)
  /\ phase' = [phase EXCEPT ![p] =
                 IF played[game[p]][p] = NoCard THEN "choosing" ELSE @]
  /\ UNCHANGED <<home, rooms, has, up, requests, job, cards, game, played, verdict,
                 historyVars, faults>>

HearResult(p) ==
  /\ phase[p] = "listening"
  /\ Heard(p, "ROUND_RESULT") /\ Subscribed(p)
  /\ Saw(p)
  /\ End(p, Head(wire[p]).winner)

(***************************************************************************)
(* A server takes up a card.  In a local room everything is one step of    *)
(* the only goroutine that uses local rooms.                               *)
(***************************************************************************)
(* Mutant: the result is sent as it stands for the first player. *)
ResultForFirst(c1, c2) == CheckWinner(c1, c2)

ResultFor(c1, c2) ==
  CASE CheckWinner(c1, c2) = "GANHOU" -> Player1
    [] CheckWinner(c1, c2) = "PERDEU" -> Player2
    [] OTHER                          -> "nobody"

Result(g, c1, c2) == [type |-> "ROUND_RESULT", game |-> g, winner |-> ResultFor(c1, c2)]
Card(m) == [type |-> "PLAY_CARD", game |-> m.game]

Taking(s) == up[s] /\ job[s] = Idle /\ requests[s] # <<>>
Taken(s) == requests' = [requests EXCEPT ![s] = Tail(@)]

(* Mutant: the cards of a finished round stay, and results go out per card. *)
PlayLocalEarly(s) ==
  LET m == Head(requests[s])
      g == m.game
      of == [cards[s][g].of EXCEPT ![m.from] = m.card]
      toldOf(p) == IF p = Opponent(m.from) THEN <<Card(m)>> ELSE <<>>
  IN
  /\ Taking(s)
  /\ rooms[g].local
  /\ Taken(s)
  /\ wire' = [p \in Player |-> wire[p] \o toldOf(p)
                                 \o <<Result(g, of[Player1], of[Player2])>>]
  /\ cards' = [cards EXCEPT ![s][g] = [made |-> TRUE, of |-> of]]
  /\ decided' = [decided EXCEPT ![g] = @ + 1]
  /\ UNCHANGED <<home, rooms, has, up, job, clientVars, mishaps, faults>>

PlayLocal(s) ==
  LET m == Head(requests[s])
      g == m.game
      of == [cards[s][g].of EXCEPT ![m.from] = m.card]
      both == \A p \in Player : of[p] # NoCard
      toldOf(p) == (IF p = Opponent(m.from) THEN <<Card(m)>> ELSE <<>>)
                     \o (IF both THEN <<Result(g, of[Player1], of[Player2])>> ELSE <<>>)
  IN
  /\ Taking(s)
  /\ rooms[g].local
  /\ Taken(s)
  /\ wire' = [p \in Player |-> wire[p] \o toldOf(p)]
  /\ cards' = [cards EXCEPT ![s][g] = IF both THEN EmptyMap ELSE [made |-> TRUE, of |-> of]]
  /\ decided' = [decided EXCEPT ![g] = IF both THEN @ + 1 ELSE @]
  /\ UNCHANGED <<home, rooms, has, up, job, clientVars, mishaps, faults>>

(* The lookup by id finds the last room that s has applied.                *)
TakeGlobal(s) ==
  LET m == Head(requests[s]) IN
  /\ Taking(s)
  /\ ~ rooms[m.game].local
  /\ has[s] > 0
  /\ Taken(s)
  /\ job' = [job EXCEPT ![s] = [at |-> "relay", from |-> m.from, card |-> m.card,
                                game |-> m.game, room |-> has[s], on |-> s,
                                seen |-> NilMap.of]]
  /\ mishaps' = [mishaps EXCEPT ![m.game] =
                   IF has[s] = m.game THEN @ ELSE @ \union {"crossed"}]
  /\ UNCHANGED <<home, rooms, has, up, cards, wire, clientVars, decided, faults>>

(* Ten lookups in 5s found no room: the card is dropped.                   *)
GiveUpRoom(s) ==
  /\ Taking(s)
  /\ ~ rooms[Head(requests[s]).game].local
  /\ has[s] = 0
  /\ Taken(s)
  /\ Note(Head(requests[s]).game, "dropped")
  /\ UNCHANGED <<home, rooms, has, up, job, cards, wire, clientVars, decided, faults>>

(***************************************************************************)
(* processClientCard: first the opponent hears of the card, then the host. *)
(* A job runs as long as the server it runs on.                            *)
(***************************************************************************)
At(s, place) == job[s] # Idle /\ job[s].at = place
GoTo(s, place) == job' = [job EXCEPT ![s].at = place]
Finish(s) == job' = [job EXCEPT ![s] = Idle]

(* Calls over HTTP can fail, those to a dead server must.                  *)
Call(s, t) == up[t] \/ job[s].on = t
CallFails(s, t) ==
  /\ job[s].on # t
  /\ IF up[t] THEN Fault ELSE UNCHANGED faults

Relay(s) ==
  LET q == Opponent(job[s].from) IN
  /\ At(s, "relay")
  /\ Call(s, home[q])
  /\ Send(q, Card(job[s]))
  /\ GoTo(s, "forward")
  /\ UNCHANGED <<home, rooms, has, up, requests, cards, clientVars, historyVars, faults>>

RelayFails(s) ==
  /\ At(s, "relay")
  /\ CallFails(s, home[Opponent(job[s].from)])
  /\ GoTo(s, "forward")
  /\ UNCHANGED <<home, rooms, has, up, requests, cards, wire, clientVars, historyVars>>

Host(s) == rooms[job[s].room].host

(* Does another thread work at room g of server h?                         *)
Others(s, h, g) ==
  \E t \in Server \ {s} :
    /\ job[t] # Idle
    /\ job[t].at \notin {"relay", "forward"}
    /\ job[t].on = h /\ job[t].room = g

(* processHostCard starts, in this goroutine or in one of the host's; that *)
(* one looks the room up again.                                            *)
Arrive(s) ==
  LET h == Host(s)
      g == IF h = job[s].on THEN job[s].room ELSE has[h]
      what == (IF Others(s, h, g) THEN {"raced"} ELSE {})
                \union (IF g # job[s].game THEN {"crossed"} ELSE {})
  IN
  /\ At(s, "forward")
  /\ Call(s, h)
  /\ g > 0
  /\ job' = [job EXCEPT ![s].at = "check", ![s].room = g, ![s].on = h]
  /\ mishaps' = [k \in Game |-> IF k \in {g, job[s].game} THEN mishaps[k] \union what
                                                          ELSE mishaps[k]]
  /\ UNCHANGED <<home, rooms, has, up, requests, cards, wire, clientVars, decided, faults>>

(* The host does not wait for a room it has not applied yet.               *)
RoomNotFound(s) ==
  /\ At(s, "forward")
  /\ Host(s) # job[s].on
  /\ up[Host(s)] /\ has[Host(s)] = 0
  /\ Finish(s)
  /\ Note(job[s].game, "dropped")
  /\ UNCHANGED <<home, rooms, has, up, requests, cards, wire, clientVars, decided, faults>>

ForwardFails(s) ==
  /\ At(s, "forward")
  /\ CallFails(s, Host(s))
  /\ Finish(s)
  /\ Note(job[s].game, "dropped")
  /\ UNCHANGED <<home, rooms, has, up, requests, cards, wire, clientVars, decided>>

(***************************************************************************)
(* processHostCard, as fine as its uses of room.PlayersCards.              *)
(***************************************************************************)
Room(s) == cards[job[s].on][job[s].room]

(* Mutant: every card makes a new map. *)
CheckNothing(s) ==
  /\ At(s, "check")
  /\ GoTo(s, "make")
  /\ UNCHANGED <<home, rooms, has, up, requests, cards, wire, clientVars, historyVars, faults>>

CheckNil(s) ==
  /\ At(s, "check")
  /\ GoTo(s, IF Room(s).made THEN "store" ELSE "make")
  /\ UNCHANGED <<home, rooms, has, up, requests, cards, wire, clientVars, historyVars, faults>>

Put(s, map, place) ==
  /\ cards' = [cards EXCEPT ![job[s].on][job[s].room] = map]
  /\ GoTo(s, place)
  /\ UNCHANGED <<home, rooms, has, up, requests, wire, clientVars, historyVars, faults>>

MakeMap(s) == At(s, "make") /\ Put(s, EmptyMap, "store")

StoreCard(s) ==
  /\ At(s, "store")
  /\ Put(s, [Room(s) EXCEPT !.of[job[s].from] = job[s].card], "count")

(* Mutant: a round is over when one card is there. *)
CountOne(s) ==
  /\ At(s, "count")
  /\ GoTo(s, "read1")
  /\ UNCHANGED <<home, rooms, has, up, requests, cards, wire, clientVars, historyVars, faults>>

CountCards(s) ==
  /\ At(s, "count")
  /\ IF \A p \in Player : Room(s).of[p] # NoCard THEN GoTo(s, "read1") ELSE Finish(s)
  /\ UNCHANGED <<home, rooms, has, up, requests, cards, wire, clientVars, historyVars, faults>>

ReadCard(s, p, from, to) ==
  /\ At(s, from)
  /\ job' = [job EXCEPT ![s].at = to, ![s].seen[p] = Room(s).of[p]]
  /\ UNCHANGED <<home, rooms, has, up, requests, cards, wire, clientVars, historyVars, faults>>

RoundResult(s) == Result(job[s].room, job[s].seen[Player1], job[s].seen[Player2])

NotifyPlayer(s, p, from, to) ==
  /\ At(s, from)
  /\ GoTo(s, to)
  /\ \/ Call(s, home[p]) /\ Send(p, RoundResult(s)) /\ UNCHANGED faults
     \/ CallFails(s, home[p]) /\ UNCHANGED wire
  /\ decided' = [decided EXCEPT ![job[s].room] = IF p = Player1 THEN @ + 1 ELSE @]
  /\ UNCHANGED <<home, rooms, has, up, requests, cards, clientVars, mishaps>>

ResetCards(s) ==
  /\ At(s, "reset")
  /\ cards' = [cards EXCEPT ![job[s].on][job[s].room] = EmptyMap]
  /\ Finish(s)
  /\ UNCHANGED <<home, rooms, has, up, requests, wire, clientVars, historyVars, faults>>

(* A map written by one goroutine while another writes or reads it ends    *)
(* the process of the server, and with it the jobs that run there.         *)
ConcurrentMapAccess(s, t) ==
  /\ At(s, "store")
  /\ job[t] # Idle /\ job[t].at \in {"store", "read1", "read2"}
  /\ s # t /\ job[s].on = job[t].on /\ job[s].room = job[t].room
  /\ up' = [up EXCEPT ![job[s].on] = FALSE]
  /\ LET dead == {u \in Server : job[u] # Idle /\ job[u].on = job[s].on}
     IN /\ job' = [u \in Server |-> IF u \in dead THEN Idle ELSE job[u]]
        /\ mishaps' = [g \in Game |->
                         IF \E u \in dead : job[u].game = g THEN mishaps[g] \union {"dropped"}
                                                            ELSE mishaps[g]]
  /\ UNCHANGED <<home, rooms, has, requests, cards, wire, clientVars, decided, faults>>

ClientStep(p) ==
  \/ HearMatch(p) \/ Miss(p) \/ EnterGame(p) \/ PlayCard(p) \/ CancelGame(p)
  \/ HearCard(p) \/ HearResult(p)

ServerStep(s) ==
  \/ ApplyRoom(s)
  \/ PlayLocal(s) \/ TakeGlobal(s) \/ GiveUpRoom(s)
  \/ Relay(s) \/ RelayFails(s) \/ Arrive(s) \/ RoomNotFound(s) \/ ForwardFails(s)
  \/ CheckNil(s) \/ MakeMap(s) \/ StoreCard(s) \/ CountCards(s)
  \/ ReadCard(s, Player1, "read1", "read2") \/ ReadCard(s, Player2, "read2", "tell1")
  \/ NotifyPlayer(s, Player1, "tell1", "tell2") \/ NotifyPlayer(s, Player2, "tell2", "reset")
  \/ ResetCards(s)

Next ==
  \/ OpenRoom
  \/ \E p \in Player : ClientStep(p)
  \/ \E s \in Server : ServerStep(s)
  \/ \E s, t \in Server : ConcurrentMapAccess(s, t)

Spec == Init /\ [][Next]_vars

(***************************************************************************)
(* Properties.                                                             *)
(***************************************************************************)
TypeOK ==
  /\ home \in Homes
  /\ rooms \in Seq([first : Player, host : Server, local : BOOLEAN]) /\ Len(rooms) <= MaxGames
  /\ has \in [Server -> 0 .. Len(rooms)]
  /\ up \in [Server -> BOOLEAN]
  /\ \A s \in Server : \A i \in DOMAIN requests[s] :
       requests[s][i] \in [from : Player, card : Elements, game : Game]
  /\ \A s \in Server : job[s] = Idle \/
       job[s] \in [at : {"relay", "forward", "check", "make", "store", "count", "read1",
                         "read2", "tell1", "tell2", "reset"},
                   from : Player, card : Elements, game : Game, room : Game, on : Server,
                   seen : [Player -> Elements \union {NoCard}]]
  /\ cards \in [Server -> [Game -> [made : BOOLEAN,
                                    of : [Player -> Elements \union {NoCard}]]]]
  /\ phase \in [Player -> {"waiting", "matched", "choosing", "listening"}]
  /\ game \in [Player -> 0 .. Len(rooms)]
  /\ played \in [Game -> [Player -> Elements \union {NoCard}]]
  /\ verdict \in [Game -> [Player -> Player \union {"unknown", "cancelled", "nobody"}]]
  /\ faults \in 0 .. MaxFaults

(* What an earlier game can leave behind: a player that gave it up, or a   *)
(* second result.                                                          *)
Leftovers(g) ==
  \E k \in 1 .. g - 1 : decided[k] > 1 \/ \E p \in Player : verdict[k][p] = "cancelled"

AllPlayed(g) == \A p \in Player : played[g][p] # NoCard

(* The first game of two players is a round as they know it: a result that *)
(* a player is shown is that of both cards by the rules on the screen,     *)
(* whatever the threads at the host's unlocked room do (processHostCard).  *)
(* Once a call over HTTP failed this is over: who missed the result can be *)
(* shown a second one, of an empty map.                                    *)
FirstGame == INSTANCE Round WITH card <- played[1], verdict <- verdict[1]
FirstGameIsRound ==
  FirstGame!Init /\ [][faults' = 0 => FirstGame!Next]_(FirstGame!vars)

(* In a later game a player is shown another result only if an earlier one *)
(* was given up or announced twice: rooms of the same two names share      *)
(* their id (fsm.go), and the clients compare no id.  Or the result was    *)
(* lost, and there was a second one.                                       *)
WrongResultNeedsLeftovers ==
  \A g \in Game, p \in Player :
    verdict[g][p] \in Player \union {"nobody"} =>
      \/ AllPlayed(g) /\ verdict[g][p] = ResultFor(played[g][Player1], played[g][Player2])
      \/ Leftovers(g)
      \/ faults > 0 /\ decided[g] > 1

(* Who does not have the turn plays first only on a card left over from an *)
(* earlier game (PlayGlobalGame, PlayLocalGame).                           *)
OutOfTurnNeedsLeftovers ==
  \A g \in 1 .. Len(rooms) :
    LET first == rooms[g].first IN
    played[g][first] = NoCard /\ played[g][Opponent(first)] # NoCard => Leftovers(g)

(* When both cards have been handled, there was a result; it is missing    *)
(* only if a card was lost, met another game's room, or both were handled  *)
(* at once (processHostCard, HandleGameMessage).                           *)
UndecidedNeedsMishap ==
  \A g \in Game :
    /\ AllPlayed(g)
    /\ \A s \in Server : /\ \A i \in DOMAIN requests[s] : requests[s][i].game # g
                         /\ job[s] # Idle => job[s].game # g
    => decided[g] > 0 \/ mishaps[g] # {}

(* A game has one result, unless both cards are handled at once or one     *)
(* comes from another game.                                                *)
DecidedOnce == \A g \in Game : decided[g] > 1 => mishaps[g] \intersect {"raced", "crossed"} # {}

=============================================================================
